----------------------------- MODULE VideoWatch -----------------------------
(***************************************************************************)
(* Server-verified watching of one video by one user                       *)
(* (apps/api/src/points/video-watch.service.ts): sessions are started, fed *)
(* with heartbeats, completed and awarded, and suspect ones are reviewed.  *)
(* Every await is a step: a call reads a session's row, looks at the       *)
(* clock, decides, and writes back what it decided, and the rows may have  *)
(* changed in between, for no update looks at the status it overwrites.    *)
(*                                                                         *)
(* The transactions of awardIfEligible and of rejectFraudSuspect are one   *)
(* step each: PointsWallet shows them to be all or nothing, one per watch. *)
(***************************************************************************)
EXTENDS Integers, FiniteSets

CONSTANTS Watch, Call,
          Orderly,            \* clients send one request per session at a time and
                              \* reviewers decide on what is in the queue only
          TicksPerSecond,     \* the precision of the server's clock
          MaxTime,            \* bound on the clock, in ticks
          MaxBeats,           \* bound on the heartbeats of a session
          MaxWatchesPerDay,   \* POINTS_MAX_WATCHES_PER_DAY
          Interval,           \* POINTS_HEARTBEAT_INTERVAL_SECONDS
          GapThreshold,       \* HEARTBEAT_GAP_FRAUD_THRESHOLD_SECONDS
          OverflowTolerance,  \* WATCH_SECONDS_OVERFLOW_TOLERANCE_SECONDS
          MinWatchSeconds,    \* POINTS_VIDEO_MIN_WATCH_SECONDS
          Duration            \* VideoContent.durationSeconds

\* What an instance must satisfy.
VideoWatchAssumption ==
    /\ Watch # {} /\ IsFiniteSet(Watch)
    /\ Orderly \in BOOLEAN
    /\ TicksPerSecond \in Nat \ {0} /\ MaxTime \in Nat /\ MaxBeats \in Nat
    /\ Interval \in Nat \ {0}
    /\ {MaxWatchesPerDay, GapThreshold, OverflowTolerance, MinWatchSeconds, Duration} \subseteq Nat

VARIABLES
    now,        \* the server's clock
    watch,      \* VideoWatch rows
    award,      \* the PointTransaction of source video_watch, by session
    queued,     \* sessions with a job in points-award-validation
    pc,         \* where each call is
    job,        \* what each call does, to which session
    seen,       \* the row each call works with
    stamp,      \* the instant each call works with
    late        \* the calls that were at work on a session when it became suspect

vars == <<now, watch, award, queued, pc, job, seen, stamp, late>>

Time == 0..MaxTime
Open == {"STARTED", "WATCHING"}
WatchStatus == Open \cup {"none", "COMPLETED", "CREDITED", "FRAUD_SUSPECT"}
WatchRow == [status : WatchStatus, created : Time, start : Time, end : Time,
             seconds : Nat, beats : Nat, last : Time]
Award == [status : {"none", "VALIDATED", "REVERSED"}, by : {"none", "complete", "approve"}]
Op == {"start", "heartbeat", "complete", "finish", "approve", "reject"}
Stage == {"idle", "counted", "timed", "loaded", "stamped", "beaten", "assessing", "closing",
          "flagging", "passed", "completed", "awarding", "reversing", "rejecting"}

NoRow == [status |-> "none", created |-> 0, start |-> 0, end |-> 0,
          seconds |-> 0, beats |-> 0, last |-> 0]
NoJob == [op |-> "start", watch |-> CHOOSE w \in Watch : TRUE]

Init == /\ now = 0
        /\ watch = [w \in Watch |-> NoRow]
        /\ award = [w \in Watch |-> [status |-> "none", by |-> "none"]]
        /\ queued = {}
        /\ pc = [t \in Call |-> "idle"]
        /\ job = [t \in Call |-> NoJob]
        /\ seen = [t \in Call |-> NoRow]
        /\ stamp = [t \in Call |-> 0]
        /\ late = {}

-----------------------------------------------------------------------------
(* Accounting (fraud.service.ts), in ticks where the code has milliseconds *)

Least(a, b) == IF a <= b THEN a ELSE b

\* computeGapSeconds: never negative, and capped at the heartbeat interval.
RawGap(previous, at) == IF at > previous THEN at - previous ELSE 0
CappedGap(previous, at) == Least(RawGap(previous, at), Interval * TicksPerSecond)

\* Math.round of a number of ticks in seconds: halves go up.
RoundedSeconds(ticks) == (2 * ticks + TicksPerSecond) \div (2 * TicksPerSecond)

IsHeartbeatGapFraud(gap) == gap > GapThreshold * TicksPerSecond
IsWatchSecondsOverflow(seconds) == seconds > Duration + OverflowTolerance
\* Fewer than 60% of the heartbeats that fit in the elapsed time.
IsLowHeartbeatCoverage(beats, elapsed) == 5 * beats * Interval * TicksPerSecond < 3 * elapsed

\* Both gates of an award: the minimum, and 60% of the video rounded up.
PassesGates(seconds) == seconds >= MinWatchSeconds /\ seconds >= (6 * Duration + 9) \div 10

-----------------------------------------------------------------------------
(* Steps of a call *)

Begin(t, op, w, row, stage) ==
    /\ pc[t] = "idle"
    /\ pc' = [pc EXCEPT ![t] = stage]
    /\ job' = [job EXCEPT ![t] = [op |-> op, watch |-> w]]
    /\ seen' = [seen EXCEPT ![t] = row]
    /\ UNCHANGED stamp

\* A call that is over forgets what it has read.
Goto(t, stage) ==
    /\ pc' = [pc EXCEPT ![t] = stage]
    /\ IF stage = "idle" THEN /\ job' = [job EXCEPT ![t] = NoJob]
                             /\ seen' = [seen EXCEPT ![t] = NoRow]
                             /\ stamp' = [stamp EXCEPT ![t] = 0]
                        ELSE UNCHANGED <<job, seen, stamp>>

Set(w, status) == watch' = [watch EXCEPT ![w].status = status]
Rows == {w \in Watch : watch[w].status # "none"}

\* start: count today's sessions ...
StartCount(t) ==
    /\ Cardinality(Rows) < MaxWatchesPerDay
    /\ Begin(t, "start", NoJob.watch, NoRow, "counted")
    /\ UNCHANGED <<now, watch, award, queued>>

\* ... and insert one more, which started when the insert was sent.
StartCreate(t) ==
    /\ pc[t] = "timed"
    /\ \E w \in Watch \ Rows :
         watch' = [watch EXCEPT ![w] = [NoRow EXCEPT !.status = "STARTED", !.created = now,
                                                     !.start = stamp[t], !.last = stamp[t]]]
    /\ Goto(t, "idle")
    /\ UNCHANGED <<now, award, queued>>

UserCall(t) == job[t].op \in {"heartbeat", "complete", "finish"}
\* Mutant of Load: loadOwnedOpenWatch does not look at the status.
LoadClosed(t) == \E w \in Rows, op \in {"heartbeat", "complete", "finish"} :
    /\ op # "complete" => watch[w].beats < MaxBeats
    /\ Orderly => \A s \in Call : pc[s] # "idle" /\ UserCall(s) => job[s].watch # w
    /\ Begin(t, op, w, watch[w], IF op = "complete" THEN "assessing" ELSE "loaded")
    /\ UNCHANGED <<now, watch, award, queued>>

\* loadOwnedOpenWatch, for heartbeat, for complete (earnViaAlias included) and,
\* under the name "finish", for a complete that brings a final heartbeat.
Load(t) == \E w \in Watch, op \in {"heartbeat", "complete", "finish"} :
    /\ watch[w].status \in Open
    /\ op # "complete" => watch[w].beats < MaxBeats
    /\ Orderly => \A s \in Call : pc[s] # "idle" /\ UserCall(s) => job[s].watch # w
    /\ Begin(t, op, w, watch[w], IF op = "complete" THEN "assessing" ELSE "loaded")
    /\ UNCHANGED <<now, watch, award, queued>>

\* new Date()
Stamp(t) ==
    /\ pc[t] \in {"counted", "loaded", "assessing"}
    /\ stamp' = [stamp EXCEPT ![t] = now]
    /\ pc' = [pc EXCEPT ![t] = CASE @ = "counted" -> "timed"
                                 [] @ = "loaded" -> "stamped"
                                 [] @ = "assessing" -> "closing"]
    /\ UNCHANGED <<now, watch, award, queued, job, seen>>

\* Mutant of Beat: the gap is added to what the row holds by now.
BeatIncrement(t) ==
    LET w == job[t].watch
        gap == CappedGap(seen[t].last, stamp[t])
    IN
    /\ pc[t] = "stamped"
    /\ watch' = [watch EXCEPT ![w] = [@ EXCEPT !.status = "WATCHING",
                                             !.seconds = @ + RoundedSeconds(gap),
                                             !.beats = @ + 1, !.last = stamp[t]]]
    /\ Goto(t, IF job[t].op = "finish" THEN "beaten" ELSE "idle")
    /\ UNCHANGED <<now, award, queued>>

\* heartbeat: too long a gap, or a position the client cannot have reached
\* (`accelerated`, the client's choice), makes the session suspect; otherwise
\* the capped gap is added to what was read.
Beat(t) == \E accelerated \in BOOLEAN :
    LET w == job[t].watch
        gap == RawGap(seen[t].last, stamp[t])
        suspect == IsHeartbeatGapFraud(gap) \/ accelerated
    IN
    /\ pc[t] = "stamped"
    /\ IF suspect
       THEN Set(w, "FRAUD_SUSPECT")
       ELSE watch' = [watch EXCEPT ![w] = [@ EXCEPT
                        !.status = "WATCHING",
                        !.seconds = seen[t].seconds
                                      + RoundedSeconds(CappedGap(seen[t].last, stamp[t])),
                        !.beats = seen[t].beats + 1,
                        !.last = stamp[t]]]
    /\ Goto(t, IF job[t].op = "finish" /\ ~ suspect THEN "beaten" ELSE "idle")
    /\ UNCHANGED <<now, award, queued>>

\* complete reads the session again after the final heartbeat.
Refresh(t) ==
    /\ pc[t] = "beaten"
    /\ pc' = [pc EXCEPT ![t] = "assessing"]
    /\ seen' = [seen EXCEPT ![t] = watch[job[t].watch]]
    /\ UNCHANGED <<now, watch, award, queued, job, stamp>>

\* Mutant of Assess: other sessions are not looked for.
AssessAlone(t) == \E fanout \in BOOLEAN :
    /\ pc[t] = "closing"
    /\ Goto(t, IF \/ IsWatchSecondsOverflow(seen[t].seconds)
                  \/ IsLowHeartbeatCoverage(seen[t].beats, stamp[t] - seen[t].start)
                  \/ fanout
               THEN "flagging" ELSE "passed")
    /\ UNCHANGED <<now, watch, award, queued>>

\* The session's fraud signals; `fanout` is what other users' sessions say of
\* the device and the address.
Assess(t) == \E fanout \in BOOLEAN :
    /\ pc[t] = "closing"
    /\ Goto(t, IF \/ IsWatchSecondsOverflow(seen[t].seconds)
                  \/ IsLowHeartbeatCoverage(seen[t].beats, stamp[t] - seen[t].start)
                  \/ \E w \in Watch \ {job[t].watch} : watch[w].status \in Open
                  \/ fanout
               THEN "flagging" ELSE "passed")
    /\ UNCHANGED <<now, watch, award, queued>>

MarkFraudSuspect(t) ==
    /\ pc[t] = "flagging"
    /\ Set(job[t].watch, "FRAUD_SUSPECT")
    /\ Goto(t, "idle")
    /\ UNCHANGED <<now, award, queued>>

MarkCompleted(t) ==
    /\ pc[t] = "passed"
    /\ watch' = [watch EXCEPT ![job[t].watch] = [@ EXCEPT
                   !.status = "COMPLETED", !.end = stamp[t], !.seconds = seen[t].seconds]]
    /\ Goto(t, "completed")
    /\ UNCHANGED <<now, award, queued>>

\* findBySource, the gates, then the queue, whose jobs nothing takes (startWorker
\* has no caller); an unreachable queue means the award is made by this call.
Settle(t) == \E reachable \in BOOLEAN :
    LET due == award[job[t].watch].status = "none" /\ PassesGates(seen[t].seconds) IN
    /\ pc[t] = "completed"
    /\ queued' = IF due /\ reachable THEN queued \cup {job[t].watch} ELSE queued
    /\ Goto(t, IF due /\ ~ reachable THEN "awarding" ELSE "idle")
    /\ UNCHANGED <<now, watch, award>>

\* approveFraudSuspect, up to the award: any session of the tenant will do.
Approve(t) == \E w \in Rows :
    /\ Orderly => watch[w].status = "FRAUD_SUSPECT"
    /\ Begin(t, "approve", w, NoRow, "awarding")
    /\ UNCHANGED <<now, watch, award, queued>>

\* awardIfEligible: a second row for the session violates the unique key, and
\* an earlier VALIDATED one makes the call a replay; a cap, a cooldown or a
\* failure (Fail) ends the call as well.
MakeAward(t) ==
    LET w == job[t].watch IN
    /\ pc[t] = "awarding"
    /\ IF award[w].status = "none"
       THEN /\ award' = [award EXCEPT ![w] =
                 [status |-> "VALIDATED",
                  by |-> IF job[t].op = "approve" THEN "approve" ELSE "complete"]]
            /\ Set(w, "CREDITED")
       ELSE UNCHANGED <<award, watch>>
    /\ Goto(t, "idle")
    /\ UNCHANGED <<now, queued>>

\* rejectFraudSuspect: findBySource ...
Reject(t) == \E w \in Rows :
    /\ Orderly => watch[w].status = "FRAUD_SUSPECT"
    /\ Begin(t, "reject", w, NoRow,
             IF award[w].status = "VALIDATED" THEN "reversing" ELSE "rejecting")
    /\ UNCHANGED <<now, watch, award, queued>>

\* ... its reversal, which fails when another call was first ...
Reverse(t) ==
    LET w == job[t].watch IN
    /\ pc[t] = "reversing"
    /\ award' = [award EXCEPT ![w].status = "REVERSED"]
    /\ Goto(t, IF award[w].status = "VALIDATED" THEN "rejecting" ELSE "idle")
    /\ UNCHANGED <<now, watch, queued>>

\* ... and the session's status.
RejectWatch(t) ==
    /\ pc[t] = "rejecting"
    /\ Set(job[t].watch, "FRAUD_SUSPECT")
    /\ Goto(t, "idle")
    /\ UNCHANGED <<now, award, queued>>

\* A statement throws or the process dies: the rest of the call is lost.
Fail(t) ==
    /\ pc[t] # "idle"
    /\ Goto(t, "idle")
    /\ UNCHANGED <<now, watch, award, queued>>

Tick == /\ now < MaxTime
        /\ now' = now + 1
        /\ UNCHANGED <<watch, award, queued, pc, job, seen, stamp>>

Heartbeat(t) == Beat(t) \/ Refresh(t)
Complete(t) == Assess(t) \/ MarkFraudSuspect(t) \/ MarkCompleted(t) \/ Settle(t)
Review(t) == Approve(t) \/ Reject(t) \/ Reverse(t) \/ RejectWatch(t)

Step(t) == \/ StartCount(t) \/ StartCreate(t) \/ Load(t) \/ Stamp(t) \/ Heartbeat(t)
           \/ Complete(t) \/ MakeAward(t) \/ Review(t) \/ Fail(t)

\* No call is under way, and the day modelled may be over.
Rest == (\A t \in Call : pc[t] = "idle") /\ UNCHANGED vars

BecomesSuspect(w) == watch[w].status # "FRAUD_SUSPECT" /\ watch'[w].status = "FRAUD_SUSPECT"
NoteLate ==
    late' = {t \in Call : pc'[t] # "idle" /\ (t \in late \/ BecomesSuspect(job'[t].watch))}

Next == (Tick \/ Rest \/ \E t \in Call : Step(t)) /\ NoteLate

Spec == Init /\ [][Next]_vars

-----------------------------------------------------------------------------
(* Properties *)

TypeOK ==
    /\ now \in Time
    /\ watch \in [Watch -> WatchRow]
    /\ award \in [Watch -> Award]
    /\ queued \subseteq Watch
    /\ pc \in [Call -> Stage]
    /\ job \in [Call -> [op : Op, watch : Watch]]
    /\ seen \in [Call -> WatchRow]
    /\ stamp \in [Call -> Time]
    /\ late \subseteq Call

\* However heartbeats and completions of one session overlap, and although each
\* writes back a sum it read earlier, no time is counted twice: what rounding
\* adds apart (Math.round makes at most 2x of a gap x), a session never has more
\* verified seconds than have passed since it started.
VerifiedAtMostDoubled ==
    \A w \in Rows : TicksPerSecond * watch[w].seconds <= 2 * (now - watch[w].start)

\* A completion that is about to award points belongs to a session that really
\* lasted: at least half of what both gates ask for.
GatesNeedRealTime ==
    \A t \in Call :
        pc[t] = "awarding" /\ job[t].op # "approve" =>
            \E n \in 0..Duration + MinWatchSeconds :
                /\ PassesGates(n)
                /\ TicksPerSecond * n <= 2 * (stamp[t] - watch[job[t].watch].start)

\* The types, and the real time behind the seconds that gates and reviewers see.
SecondsAreReal == TypeOK /\ VerifiedAtMostDoubled /\ GatesNeedRealTime

\* A session shown as CREDITED has its PointTransaction, whatever stale writes,
\* reviews and failures came between (7.2 step 5: "transaction id backlinked").
CreditedHasAward ==
    \A w \in Watch : watch[w].status = "CREDITED" => award[w].status # "none"

\* points-extension.md 8.5: "A watch in FRAUD_SUSPECT never self-resolves": what takes
\* it out is the award of a reviewer's approval, or a call that was at work on it when
\* it became suspect, and writes what it had decided before, or without looking again.
FraudNeverSelfResolves ==
    \A w \in Watch :
        watch[w].status = "FRAUD_SUSPECT" /\ watch'[w].status # "FRAUD_SUSPECT" =>
            \E t \in Call : /\ job[t].watch = w /\ pc'[t] # pc[t]
                            /\ t \in late \/ (pc[t] = "awarding" /\ job[t].op = "approve")

PaidByItself(w) == award[w].by = "complete"

\* Two sessions of one video that were both open at some time are not both paid
\* without a reviewer (points-extension.md 8.1: two concurrent sessions for the
\* same user and video are a fraud signal).
OverlapPaidOnce ==
    \A v, w \in Rows :
        v # w /\ PaidByItself(v) /\ PaidByItself(w) =>
            watch[v].end <= watch[w].created \/ watch[w].end <= watch[v].created

=============================================================================
