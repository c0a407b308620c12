------------------------------ MODULE MCPoints ------------------------------
(***************************************************************************)
(* Small instances of PointsWallet and VideoWatch for TLC. The two meet in *)
(* one transaction, the award of a watch, which PointsWallet takes apart   *)
(* and VideoWatch takes as one step: so they run side by side, one of them *)
(* moves in each behaviour, and their graphs are added, not multiplied.    *)
(***************************************************************************)
EXTENDS MCPointsWallet

CONSTANTS Parts,            \* those of "wallet" and "watch" that move
          Session, Caller, Orderly, TicksPerSecond, MaxTime, MaxBeats, MaxWatchesPerDay,
          Interval, GapThreshold, OverflowTolerance, MinWatchSeconds, Duration

VARIABLES part, now, watch, award, queued, watchPc, watchJob, read, stamp, late

watchVars == <<now, watch, award, queued, watchPc, watchJob, read, stamp, late>>

V == INSTANCE VideoWatch WITH
        Watch <- Session, Call <- Caller, pc <- watchPc, job <- watchJob, seen <- read

ASSUME WatchAssumption == V!VideoWatchAssumption

\* When sessions are watched it does not matter who has opened a wallet.
MCInit ==
    /\ part \in Parts
    /\ Init /\ V!Init
    /\ part = "watch" => \A u \in User : wallet[u].version # 0

MCNext ==
    /\ UNCHANGED part
    /\ \/ part = "wallet" /\ Next /\ UNCHANGED watchVars
       \/ part = "watch" /\ V!Next /\ UNCHANGED vars

MCSpec == MCInit /\ [][MCNext]_<<part, vars, watchVars>>

\* Bound: where there is one session, time passes once it has started.
LoneStartsAtOnce == V!Rows = {} => now = 0
LoneSpec == MCInit /\ [][MCNext /\ LoneStartsAtOnce']_<<part, vars, watchVars>>

\* VideoWatch: however requests overlap, seconds are real, and CREDITED means paid.
VerifiedAndPaid == V!SecondsAreReal /\ V!CreditedHasAward

\* VideoWatch, requests in order: no two sessions that overlapped are both paid unreviewed.
OnePaidOfTwo == Orderly => V!OverlapPaidOnce

\* VideoWatch: what is suspect stays so until a reviewer decides, or a call decides that
\* was at work on it when it became suspect.
SuspectsStay == [][V!FraudNeverSelfResolves]_watchVars

MCSymmetry == Permutations(Request) \cup Permutations(Watch)
                \cup Permutations(Caller) \cup Permutations(Session)

=============================================================================
