---------------------------- MODULE Idempotency ----------------------------
(***************************************************************************)
(* Requests with an Idempotency-Key                                        *)
(* (apps/api/src/common/idempotency/idempotency.service.ts), of one scope  *)
(* and owner.  A request is one of a few bodies; fn stands for the         *)
(* operation, one step here.  A record's expiresAt is never read.          *)
(***************************************************************************)
EXTENDS Naturals, FiniteSets

CONSTANTS Call, Key, Body,
          MaxRuns   \* a bound

\* What a user of this module gives.
IdempotencyAssumption == "none" \notin Body /\ MaxRuns \in Nat

VARIABLES
    record,       \* IdempotencyRecord: the body whose hash and response a key has
    ran,          \* how often fn has run under a key
    ranFor,       \* the bodies that fn has run for
    unsettled,    \* the keys that two requests found free together, or one left unrecorded
    pc, job       \* where each call is; its key and body

vars == <<record, ran, ranFor, unsettled, pc, job>>

Free == "none"
NoJob == [key |-> Free, body |-> Free]

Init ==
    /\ record = [k \in Key |-> Free]
    /\ ran = [k \in Key |-> 0]
    /\ ranFor = [k \in Key |-> {}]
    /\ unsettled = {}
    /\ pc = [c \in Call |-> "idle"]
    /\ job = [c \in Call |-> NoJob]

Goto(c, stage, work) ==
    /\ pc' = [pc EXCEPT ![c] = stage]
    /\ job' = [job EXCEPT ![c] = work]
End(c) == Goto(c, "idle", NoJob)

\* run: the key is free.  A record of the same body is replayed and another body is
\* refused, which changes nothing.
FindRecord(c, k, b) ==
    /\ pc[c] = "idle"
    /\ record[k] = Free
    /\ unsettled' = IF \E d \in Call : pc[d] # "idle" /\ job[d].key = k
                    THEN unsettled \cup {k} ELSE unsettled
    /\ Goto(c, "running", [key |-> k, body |-> b])
    /\ UNCHANGED <<record, ran, ranFor>>

\* fn.
Run(c) ==
    /\ pc[c] = "running"
    /\ ran[job[c].key] < MaxRuns
    /\ ran' = [ran EXCEPT ![job[c].key] = @ + 1]
    /\ ranFor' = [ranFor EXCEPT ![job[c].key] = @ \cup {job[c].body}]
    /\ Goto(c, "recording", job[c])
    /\ UNCHANGED <<record, unsettled>>

\* The response is recorded; a key that is taken by now is no error, and keeps its record.
Record(c) ==
    /\ pc[c] = "recording"
    /\ record' = [record EXCEPT ![job[c].key] = IF @ = Free THEN job[c].body ELSE @]
    /\ End(c)
    /\ UNCHANGED <<ran, ranFor, unsettled>>

\* fn fails, the record cannot be written (the error is swallowed), or the process dies.
Abandon(c) ==
    /\ pc[c] # "idle"
    /\ unsettled' = IF pc[c] = "recording" THEN unsettled \cup {job[c].key} ELSE unsettled
    /\ End(c)
    /\ UNCHANGED <<record, ran, ranFor>>

Next ==
    \E c \in Call :
        \/ \E k \in Key, b \in Body : FindRecord(c, k, b)
        \/ Run(c) \/ Record(c) \/ Abandon(c)

Spec == Init /\ [][Next]_vars

(* Properties *************************************************************)

\* Every variable has its type.
TypeOK ==
    /\ record \in [Key -> Body \cup {Free}]
    /\ ran \in [Key -> Nat]
    /\ ranFor \in [Key -> SUBSET Body]
    /\ unsettled \subseteq Key
    /\ pc \in [Call -> {"idle", "running", "recording"}]
    /\ job \in [Call -> [key : Key \cup {Free}, body : Body \cup {Free}]]

\* A key brings about its operation once, for one body, unless two requests found the
\* key free together or the first one's response was not recorded; and what it replays
\* is the response of an operation that ran under it.
RunsOnce ==
    \A k \in Key :
        /\ k \notin unsettled => ran[k] <= 1 /\ Cardinality(ranFor[k]) <= 1
        /\ record[k] # Free => record[k] \in ranFor[k]

=============================================================================
