---------------------------- MODULE Credentials ----------------------------
(***************************************************************************)
(* One connection of a tenant and its credentials                          *)
(* (apps/api/src/connections/connections.service.ts, the sweep of          *)
(* token-refresh.service.ts, and the tenant's data key in                  *)
(* credential-vault.service.ts).  A credential is saved by its user or by  *)
(* a provider's callback, replaced by a sweep, tested and disconnected;    *)
(* each await is a step and a call may end after any of them.              *)
(*                                                                         *)
(* The connection's row exists, so Save stands for the tail of create and  *)
(* for rotateCredential.  A data key is named by the call that generated   *)
(* it; wrapping it under a master key is left out, and so is time: a sweep *)
(* may find any active credential near its expiry.                         *)
(***************************************************************************)
EXTENDS Naturals, FiniteSets

CONSTANTS Call, State, MaxCredentials   \* the last is a bound

ASSUME CredentialsAssumption == "none" \notin Call /\ MaxCredentials \in Nat

Credential == 1..MaxCredentials

VARIABLES
    status,       \* Connection.status
    made,         \* how many rows Credential has
    active,       \* isActive
    keyOf,        \* the data key that a credential is encrypted under
    dek,          \* the row TenantDataKey of the tenant, "none" if there is none
    state,        \* ConnectorOAuthState
    honoured,     \* how often a state was exchanged for a credential
    overlapped,   \* two calls have been changing the connection at the same time
    broken,       \* a call that was changing the connection has ended half-way
    pc, job       \* where each call is, and what it holds

rows == <<status, made, active, keyOf, dek>>
oauth == <<state, honoured>>
vars == <<rows, oauth, overlapped, broken, pc, job>>

\* The stages of a call that is changing the connection or has read it to do so.
Changing == {"saving", "refreshing", "keying", "making", "storing",
             "confirming", "resolving", "testing", "parting"}
Stage == {"idle", "consuming", "exchanging"} \cup Changing

\* What comes after a credential is stored, the one a sweep has read, the key to
\* encrypt with, the state, and whether a test has a credential to show.
Holding(n, r, k, s, x) == [next |-> n, row |-> r, key |-> k, state |-> s, shown |-> x]
NoJob == Holding("idle", 0, "none", "none", FALSE)

Init ==
    /\ status = "PENDING"
    /\ made = 0
    /\ active = [r \in Credential |-> FALSE]
    /\ keyOf = [r \in Credential |-> "none"]
    /\ dek = "none"
    /\ state = [s \in State |-> "none"]
    /\ honoured = [s \in State |-> 0]
    /\ overlapped = FALSE /\ broken = FALSE
    /\ pc = [c \in Call |-> "idle"]
    /\ job = [c \in Call |-> NoJob]

Goto(c, stage, work) ==
    /\ pc' = [pc EXCEPT ![c] = stage]
    /\ job' = [job EXCEPT ![c] = work]
End(c) == Goto(c, "idle", NoJob)

\* Call c begins to change the connection.
Enter(c) == overlapped' = (overlapped \/ \E d \in Call \ {c} : pc[d] \in Changing)

HasActive == \E r \in Credential : active[r]
NoneActive == [r \in Credential |-> FALSE]

(* Authorization **********************************************************)

\* startOAuth, whatever the connection's status.
StartOAuth(s) ==
    /\ state[s] = "none"
    /\ state' = [state EXCEPT ![s] = "open"]
    /\ UNCHANGED <<rows, honoured, overlapped, broken, pc, job>>

\* handleOAuthCallback: consume finds the state, not consumed and not expired ...
FindState(c, s) ==
    /\ pc[c] = "idle"
    /\ state[s] = "open"
    /\ Goto(c, "consuming", Holding("confirming", 0, "none", s, FALSE))
    /\ UNCHANGED <<rows, oauth, overlapped, broken>>

\* Mutant: the state is consumed by its id, whoever else has consumed it.
ConsumeUnguarded(c) ==
    /\ pc[c] = "consuming"
    /\ state' = [state EXCEPT ![job[c].state] = "consumed"]
    /\ Goto(c, "exchanging", job[c])
    /\ UNCHANGED <<rows, honoured, overlapped, broken>>

\* ... and consumes it where it is still not consumed: another callback is refused.
Consume(c) ==
    /\ pc[c] = "consuming"
    /\ \/ /\ state[job[c].state] = "open"
          /\ state' = [state EXCEPT ![job[c].state] = "consumed"]
          /\ Goto(c, "exchanging", job[c])
       \/ /\ state[job[c].state] = "consumed"
          /\ UNCHANGED state
          /\ End(c)
    /\ UNCHANGED <<rows, honoured, overlapped, broken>>

\* The user has declined.
Declined(c) ==
    /\ pc[c] = "exchanging"
    /\ status' = "ERROR"
    /\ Enter(c)
    /\ End(c)
    /\ UNCHANGED <<made, active, keyOf, dek, oauth, broken>>

\* The provider exchanges the code for a token set, which is saved.
Exchange(c) ==
    /\ pc[c] = "exchanging"
    /\ honoured' = [honoured EXCEPT ![job[c].state] = @ + 1]
    /\ Enter(c)
    /\ Goto(c, "saving", job[c])
    /\ UNCHANGED <<rows, state, broken>>

(* Saving a credential ****************************************************)

\* create, rotateCredential: whatever the connection's status.
Save(c) ==
    /\ pc[c] = "idle"
    /\ Enter(c)
    /\ Goto(c, "saving", Holding("resolving", 0, "none", "none", FALSE))
    /\ UNCHANGED <<rows, oauth, broken>>

\* saveCredential: deactivateAllForConnection ...
DeactivateAll(c) ==
    /\ pc[c] = "saving"
    /\ active' = NoneActive
    /\ Goto(c, "keying", job[c])
    /\ UNCHANGED <<status, made, keyOf, dek, oauth, overlapped, broken>>

\* ... getOrCreateTenantDek finds the tenant's key, or generates one ...
FindDek(c) ==
    /\ pc[c] = "keying"
    /\ \/ /\ dek # "none"
          /\ Goto(c, "storing", [job[c] EXCEPT !.key = dek])
       \/ /\ dek = "none"
          /\ Goto(c, "making", [job[c] EXCEPT !.key = c])
    /\ UNCHANGED <<rows, oauth, overlapped, broken>>

\* Mutant: the new key replaces one that was stored in the meantime.
UpsertDek(c) ==
    /\ pc[c] = "making"
    /\ dek' = c
    /\ Goto(c, "storing", job[c])
    /\ UNCHANGED <<status, made, active, keyOf, oauth, overlapped, broken>>

\* ... and stores it: tenantId is unique, so the second to do so fails.
CreateDek(c) ==
    /\ pc[c] = "making"
    /\ dek = "none"
    /\ dek' = c
    /\ Goto(c, "storing", job[c])
    /\ UNCHANGED <<status, made, active, keyOf, oauth, overlapped, broken>>

\* ... and the new row is active.  What is left of a callback or a save follows.
Store(c) ==
    /\ pc[c] = "storing"
    /\ made < MaxCredentials
    /\ made' = made + 1
    /\ active' = [active EXCEPT ![made + 1] = TRUE]
    /\ keyOf' = [keyOf EXCEPT ![made + 1] = job[c].key]
    /\ Goto(c, job[c].next, NoJob)
    /\ UNCHANGED <<status, dek, oauth, overlapped, broken>>

\* The end of handleOAuthCallback.
Confirm(c) ==
    /\ pc[c] = "confirming"
    /\ status' = "CONNECTED"
    /\ End(c)
    /\ UNCHANGED <<made, active, keyOf, dek, oauth, overlapped, broken>>

(* The refresh sweep ******************************************************)

\* runSweep has found row r active and near its expiry, with a refresh token; the
\* connection's status is not asked ...
FindExpiring(c, r) ==
    /\ pc[c] = "idle"
    /\ active[r]
    /\ Enter(c)
    /\ Goto(c, "refreshing", Holding("idle", r, "none", "none", FALSE))
    /\ UNCHANGED <<rows, oauth, broken>>

\* Mutant: the row that was refreshed stays active.
RefreshOnly(c) ==
    /\ pc[c] = "refreshing"
    /\ Goto(c, "keying", job[c])
    /\ UNCHANGED <<rows, oauth, overlapped, broken>>

\* ... refreshOne: the provider has sent new tokens, and that row is deactivated,
\* whatever the connection's active row is by now.
Refresh(c) ==
    /\ pc[c] = "refreshing"
    /\ active' = [active EXCEPT ![job[c].row] = FALSE]
    /\ Goto(c, "keying", job[c])
    /\ UNCHANGED <<status, made, keyOf, dek, oauth, overlapped, broken>>

(* Testing and disconnecting **********************************************)

\* test.
Test(c) ==
    /\ pc[c] = "idle"
    /\ Enter(c)
    /\ Goto(c, "resolving", NoJob)
    /\ UNCHANGED <<rows, oauth, broken>>

\* testInternalResult: resolve reads the newest active credential ...
Resolve(c) ==
    /\ pc[c] = "resolving"
    /\ Goto(c, "testing", Holding("idle", 0, "none", "none", HasActive))
    /\ UNCHANGED <<rows, oauth, overlapped, broken>>

\* ... the provider accepts it, if there is one; or it does not, or the call fails.
Tested(c) ==
    /\ pc[c] = "testing"
    /\ status' \in IF job[c].shown THEN {"CONNECTED", "ERROR"} ELSE {"ERROR"}
    /\ End(c)
    /\ UNCHANGED <<made, active, keyOf, dek, oauth, overlapped, broken>>

\* disconnect: deactivateAllForConnection ...
Disconnect(c) ==
    /\ pc[c] = "idle"
    /\ active' = NoneActive
    /\ Enter(c)
    /\ Goto(c, "parting", NoJob)
    /\ UNCHANGED <<status, made, keyOf, dek, oauth, broken>>

\* ... and the status.
Part(c) ==
    /\ pc[c] = "parting"
    /\ status' = "DISCONNECTED"
    /\ End(c)
    /\ UNCHANGED <<made, active, keyOf, dek, oauth, overlapped, broken>>

\* A call is refused, fails, or dies with its process.
Abandon(c) ==
    /\ pc[c] # "idle"
    /\ broken' = (broken \/ pc[c] \in Changing \ {"saving", "refreshing"})
    /\ End(c)
    /\ UNCHANGED <<rows, oauth, overlapped>>

Next ==
    \/ \E c \in Call :
        \/ \E s \in State : FindState(c, s)
        \/ Consume(c) \/ Declined(c) \/ Exchange(c)
        \/ Save(c) \/ DeactivateAll(c) \/ FindDek(c) \/ CreateDek(c) \/ Store(c) \/ Confirm(c)
        \/ \E r \in Credential : FindExpiring(c, r)
        \/ Refresh(c)
        \/ Test(c) \/ Resolve(c) \/ Tested(c) \/ Disconnect(c) \/ Part(c)
        \/ Abandon(c)
    \/ \E s \in State : StartOAuth(s)

Spec == Init /\ [][Next]_vars

(* Properties *************************************************************)

\* Every variable has its type, and the rows are numbered as they were made.
TypeOK ==
    /\ status \in {"PENDING", "CONNECTED", "ERROR", "DISCONNECTED"}
    /\ made \in 0..MaxCredentials
    /\ active \in [Credential -> BOOLEAN]
    /\ keyOf \in [Credential -> Call \cup {"none"}]
    /\ dek \in Call \cup {"none"}
    /\ state \in [State -> {"none", "open", "consumed"}]
    /\ honoured \in [State -> Nat]
    /\ overlapped \in BOOLEAN /\ broken \in BOOLEAN
    /\ pc \in [Call -> Stage]
    /\ \A r \in Credential : active[r] => r <= made

\* Every credential there has ever been can be decrypted: it is encrypted under the
\* tenant's one data key, which a race for the first key cannot replace.
KeyIsKept ==
    \A r \in Credential : r <= made => keyOf[r] = dek /\ dek # "none"

\* A provider's authorization is exchanged once, however often and however closely
\* its callback is repeated.
StateOnce ==
    \A s \in State : honoured[s] <= 1

\* A connection has one active credential at most, unless two calls have been
\* changing it at the same time.
OneActive ==
    overlapped \/ Cardinality({r \in Credential : active[r]}) <= 1

\* At rest the status says whether there is a credential: a connected connection has
\* one and a disconnected one has none, unless two calls overlapped or one of them
\* ended half-way.
StatusAgrees ==
    (\A c \in Call : pc[c] \notin Changing) /\ ~overlapped /\ ~broken =>
        /\ status = "CONNECTED" => HasActive
        /\ status = "DISCONNECTED" => ~HasActive

=============================================================================
