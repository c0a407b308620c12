---------------------------- MODULE LicenceKeys ----------------------------
(***************************************************************************)
(* One licence key and its activations on devices                          *)
(* (apps/api/src/digital/licence-key.service.ts).  The count is kept apart *)
(* from the rows it counts, and each await is a step.                      *)
(***************************************************************************)
EXTENDS Integers, FiniteSets

CONSTANTS Call, Device, activationLimit

\* What a user of this module gives.
LicenceKeysAssumption ==
    /\ activationLimit \in Nat
    /\ IsFiniteSet(Call) /\ Call # {}

VARIABLES
    status, activationCount,   \* LicenceKey
    activation,   \* LicenceKeyActivation: one row for a device, which may be deactivated
    drifted,      \* a call ended between its two writes, or two deactivated one row
    pc, job       \* where each call is; its device

licence == <<status, activationCount, activation>>
vars == <<licence, drifted, pc, job>>

NoDevice == "none"
Stage == {"idle", "looking", "activating", "counting", "deactivating", "uncounting"}

Init ==
    /\ status = "ACTIVE"
    /\ activationCount = 0
    /\ activation = [d \in Device |-> "none"]
    /\ drifted = FALSE
    /\ pc = [c \in Call |-> "idle"]
    /\ job = [c \in Call |-> NoDevice]

Goto(c, stage, device) ==
    /\ pc' = [pc EXCEPT ![c] = stage]
    /\ job' = [job EXCEPT ![c] = device]
End(c) == Goto(c, "idle", NoDevice)

\* revoke.
Revoke ==
    /\ status' = "REVOKED"
    /\ UNCHANGED <<activationCount, activation, drifted, pc, job>>

(* Activation *************************************************************)

\* activate: the key is read, with its count; if it leaves no room the call ends, for
\* a device that is active already with its activation and for others with an error ...
FindKey(c, d) ==
    /\ pc[c] = "idle"
    /\ status = "ACTIVE"
    /\ activationCount < activationLimit
    /\ Goto(c, "looking", d)
    /\ UNCHANGED <<licence, drifted>>

\* ... an active device is answered with its activation ...
FindActivation(c) ==
    /\ pc[c] = "looking"
    /\ activation[job[c]] # "active"
    /\ Goto(c, "activating", job[c])
    /\ UNCHANGED <<licence, drifted>>

\* ... a row is created for another, unless the device has one, deactivated or not ...
CreateActivation(c) ==
    /\ pc[c] = "activating"
    /\ activation[job[c]] = "none"
    /\ activation' = [activation EXCEPT ![job[c]] = "active"]
    /\ Goto(c, "counting", job[c])
    /\ UNCHANGED <<status, activationCount, drifted>>

\* ... and counted.
Count(c) ==
    /\ pc[c] = "counting"
    /\ activationCount' = activationCount + 1
    /\ End(c)
    /\ UNCHANGED <<status, activation, drifted>>

(* Deactivation ***********************************************************)

\* deactivate: the activation is found active, be the key revoked or not ...
FindActive(c, d) ==
    /\ pc[c] = "idle"
    /\ activation[d] = "active"
    /\ drifted' = (drifted \/ \E x \in Call : pc[x] = "deactivating" /\ job[x] = d)
    /\ Goto(c, "deactivating", d)
    /\ UNCHANGED licence

\* ... it is marked by its id ...
Deactivate(c) ==
    /\ pc[c] = "deactivating"
    /\ activation' = [activation EXCEPT ![job[c]] = "deactivated"]
    /\ Goto(c, "uncounting", job[c])
    /\ UNCHANGED <<status, activationCount, drifted>>

\* ... and no longer counted.
Uncount(c) ==
    /\ pc[c] = "uncounting"
    /\ activationCount' = activationCount - 1
    /\ End(c)
    /\ UNCHANGED <<status, activation, drifted>>

\* A call is refused, fails, or dies with its process.
Abandon(c) ==
    /\ pc[c] # "idle"
    /\ drifted' = (drifted \/ pc[c] \in {"counting", "uncounting"})
    /\ End(c)
    /\ UNCHANGED licence

Next ==
    \/ Revoke
    \/ \E c \in Call :
        \/ \E d \in Device : FindKey(c, d) \/ FindActive(c, d)
        \/ FindActivation(c) \/ CreateActivation(c) \/ Count(c)
        \/ Deactivate(c) \/ Uncount(c)
        \/ Abandon(c)

Spec == Init /\ [][Next]_vars

(* Properties *************************************************************)

\* Every variable has its type.
TypeOK ==
    /\ status \in {"ACTIVE", "REVOKED"} /\ activationCount \in Int
    /\ activation \in [Device -> {"none", "active", "deactivated"}]
    /\ drifted \in BOOLEAN
    /\ pc \in [Call -> Stage] /\ job \in [Call -> Device \cup {NoDevice}]

At(stages) == {c \in Call : pc[c] \in stages}

\* The count is the number of active devices, give or take the calls that are between
\* their two writes, unless such a call ended there or two deactivated one device.
CountIsActivations ==
    drifted \/ activationCount = Cardinality({d \in Device : activation[d] = "active"})
                                 - Cardinality(At({"counting"})) + Cardinality(At({"uncounting"}))

\* The count exceeds the limit by no more than the activations that read it together
\* with the one that reached it.
ActivationsWithinLimit ==
    activationCount + Cardinality(At({"looking", "activating", "counting"}))
        < activationLimit + Cardinality(Call)

=============================================================================
