---------------------------- MODULE OfflineQueue ----------------------------
(***************************************************************************)
(* The orders of the mobile app that are given while it is offline         *)
(* (apps/mobile/lib/offline-queue.ts, orders-api.ts): kept in the device's *)
(* storage and sent, with the key they were given, when a screen loads.    *)
(* Storage is read and written whole, one item at a time, and nothing      *)
(* keeps two calls apart.  That a key is applied once is Orders' concern.  *)
(***************************************************************************)
EXTENDS Naturals, Sequences

CONSTANTS Call, Mutation

VARIABLES
    queue,        \* the item STORAGE_KEY: mutations to send
    conflicts,    \* the item CONFLICTS_KEY: those the server has refused with 409
    given,        \* mutations the user has given
    kept,         \* those the user was told are queued
    synced,       \* those the server has answered with success
    discarded,    \* conflicts the user has dismissed
    exposed,      \* those an item was overwritten under, or a flush that died between its writes
    pc, job       \* where each call is; what it has read and will write

items == <<queue, conflicts>>
history == <<given, kept, synced, discarded, exposed>>
vars == <<items, history, pc, job>>

None == "none"
NoJob == [mutation |-> None, read |-> <<>>, todo |-> <<>>, remaining |-> <<>>,
          readConflicts |-> {}, conflicts |-> {}]

Elements(s) == {s[i] : i \in DOMAIN s}

Init ==
    /\ queue = <<>> /\ conflicts = {}
    /\ given = {} /\ kept = {} /\ synced = {} /\ discarded = {} /\ exposed = {}
    /\ pc = [c \in Call |-> "idle"]
    /\ job = [c \in Call |-> NoJob]

Goto(c, stage, work) ==
    /\ pc' = [pc EXCEPT ![c] = stage]
    /\ job' = [job EXCEPT ![c] = work]
End(c) == Goto(c, "idle", NoJob)

\* setItem: what is in the item by now and was not when it was read is lost, and what
\* was removed from it since may come back.
Overwrites(now, read) == exposed' = exposed \cup (now \ read) \cup (read \ now)

-----------------------------------------------------------------------------
(* The user acts *)

\* fulfilOrderOfflineAware, resolveExceptionOfflineAware: the server answers, whatever
\* it answers, or the network fails and the mutation is to be queued.
Answered(m) ==
    /\ m \notin given
    /\ given' = given \cup {m}
    /\ UNCHANGED <<items, kept, synced, discarded, exposed, pc, job>>
Unanswered(c, m) ==
    /\ pc[c] = "idle"
    /\ m \notin given
    /\ given' = given \cup {m}
    /\ Goto(c, "enqueueing", [NoJob EXCEPT !.mutation = m])
    /\ UNCHANGED <<items, kept, synced, discarded, exposed>>

\* enqueue lists the queue ...
ReadForEnqueue(c) ==
    /\ pc[c] = "enqueueing"
    /\ Goto(c, "keeping", [job[c] EXCEPT !.read = queue])
    /\ UNCHANGED <<items, history>>

\* ... and stores it with the mutation at its end.
Keep(c) ==
    /\ pc[c] = "keeping"
    /\ queue' = Append(job[c].read, job[c].mutation)
    /\ kept' = kept \cup {job[c].mutation}
    /\ Overwrites(Elements(queue), Elements(job[c].read))
    /\ End(c)
    /\ UNCHANGED <<conflicts, given, synced, discarded>>

\* discardConflict, whatever the mutation, lists the conflicts ...
ReadForDiscard(c, m) ==
    /\ pc[c] = "idle"
    /\ Goto(c, "discarding", [NoJob EXCEPT !.mutation = m, !.readConflicts = conflicts])
    /\ UNCHANGED <<items, history>>

\* ... and stores them without it, if it is one of them.
Discard(c) ==
    /\ pc[c] = "discarding"
    /\ conflicts' = job[c].readConflicts \ {job[c].mutation}
    /\ discarded' = discarded \cup (job[c].readConflicts \cap {job[c].mutation})
    /\ Overwrites(conflicts, job[c].readConflicts)
    /\ End(c)
    /\ UNCHANGED <<queue, given, kept, synced>>

-----------------------------------------------------------------------------
(* syncOfflineQueue: flush *)

\* The queue is listed, then the conflicts.
ReadQueue(c) ==
    /\ pc[c] = "idle"
    /\ queue # <<>>
    /\ Goto(c, "listing", [NoJob EXCEPT !.read = queue, !.todo = queue])
    /\ UNCHANGED <<items, history>>
ReadConflicts(c) ==
    /\ pc[c] = "listing"
    /\ Goto(c, "sending",
            [job[c] EXCEPT !.readConflicts = conflicts, !.conflicts = conflicts])
    /\ UNCHANGED <<items, history>>

\* The first mutation not yet tried is sent: it succeeds, ...
SendSucceeds(c) ==
    /\ pc[c] = "sending"
    /\ job[c].todo # <<>>
    /\ synced' = synced \cup {Head(job[c].todo)}
    /\ Goto(c, "sending", [job[c] EXCEPT !.todo = Tail(@)])
    /\ UNCHANGED <<items, given, kept, discarded, exposed>>

\* Mutant of SendConflicts: a refused mutation is put nowhere.
SendConflictsForgotten(c) ==
    /\ pc[c] = "sending"
    /\ job[c].todo # <<>>
    /\ Goto(c, "sending", [job[c] EXCEPT !.todo = Tail(@)])
    /\ UNCHANGED <<items, history>>

\* ... or is refused with 409, and becomes a conflict, ...
SendConflicts(c) ==
    /\ pc[c] = "sending"
    /\ job[c].todo # <<>>
    /\ Goto(c, "sending",
            [job[c] EXCEPT !.todo = Tail(@), !.conflicts = @ \cup {Head(job[c].todo)}])
    /\ UNCHANGED <<items, history>>

\* ... or fails in any other way, and stays for the next flush.
SendFails(c) ==
    /\ pc[c] = "sending"
    /\ job[c].todo # <<>>
    /\ Goto(c, "sending",
            [job[c] EXCEPT !.todo = Tail(@), !.remaining = Append(@, Head(job[c].todo))])
    /\ UNCHANGED <<items, history>>

\* What remains is stored, then the conflicts.
WriteQueue(c) ==
    /\ pc[c] = "sending"
    /\ job[c].todo = <<>>
    /\ queue' = job[c].remaining
    /\ Overwrites(Elements(queue), Elements(job[c].read))
    /\ Goto(c, "storing", job[c])
    /\ UNCHANGED <<conflicts, given, kept, synced, discarded>>
WriteConflicts(c) ==
    /\ pc[c] = "storing"
    /\ conflicts' = job[c].conflicts
    /\ Overwrites(conflicts, job[c].readConflicts)
    /\ End(c)
    /\ UNCHANGED <<queue, given, kept, synced, discarded>>

\* Storage fails or the app is closed: a flush that has stored what remains leaves its
\* new conflicts nowhere.
Abandon(c) ==
    /\ pc[c] # "idle"
    /\ exposed' = IF pc[c] = "storing"
                  THEN exposed \cup (job[c].conflicts \ job[c].readConflicts) ELSE exposed
    /\ End(c)
    /\ UNCHANGED <<items, given, kept, synced, discarded>>

Next ==
    \/ \E m \in Mutation : Answered(m)
    \/ \E c \in Call :
        \/ \E m \in Mutation : Unanswered(c, m) \/ ReadForDiscard(c, m)
        \/ ReadForEnqueue(c) \/ Keep(c) \/ Discard(c)
        \/ ReadQueue(c) \/ ReadConflicts(c)
        \/ SendSucceeds(c) \/ SendConflicts(c) \/ SendFails(c)
        \/ WriteQueue(c) \/ WriteConflicts(c) \/ Abandon(c)

Spec == Init /\ [][Next]_vars

-----------------------------------------------------------------------------
(* Properties *)

Stage == {"idle", "enqueueing", "keeping", "discarding", "listing", "sending", "storing"}

\* Every variable has its type.
TypeOK ==
    /\ queue \in Seq(Mutation) /\ conflicts \subseteq Mutation
    /\ kept \cup synced \cup discarded \subseteq given /\ given \subseteq Mutation
    /\ exposed \subseteq Mutation
    /\ pc \in [Call -> Stage]
    /\ \A c \in Call : job[c].mutation \in Mutation \cup {None}

\* The mutations that a flush holds between its two writes.
InHand == UNION {job[c].conflicts : c \in {d \in Call : pc[d] = "storing"}}

\* A mutation the user was told is queued is sent with success, waits in the queue, or
\* shows as a conflict until the user dismisses it ("never silently dropped",
\* offline-queue.ts:65-66), unless an item was overwritten under it or a flush died
\* between its two writes.
NothingIsDropped ==
    kept \subseteq Elements(queue) \cup conflicts \cup InHand
                   \cup synced \cup discarded \cup exposed

\* A conflict the user has dismissed is not sent again and does not come back, with
\* the same exception.
DismissedForGood == discarded \cap (Elements(queue) \cup conflicts) \subseteq exposed

=============================================================================
