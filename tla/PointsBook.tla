----------------------------- MODULE PointsBook -----------------------------
(***************************************************************************)
(* What the points wallet promises (docs/points-extension.md 3.1 and 3.5): *)
(* a book in which every entry is posted once, under a key no other entry  *)
(* has, never changes except to be reversed once, and moves the balance of *)
(* its owner by exactly its amount in the same step.                       *)
(***************************************************************************)
EXTENDS Integers

CONSTANTS User, Entry, EntryKey, Opening,
          MaxAmount    \* no entry carries more than this

VARIABLES balance,     \* [User -> Int]
          entry        \* [Entry -> entry record, or Absent]

vars == <<balance, entry>>

Absent == [status |-> "none"]

Written == {e \in Entry : entry[e] # Absent}

Init == /\ balance = Opening
        /\ entry = [e \in Entry |-> Absent]

PostedEntry == [status : {"VALIDATED"}, user : User,
                amount : -MaxAmount..MaxAmount, key : EntryKey]

\* A new entry: its key is fresh and its owner's balance moves by its amount.
Post(e) ==
    LET new == entry'[e] IN
    /\ entry[e] = Absent
    /\ new \in PostedEntry
    /\ \A f \in Written : entry[f].key # new.key
    /\ entry' = [entry EXCEPT ![e] = new]
    /\ balance' = [balance EXCEPT ![new.user] = @ + new.amount]

\* The one later change an entry may undergo: it stops counting, and its owner
\* gives back exactly what it carried.
Reverse(e) ==
    /\ e \in Written
    /\ entry[e].status = "VALIDATED"
    /\ entry' = [entry EXCEPT ![e].status = "REVERSED"]
    /\ balance' = [balance EXCEPT ![entry[e].user] = @ - entry[e].amount]

Next == \E e \in Entry : Post(e) \/ Reverse(e)

Spec == Init /\ [][Next]_vars

=============================================================================
