------------------------------ MODULE Members -------------------------------
(***************************************************************************)
(* The members of one tenant and its invites                               *)
(* (apps/api/src/tenants/tenants.service.ts, invites/invite.service.ts).   *)
(* A request is admitted by its caller's role (TenantContextGuard,         *)
(* PoliciesGuard), reads a row, and writes by id some awaits later; it may *)
(* end before that, by an error or with its process.                       *)
(*                                                                         *)
(* The seven roles are two here: OWNER manages everything, as ADMIN does,  *)
(* and MEMBER does not, as the others.  LAPSED is a row whose status is    *)
(* PENDING and whose term has passed.  An invite's token is the one its    *)
(* last issue sent; an older one is not found.                             *)
(***************************************************************************)
EXTENDS Naturals

CONSTANTS Call, Person, Founder,
          Address, MaxInvites,   \* bounds: who is invited, and how often in all
          Offered                \* Invite.role: what each invite offers

Invite == 1..MaxInvites
Role == {"OWNER", "MEMBER"}
Pending == {"PENDING", "LAPSED"}

\* What a user of this module gives.
MembersAssumption ==
    /\ Founder \in Person /\ Address \subseteq Person
    /\ MaxInvites \in Nat /\ Offered \in [Invite -> Role]

VARIABLES
    member, role,                     \* Membership, one row per person
    sent,                             \* how many invites there have been
    status, to,                       \* Invite: status and expiresAt, email
    pc, job,                          \* where each call is, and what it works on
    overlapped,                       \* two changes of members overlapped
    contended,                        \* persons two invites were created for at once
    crossed                           \* invites that two calls worked on at once

members == <<member, role>>
invites == <<sent, status, to>>
ghosts == <<overlapped, contended, crossed>>
vars == <<members, invites, pc, job, ghosts>>

On(p, r, i) == [person |-> p, role |-> r, invite |-> i]
NoJob == On(Founder, "MEMBER", 0)

Init ==
    /\ member = [p \in Person |-> IF p = Founder THEN "active" ELSE "none"]
    /\ role = [p \in Person |-> IF p = Founder THEN "OWNER" ELSE "MEMBER"]
    /\ sent = 0
    /\ status = [i \in Invite |-> "none"]
    /\ to = [i \in Invite |-> Founder]
    /\ pc = [c \in Call |-> "idle"]
    /\ job = [c \in Call |-> NoJob]
    /\ overlapped = FALSE /\ contended = {} /\ crossed = {}

Goto(c, stage, work) ==
    /\ pc' = [pc EXCEPT ![c] = stage]
    /\ job' = [job EXCEPT ![c] = work]
End(c) == Goto(c, "idle", NoJob)

\* The caller's role is resolved once, before the handler runs.
Admitted(c, a) == pc[c] = "idle" /\ member[a] = "active" /\ role[a] = "OWNER"

(* Members ****************************************************************)

BeginChange == overlapped' = (overlapped \/ \E d \in Call : pc[d] \in {"changing", "removing"})

\* updateMemberRole: nobody gives up a role of their own ...
BeginRole(c, a, p, r) ==
    /\ Admitted(c, a)
    /\ member[p] # "none"
    /\ p = a => r = "OWNER"
    /\ Goto(c, "changing", On(p, r, 0))
    /\ BeginChange
    /\ UNCHANGED <<members, invites, contended, crossed>>

\* removeMember: ... nor leaves.
BeginRemove(c, a, p) ==
    /\ Admitted(c, a)
    /\ member[p] # "none"
    /\ p # a
    /\ Goto(c, "removing", On(p, "MEMBER", 0))
    /\ BeginChange
    /\ UNCHANGED <<members, invites, contended, crossed>>

SetRole(c) ==
    /\ pc[c] = "changing"
    /\ role' = [role EXCEPT ![job[c].person] = job[c].role]
    /\ End(c)
    /\ UNCHANGED <<member, invites, ghosts>>

Remove(c) ==
    /\ pc[c] = "removing"
    /\ member' = [member EXCEPT ![job[c].person] = "inactive"]
    /\ End(c)
    /\ UNCHANGED <<role, invites, ghosts>>

(* Invites ****************************************************************)

Cross(i) == crossed' = IF \E d \in Call : job[d].invite = i THEN crossed \cup {i} ELSE crossed

\* create: no pending invite for this address (whether it is a member is not asked) ...
BeginInvite(c, a, p) ==
    /\ Admitted(c, a)
    /\ \A i \in Invite : ~(status[i] \in Pending /\ to[i] = p)
    /\ Goto(c, "inviting", On(p, "MEMBER", 0))
    /\ contended' = IF \E d \in Call : pc[d] = "inviting" /\ job[d].person = p
                    THEN contended \cup {p} ELSE contended
    /\ UNCHANGED <<members, invites, overlapped, crossed>>

\* ... and the row.
CreateInvite(c) ==
    /\ pc[c] = "inviting"
    /\ sent < MaxInvites
    /\ sent' = sent + 1
    /\ status' = [status EXCEPT ![sent + 1] = "PENDING"]
    /\ to' = [to EXCEPT ![sent + 1] = job[c].person]
    /\ End(c)
    /\ UNCHANGED <<members, ghosts>>

\* Mutant: an invite of any status is revoked.
BeginAnyRevoke(c, a, i) ==
    /\ Admitted(c, a)
    /\ i <= sent
    /\ Goto(c, "revoking", On(to[i], "MEMBER", i))
    /\ Cross(i)
    /\ UNCHANGED <<members, invites, overlapped, contended>>

BeginRevoke(c, a, i) ==
    /\ Admitted(c, a)
    /\ i <= sent
    /\ status[i] \in Pending
    /\ Goto(c, "revoking", On(to[i], "MEMBER", i))
    /\ Cross(i)
    /\ UNCHANGED <<members, invites, overlapped, contended>>

\* resend: another token, another term; the status, read before, is not written, so
\* the two awaits are one step.
Resend(a, i) ==
    /\ member[a] = "active" /\ role[a] = "OWNER"
    /\ status[i] \in Pending
    /\ status' = [status EXCEPT ![i] = "PENDING"]
    /\ UNCHANGED <<members, sent, to, pc, job, ghosts>>

PassTerm(i) ==
    /\ status[i] = "PENDING"
    /\ status' = [status EXCEPT ![i] = "LAPSED"]
    /\ UNCHANGED <<members, sent, to, pc, job, ghosts>>

\* accept: by the person it was sent to.  A pending invite whose term has passed is
\* marked EXPIRED and refused; one that is marked already is not refused.
BeginAccept(c, i) ==
    /\ pc[c] = "idle"
    /\ status[i] \in Pending \cup {"EXPIRED"}
    /\ Goto(c, IF status[i] = "LAPSED" THEN "expiring" ELSE "accepting",
            On(to[i], Offered[i], i))
    /\ Cross(i)
    /\ UNCHANGED <<members, invites, overlapped, contended>>

\* updateStatus(REVOKED), status EXPIRED, status ACCEPTED: by id, whatever it is now.
WriteStatus(c, stage, new) ==
    /\ pc[c] = stage
    /\ status' = [status EXCEPT ![job[c].invite] = new]
    /\ End(c)
    /\ UNCHANGED <<members, sent, to, ghosts>>

\* Mutant: the invite is marked before anyone joins.
MarkFirst(c) ==
    /\ pc[c] = "accepting"
    /\ status' = [status EXCEPT ![job[c].invite] = "ACCEPTED"]
    /\ IF member[job[c].person] = "active" THEN End(c) ELSE Goto(c, "joining", job[c])
    /\ UNCHANGED <<members, sent, to, ghosts>>

FindMember(c) ==
    /\ pc[c] = "accepting"
    /\ Goto(c, IF member[job[c].person] = "active" THEN "marking" ELSE "joining", job[c])
    /\ UNCHANGED <<members, invites, ghosts>>

\* The unique key refuses a second row, a removed member's too.
Join(c) ==
    /\ pc[c] = "joining"
    /\ member[job[c].person] = "none"
    /\ member' = [member EXCEPT ![job[c].person] = "active"]
    /\ role' = [role EXCEPT ![job[c].person] = job[c].role]
    /\ Goto(c, "marking", job[c])
    /\ UNCHANGED <<invites, ghosts>>

\* A call is refused, fails, or dies with its process.
Abandon(c) ==
    /\ pc[c] # "idle"
    /\ End(c)
    /\ UNCHANGED <<members, invites, ghosts>>

Next ==
    \/ \E c \in Call, a, p \in Person :
        \/ \E r \in Role : BeginRole(c, a, p, r)
        \/ BeginRemove(c, a, p)
        \/ p \in Address /\ BeginInvite(c, a, p)
    \/ \E a \in Person, i \in Invite :
        \/ \E c \in Call : BeginRevoke(c, a, i)
        \/ Resend(a, i)
    \/ \E c \in Call :
        \/ SetRole(c) \/ Remove(c) \/ CreateInvite(c)
        \/ \E i \in Invite : BeginAccept(c, i)
        \/ FindMember(c) \/ Join(c)
        \/ WriteStatus(c, "revoking", "REVOKED")
        \/ WriteStatus(c, "expiring", "EXPIRED")
        \/ WriteStatus(c, "marking", "ACCEPTED")
        \/ Abandon(c)
    \/ \E i \in Invite : PassTerm(i)

Spec == Init /\ [][Next]_vars

(* Properties *************************************************************)

\* Every variable has its type.
TypeOK ==
    /\ member \in [Person -> {"none", "active", "inactive"}] /\ role \in [Person -> Role]
    /\ sent \in 0..MaxInvites
    /\ status \in [Invite -> {"none", "PENDING", "LAPSED", "ACCEPTED", "REVOKED", "EXPIRED"}]
    /\ to \in [Invite -> Person]
    /\ pc \in [Call -> {"idle", "changing", "removing", "inviting", "revoking",
                         "expiring", "accepting", "joining", "marking"}]
    /\ job \in [Call -> [person : Person, role : Role, invite : 0..MaxInvites]]
    /\ overlapped \in BOOLEAN /\ contended \subseteq Person /\ crossed \subseteq Invite

\* A tenant is never left without an OWNER or ADMIN, by any sequence of role changes
\* and removals (two that overlap can leave it so: each is admitted by the role that
\* the other takes away).
ManagersRemain ==
    overlapped \/ \E p \in Person : member[p] = "active" /\ role[p] = "OWNER"

\* An accepted invite's address has become a member, though the accepting call may
\* have failed anywhere and been repeated.
AcceptedIsMember ==
    \A i \in Invite : status[i] = "ACCEPTED" => member[to[i]] # "none"

\* One address has one pending invite, unless two were created at once.
OnePending ==
    \A i, j \in Invite :
        status[i] \in Pending /\ status[j] \in Pending /\ to[i] = to[j] /\ i # j
            => to[i] \in contended

\* An accepted or revoked invite stays what it is, unless two calls worked on it at
\* once; and who has been removed does not return, not by a change of role, nor by a
\* new invite (whose acceptance the unique key refuses, again and again).
SettledStays ==
    [][/\ \A i \in Invite \ crossed :
            status[i] \in {"ACCEPTED", "REVOKED"} => status'[i] = status[i]
       /\ \A p \in Person : member[p] = "inactive" => member'[p] = "inactive"]_vars

=============================================================================
