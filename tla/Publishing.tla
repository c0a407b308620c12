----------------------------- MODULE Publishing -----------------------------
(***************************************************************************)
(* A listing on one channel: publication, retry, export packs, approval    *)
(* and deletion (apps/api/src/publishing).  Every await is a step, and no  *)
(* call is in a transaction.  The queue of an automated channel keeps what *)
(* it is given: nothing starts its worker, so no job leaves it or fails,   *)
(* and nothing calls completeQueuedPublish.                                *)
(***************************************************************************)
EXTENDS Naturals, Sequences

CONSTANTS Call, MaxItems, MaxPacks     \* bounds on the rows created

VARIABLES
    automated,  \* whether the channel can be automated; else it takes export packs
    listing,    \* status ("none": not created), approvalStatus, whether deletedAt is set
    items,      \* the SyncJobItems, each with its job's status
    queue,      \* the items that have a job in the connector's queue
    packs,      \* the statuses of the export packs
    raced,      \* what a call has written over that it had read otherwise
    pc, job

vars == <<automated, listing, items, queue, packs, raced, pc, job>>

NoJob == [item |-> 0, fresh |-> FALSE, found |-> FALSE, pack |-> 0, read |-> "none",
          decision |-> "none"]
Publishes == {"itemizing", "routing", "packing", "adding", "saving", "queueing", "succeeding",
              "linking", "failing", "failingItem", "counting"}
Updates == {"saving", "queueing", "failing", "confirming", "approving"}
Stage == Publishes \cup Updates \cup {"idle", "downloading", "deleting"}

Init ==
    /\ automated \in BOOLEAN
    /\ listing \in [status : {"none"}, approval : {"NONE"}, deleted : {FALSE}]
    /\ items = <<>> /\ queue = {} /\ packs = <<>>
    /\ raced = {}
    /\ pc = [c \in Call |-> "idle"]
    /\ job = [c \in Call |-> NoJob]

Goto(c, stage, work) ==
    /\ pc' = [pc EXCEPT ![c] = stage]
    /\ job' = [job EXCEPT ![c] = work]
End(c) == Goto(c, "idle", NoJob)
Found == listing.status # "none" /\ ~listing.deleted
Races(kind, did) == raced' = IF did THEN raced \cup {kind} ELSE raced
Publishing(c) == pc[c] \in Publishes /\ (job[c].item # 0 \/ pc[c] = "itemizing")
UnderWay == \E c \in Call : Publishing(c)

\* listings.update finds the listing ...
FindListing(c) ==
    /\ pc[c] \in Updates
    /\ ~job[c].found
    /\ Found
    /\ Goto(c, pc[c], [job[c] EXCEPT !.found = TRUE])
    /\ UNCHANGED <<automated, listing, items, queue, packs, raced>>

\* ... and later writes by id alone, to what may be deleted by then; what it did not find
\* it leaves, and nobody asks whether it did.
Searched(c) == job[c].found \/ ~Found
Written(c) == [job[c] EXCEPT !.found = FALSE]
SetStatus(c, status) ==
    /\ Searched(c)
    /\ listing' = IF job[c].found THEN [listing EXCEPT !.status = status] ELSE listing
    /\ Races("delete", job[c].found /\ listing.deleted)

-----------------------------------------------------------------------------
(* Creation and publication *)

\* create
CreateDraft ==
    /\ listing.status = "none"
    /\ listing' = [listing EXCEPT !.status = "DRAFT"]
    /\ UNCHANGED <<automated, items, queue, packs, raced, pc, job>>

\* publish creates the listing, then its item in a job.
Publish(c) ==
    /\ pc[c] = "idle"
    /\ listing.status = "none"
    /\ listing' = [listing EXCEPT !.status = "DRAFT"]
    /\ Goto(c, "itemizing", [NoJob EXCEPT !.fresh = TRUE])
    /\ UNCHANGED <<automated, items, queue, packs, raced>>

\* publishExistingListing: by a bulk action, whatever the status but LIVE, by a forced
\* push even then; by the sweep, for a draft that is due.
PublishExisting(c) ==
    /\ pc[c] = "idle"
    /\ Found
    /\ Len(items) < MaxItems
    /\ Goto(c, "itemizing", NoJob)
    /\ Races("publish", UnderWay)
    /\ UNCHANGED <<automated, listing, items, queue, packs>>

\* The item is created, and the listing's latest, its own unless another is created in
\* between, is the one to process.
CreateItem(c) ==
    /\ pc[c] = "itemizing"
    /\ Len(items) < MaxItems
    /\ items' = Append(items, [status |-> "QUEUED", queued |-> FALSE, job |-> "RUNNING"])
    /\ Goto(c, "routing", [job[c] EXCEPT !.item = Len(items) + 1])
    /\ UNCHANGED <<automated, listing, queue, packs, raced>>

\* retryListing: the latest item again.  One with a job in the queue is replayed there
\* instead, and the queue refuses a job that has not failed.
Retry(c) ==
    /\ pc[c] = "idle"
    /\ Found
    /\ listing.status = "ERROR"
    /\ items # <<>>
    /\ ~(automated /\ items[Len(items)].queued)
    /\ Goto(c, "routing", [NoJob EXCEPT !.item = Len(items)])
    /\ Races("publish", UnderWay)
    /\ UNCHANGED <<automated, listing, items, queue, packs>>

-----------------------------------------------------------------------------
(* processListingItem *)

\* A user asks for a pack of any channel's listing (generate), or an item of a channel
\* that is not automated does.  The listing is found, and read into a pack, ...
FindForPack(c) ==
    /\ pc[c] = "idle" \/ (pc[c] = "routing" /\ ~automated)
    /\ Found
    /\ Goto(c, "packing", job[c])
    /\ UNCHANGED <<automated, listing, items, queue, packs, raced>>

\* ... the pack has its row, ...
CreatePack(c) ==
    /\ pc[c] = "packing"
    /\ Len(packs) < MaxPacks
    /\ packs' = Append(packs, "GENERATED")
    /\ Goto(c, "saving", job[c])
    /\ UNCHANGED <<automated, listing, items, queue, raced>>

\* ... its file is saved and the listing waits for the user, ...
SavePack(c) ==
    /\ pc[c] = "saving"
    /\ SetStatus(c, "QUEUED")
    /\ IF job[c].item = 0 THEN End(c) ELSE Goto(c, "succeeding", Written(c))
    /\ UNCHANGED <<automated, items, queue, packs>>

\* ... and the item has succeeded.
Succeed(c) ==
    /\ pc[c] = "succeeding"
    /\ items' = [items EXCEPT ![job[c].item].status = "SUCCEEDED"]
    /\ IF job[c].fresh THEN Goto(c, "counting", job[c]) ELSE End(c)
    /\ UNCHANGED <<automated, listing, queue, packs, raced>>

\* An automated channel: the listing is found, and read into a payload, ...
FindForQueue(c) ==
    /\ pc[c] = "routing"
    /\ automated
    /\ Found
    /\ Goto(c, "adding", job[c])
    /\ UNCHANGED <<automated, listing, items, queue, packs, raced>>

\* Mutant of Enqueue: the listing is marked as queued, and the job was not added.
MarkOnly(c) ==
    /\ pc[c] = "adding"
    /\ listing' = [listing EXCEPT !.status = "QUEUED"]
    /\ Goto(c, "linking", job[c])
    /\ UNCHANGED <<automated, items, queue, packs, raced>>

\* ... the job is added under the item's name, at most once, ...
Enqueue(c) ==
    /\ pc[c] = "adding"
    /\ queue' = queue \cup {job[c].item}
    /\ Goto(c, "linking", job[c])
    /\ UNCHANGED <<automated, listing, items, packs, raced>>

\* ... the item has it, ...
LinkItem(c) ==
    /\ pc[c] = "linking"
    /\ items' = [items EXCEPT ![job[c].item].status = "QUEUED", ![job[c].item].queued = TRUE]
    /\ Goto(c, "queueing", job[c])
    /\ UNCHANGED <<automated, listing, queue, packs, raced>>

\* ... and the listing waits for it.
MarkQueued(c) ==
    /\ pc[c] = "queueing"
    /\ SetStatus(c, "QUEUED")
    /\ IF job[c].fresh THEN Goto(c, "counting", Written(c)) ELSE End(c)
    /\ UNCHANGED <<automated, items, queue, packs>>

\* Any of these steps fails, or the channel cannot publish.
Throw(c) ==
    /\ pc[c] \in {"routing", "packing", "adding", "saving", "succeeding", "linking", "queueing"}
    /\ job[c].item # 0
    /\ Goto(c, "failing", Written(c))
    /\ UNCHANGED <<automated, listing, items, queue, packs, raced>>

\* failItem: the listing, then the item.
FailListing(c) ==
    /\ pc[c] = "failing"
    /\ SetStatus(c, "ERROR")
    /\ Goto(c, "failingItem", Written(c))
    /\ UNCHANGED <<automated, items, queue, packs>>
FailItem(c) ==
    /\ pc[c] = "failingItem"
    /\ items' = [items EXCEPT ![job[c].item].status = "FAILED"]
    /\ IF job[c].fresh THEN Goto(c, "counting", job[c]) ELSE End(c)
    /\ UNCHANGED <<automated, listing, queue, packs, raced>>

\* publish alone recounts its job (recomputeCounters), here of one item.
Recount(c) ==
    /\ pc[c] = "counting"
    /\ items' = [items EXCEPT ![job[c].item].job =
                    CASE items[job[c].item].status = "SUCCEEDED" -> "COMPLETED"
                      [] items[job[c].item].status = "FAILED" -> "FAILED"
                      [] OTHER -> "RUNNING"]
    /\ End(c)
    /\ UNCHANGED <<automated, listing, queue, packs, raced>>

-----------------------------------------------------------------------------
(* Export packs *)

\* confirm: the pack, whatever its status and its listing's, then the listing.
Confirm(c, p) ==
    /\ pc[c] = "idle"
    /\ p \in DOMAIN packs
    /\ packs' = [packs EXCEPT ![p] = "CONFIRMED"]
    /\ Goto(c, "confirming", NoJob)
    /\ UNCHANGED <<automated, listing, items, queue, raced>>
GoLive(c) ==
    /\ pc[c] = "confirming"
    /\ SetStatus(c, "LIVE")
    /\ End(c)
    /\ UNCHANGED <<automated, items, queue, packs>>

\* download: a pack that was found GENERATED is DOWNLOADED.
FindPack(c, p) ==
    /\ pc[c] = "idle"
    /\ p \in DOMAIN packs
    /\ packs[p] = "GENERATED"
    /\ Goto(c, "downloading", [NoJob EXCEPT !.pack = p])
    /\ UNCHANGED <<automated, listing, items, queue, packs, raced>>
Download(c) ==
    /\ pc[c] = "downloading"
    /\ packs' = [packs EXCEPT ![job[c].pack] = "DOWNLOADED"]
    /\ Races("download", packs[job[c].pack] = "CONFIRMED")
    /\ End(c)
    /\ UNCHANGED <<automated, listing, items, queue>>

-----------------------------------------------------------------------------
(* Approval and deletion *)

\* Mutant of FindApproval: a decision is taken on whatever was decided.
FindApprovalAny(c, decision) ==
    /\ pc[c] = "idle"
    /\ Found
    /\ Goto(c, "approving", [NoJob EXCEPT !.read = listing.approval, !.decision = decision])
    /\ UNCHANGED <<automated, listing, items, queue, packs, raced>>

\* submitForApproval reads what has been decided, and decideApproval that it was
\* submitted; both write later, by listings.update.
FindApproval(c, decision) ==
    /\ pc[c] = "idle"
    /\ Found
    /\ IF decision = "SUBMITTED" THEN listing.approval \in {"NONE", "REJECTED"}
                                 ELSE listing.approval = "SUBMITTED"
    /\ Goto(c, "approving", [NoJob EXCEPT !.read = listing.approval, !.decision = decision])
    /\ UNCHANGED <<automated, listing, items, queue, packs, raced>>
DecideApproval(c) ==
    /\ pc[c] = "approving"
    /\ Searched(c)
    /\ IF job[c].found
       THEN /\ listing' = [listing EXCEPT !.approval = job[c].decision,
                                         !.status = CASE job[c].decision = "SUBMITTED" -> "PENDING"
                                                      [] job[c].decision = "REJECTED" -> "REJECTED"
                                                      [] OTHER -> @]
            /\ raced' = raced \cup {k \in {"approval", "delete"} :
                                      IF k = "approval" THEN listing.approval # job[c].read
                                                        ELSE listing.deleted}
       ELSE UNCHANGED <<listing, raced>>
    /\ End(c)
    /\ UNCHANGED <<automated, items, queue, packs>>

\* deleteOne reads the status, and deletes later.
FindDeletable(c) ==
    /\ pc[c] = "idle"
    /\ Found
    /\ listing.status \notin {"PENDING", "QUEUED", "LIVE"}
    /\ Goto(c, "deleting", [NoJob EXCEPT !.read = listing.status])
    /\ UNCHANGED <<automated, listing, items, queue, packs, raced>>
Delete(c) ==
    /\ pc[c] = "deleting"
    /\ listing' = [listing EXCEPT !.deleted = TRUE]
    /\ Races("delete", ~listing.deleted /\ listing.status # job[c].read)
    /\ End(c)
    /\ UNCHANGED <<automated, items, queue, packs>>

\* A call ends before its next write, and outside the steps whose failure it records.
Die(c) ==
    /\ pc[c] # "idle"
    /\ Races("publish", Publishing(c))
    /\ End(c)
    /\ UNCHANGED <<automated, listing, items, queue, packs>>

Next ==
    \/ CreateDraft
    \/ \E c \in Call :
        \/ Publish(c) \/ PublishExisting(c) \/ CreateItem(c) \/ Retry(c) \/ FindListing(c)
        \/ FindForPack(c) \/ CreatePack(c) \/ SavePack(c) \/ Succeed(c)
        \/ FindForQueue(c) \/ Enqueue(c) \/ LinkItem(c) \/ MarkQueued(c)
        \/ Throw(c) \/ FailListing(c) \/ FailItem(c) \/ Recount(c)
        \/ \E p \in 1..MaxPacks : Confirm(c, p) \/ FindPack(c, p)
        \/ GoLive(c) \/ Download(c)
        \/ \E d \in {"SUBMITTED", "APPROVED", "REJECTED"} : FindApproval(c, d)
        \/ DecideApproval(c) \/ FindDeletable(c) \/ Delete(c) \/ Die(c)

Spec == Init /\ [][Next]_vars

-----------------------------------------------------------------------------
(* Properties *)

Status == {"none", "DRAFT", "PENDING", "QUEUED", "LIVE", "ERROR", "REJECTED"}

\* Every variable has its type.
TypeOK ==
    /\ automated \in BOOLEAN
    /\ listing \in [status : Status, approval : {"NONE", "SUBMITTED", "APPROVED", "REJECTED"},
                    deleted : BOOLEAN]
    /\ items \in Seq([status : {"QUEUED", "SUCCEEDED", "FAILED"}, queued : BOOLEAN,
                      job : {"RUNNING", "COMPLETED", "FAILED"}])
    /\ queue \subseteq DOMAIN items
    /\ packs \in Seq({"GENERATED", "DOWNLOADED", "CONFIRMED"})
    /\ raced \subseteq {"publish", "download", "approval", "delete"}
    /\ pc \in [Call -> Stage]

\* A QUEUED listing has something to wait for: a pack that was made, or a job in the
\* queue, whatever overlaps or fails.
QueuedHasWork == listing.status = "QUEUED" => packs # <<>> \/ queue # {}

\* A listing is LIVE by the word of a user who confirmed a pack, unless a download that
\* had found the pack GENERATED has since overwritten that.
LiveIsConfirmed ==
    listing.status = "LIVE" => "download" \in raced \/ \E p \in DOMAIN packs : packs[p] = "CONFIRMED"

\* Once no publication is under way the listing and its latest item tell one story,
\* unless two publications overlapped or one ended early.
ItemAgrees ==
    \/ UnderWay \/ "publish" \in raced \/ items = <<>> \/ listing.deleted
    \/ LET latest == items[Len(items)].status IN
        /\ listing.status = "ERROR" => latest = "FAILED"
        /\ latest = "SUCCEEDED" => listing.status \notin {"DRAFT", "ERROR"}

\* Nothing is deleted that is pending, queued or live, unless its status changed while
\* the deletion was under way, or the deletion came while an update that had found the
\* listing was still to write it (bulk-actions.service.ts:29-30, listing.repository.ts:84).
DeletedIsIdle ==
    listing.deleted => "delete" \in raced \/ listing.status \notin {"PENDING", "QUEUED", "LIVE"}

\* A listing, its items, its packs and its queue agree.
ListingAgrees == TypeOK /\ QueuedHasWork /\ LiveIsConfirmed /\ ItemAgrees /\ DeletedIsIdle

\* An approval stands, unless a submission or a decision under way had read the listing
\* before it.
ApprovalStands ==
    [][listing.approval = "APPROVED" => listing'.approval = "APPROVED" \/ "approval" \in raced']_vars

=============================================================================
