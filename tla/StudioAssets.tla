---------------------------- MODULE StudioAssets ----------------------------
(***************************************************************************)
(* An asset, its upload session and its versions                           *)
(* (apps/api/src/studio/assets, asset-upload-session.repository.ts,        *)
(* asset-version.repository.ts).  A chunk is named by its place in the     *)
(* intended file and counts as one byte.  No call is in a transaction.     *)
(***************************************************************************)
EXTENDS Naturals, Sequences, FiniteSetsExt

CONSTANTS
    Call,
    Total,        \* chunks of the intended file (totalBytes)
    MaxFile,      \* bound on appends
    MaxVersion    \* bound on rollbacks

\* What a user of this module gives.
StudioAssetsAssumption == {Total, MaxVersion} \subseteq Nat \ {0}

VARIABLES
    asset,     \* status, deletedAt, currentVersion
    versions,  \* the version numbers that have a row
    session,   \* of a RESUMABLE upload: status, receivedBytes, whether it has an assetId
    file,      \* the chunks in the scratch file
    torn,      \* two chunks were taken at once, or one was appended and not recorded
    askew,     \* two rollbacks were at once, or a call wrote one of two rows only
    pc, job

vars == <<asset, versions, session, file, torn, askew, pc, job>>

NoJob == [chunk |-> 0, size |-> 0, target |-> 0, next |-> 0]

\* initUpload: PRESIGNED has no session.  completeUpload takes the asset of either.
Init ==
    /\ asset = [status |-> "UPLOADING", deleted |-> FALSE, current |-> 1]
    /\ versions = {}
    /\ session \in [status : {"none", "OPEN"}, received : {0}, linked : {FALSE}]
    /\ file = <<>>
    /\ torn = FALSE /\ askew = FALSE
    /\ pc = [c \in Call |-> "idle"]
    /\ job = [c \in Call |-> NoJob]

Goto(c, stage, work) ==
    /\ pc' = [pc EXCEPT ![c] = stage]
    /\ job' = [job EXCEPT ![c] = work]
End(c) == Goto(c, "idle", NoJob)
Busy(calls, stages) == \E d \in calls : pc[d] \in stages
Others(c, stages) == Busy(Call \ {c}, stages)

-----------------------------------------------------------------------------
(* appendChunk *)

\* Mutant of FindSession: the chunk's offset is not compared.
FindSessionOnly(c, k) ==
    /\ pc[c] = "idle"
    /\ session.status = "OPEN"
    /\ torn' = (torn \/ Others(c, {"appending", "noting"}))
    /\ Goto(c, "appending", [NoJob EXCEPT !.chunk = k])
    /\ UNCHANGED <<asset, versions, session, file, askew>>

\* A chunk is taken where the session stands.
FindSession(c, k) ==
    /\ pc[c] = "idle"
    /\ session.status = "OPEN"
    /\ k - 1 = session.received
    /\ torn' = (torn \/ Others(c, {"appending", "noting"}))
    /\ Goto(c, "appending", [NoJob EXCEPT !.chunk = k])
    /\ UNCHANGED <<asset, versions, session, file, askew>>

\* It is appended, wherever the file ends by now, and the file's size is taken.
AppendFile(c) ==
    /\ pc[c] = "appending"
    /\ Len(file) < MaxFile
    /\ file' = Append(file, job[c].chunk)
    /\ Goto(c, "noting", [job[c] EXCEPT !.size = Len(file')])
    /\ UNCHANGED <<asset, versions, session, torn, askew>>

\* updateProgress: the size becomes the offset of the next chunk.
UpdateProgress(c) ==
    /\ pc[c] = "noting"
    /\ session' = [session EXCEPT !.received = job[c].size]
    /\ End(c)
    /\ UNCHANGED <<asset, versions, file, torn, askew>>

-----------------------------------------------------------------------------
(* Completion *)

\* completeResumableUpload asks for a session that has its asset.  Only its own end
\* gives it one.
CompleteResumable(c) ==
    /\ pc[c] = "idle"
    /\ session.status # "none"
    /\ IF session.linked /\ session.received = Total /\ ~asset.deleted /\ 1 \notin versions
       THEN /\ asset' = [asset EXCEPT !.status = "READY"]
            /\ versions' = {1}
            /\ session' = [session EXCEPT !.status = "COMPLETE", !.linked = TRUE]
            /\ file' = <<>>
       ELSE UNCHANGED <<asset, versions, session, file>>
    /\ UNCHANGED <<torn, askew, pc, job>>

\* completePresignedUpload: the asset is READY, whatever it was, ...
MarkReady(c) ==
    /\ pc[c] = "idle"
    /\ ~asset.deleted
    /\ asset' = [asset EXCEPT !.status = "READY"]
    /\ Goto(c, "versioning", NoJob)
    /\ UNCHANGED <<versions, session, file, torn, askew>>

\* ... and has its first version, unless it had it already: then the call fails.
CreateFirst(c) ==
    /\ pc[c] = "versioning"
    /\ versions' = versions \cup {1}
    /\ End(c)
    /\ UNCHANGED <<asset, session, file, torn, askew>>

-----------------------------------------------------------------------------
(* rollbackAsset *)

\* The asset, the version to return to and the latest version are read.
ReadVersions(c, n) ==
    /\ pc[c] = "idle"
    /\ ~asset.deleted
    /\ n \in versions
    /\ Max(versions) < MaxVersion
    /\ askew' = (askew \/ Others(c, {"creating", "pointing"}))
    /\ Goto(c, "creating", [NoJob EXCEPT !.target = n, !.next = Max(versions) + 1])
    /\ UNCHANGED <<asset, versions, session, file, torn>>

\* A version is created under the next number, if that is still free.
CreateVersion(c) ==
    /\ pc[c] = "creating"
    /\ IF job[c].next \in versions
       THEN End(c) /\ UNCHANGED versions
       ELSE Goto(c, "pointing", job[c]) /\ versions' = versions \cup {job[c].next}
    /\ UNCHANGED <<asset, session, file, torn, askew>>

\* The asset points at it, unless it was deleted.
PointAsset(c) ==
    /\ pc[c] = "pointing"
    /\ asset' = IF asset.deleted THEN asset ELSE [asset EXCEPT !.current = job[c].next]
    /\ End(c)
    /\ UNCHANGED <<versions, session, file, torn, askew>>

\* deleteAsset
Delete ==
    /\ ~asset.deleted
    /\ asset' = [asset EXCEPT !.deleted = TRUE]
    /\ UNCHANGED <<versions, session, file, torn, askew, pc, job>>

\* A call fails at any step.
Fail(c) ==
    /\ pc[c] # "idle"
    /\ torn' = (torn \/ pc[c] = "noting")
    /\ askew' = (askew \/ pc[c] \in {"versioning", "pointing"})
    /\ End(c)
    /\ UNCHANGED <<asset, versions, session, file>>

Next ==
    \/ Delete
    \/ \E c \in Call :
        \/ \E k \in 1..Total : FindSession(c, k)
        \/ AppendFile(c) \/ UpdateProgress(c)
        \/ CompleteResumable(c) \/ MarkReady(c) \/ CreateFirst(c)
        \/ \E n \in 1..MaxVersion : ReadVersions(c, n)
        \/ CreateVersion(c) \/ PointAsset(c) \/ Fail(c)

Spec == Init /\ [][Next]_vars

-----------------------------------------------------------------------------
(* Properties *)

\* Every variable has its type.
TypeOK ==
    /\ asset \in [status : {"UPLOADING", "READY"}, deleted : BOOLEAN, current : 1..MaxVersion]
    /\ versions \subseteq 1..MaxVersion
    /\ session \in [status : {"none", "OPEN", "COMPLETE"}, received : Nat, linked : BOOLEAN]
    /\ file \in Seq(1..Total)
    /\ torn \in BOOLEAN /\ askew \in BOOLEAN
    /\ pc \in [Call -> {"idle", "appending", "noting", "versioning", "creating", "pointing"}]
    /\ job \in [Call -> [chunk : 0..Total, size : Nat, target : 0..MaxVersion, next : 0..MaxVersion]]

\* A chunk that is repeated is not appended twice (assets.service.ts:107-108): the
\* scratch file is the beginning of the intended one, and the session knows its size
\* once no chunk is under way.
AppendedOnce ==
    torn \/ session.status # "OPEN"
         \/ /\ file = [i \in DOMAIN file |-> i]
            /\ ~Busy(Call, {"noting"}) => session.received = Len(file)

\* The versions are numbered without a gap; a READY asset has one, and points at the
\* latest (schema.prisma:662-664), once nobody is completing it or rolling it back.
CurrentIsLatest ==
    /\ versions = 1..Cardinality(versions)
    /\ \/ askew \/ asset.deleted
       \/ Busy(Call, {"versioning", "pointing"})
       \/ /\ asset.status = "READY" => versions # {}
          /\ versions # {} => asset.current = Max(versions)

\* What assets.service.ts:83-84 says of a session, that it is linked to its asset when
\* the first chunk succeeds.  Nothing does it, and completion asks for it.
LinkedByFirstChunk == session.received > 0 => session.linked

=============================================================================
