----------------------------- MODULE MCChannels -----------------------------
(***************************************************************************)
(* Small instances of what goes between the program and the outside, side  *)
(* by side: OrderIngestion (orders come in), Publishing (a listing goes    *)
(* out), StudioAssets (its files are uploaded) and OfflineQueue (a phone   *)
(* sends what it was given).  They share no state, so in each behaviour    *)
(* one of them moves.                                                      *)
(***************************************************************************)
EXTENDS OrderIngestion, TLC

CONSTANTS MaxItems, MaxPacks, Total, MaxFile, MaxAssetVersion, Mutation

VARIABLES
    part,
    automated, listing, items, queue, packs, raced, listingPc, listingJob,
    asset, versions, session, file, torn, askew, assetPc, assetJob,
    mutations, conflicts, given, kept, synced, discarded, exposed, mobilePc, mobileJob

listingVars == <<automated, listing, items, queue, packs, raced, listingPc, listingJob>>
assetVars == <<asset, versions, session, file, torn, askew, assetPc, assetJob>>
mobileVars == <<mutations, conflicts, given, kept, synced, discarded, exposed, mobilePc, mobileJob>>

P == INSTANCE Publishing WITH pc <- listingPc, job <- listingJob
A == INSTANCE StudioAssets WITH MaxVersion <- MaxAssetVersion, pc <- assetPc, job <- assetJob
Q == INSTANCE OfflineQueue WITH queue <- mutations, pc <- mobilePc, job <- mobileJob

ASSUME AssetsAssumption == A!StudioAssetsAssumption

\* What another part may start with does not matter.
MCInit ==
    /\ part \in {"orders", "listing", "asset", "mobile"}
    /\ Init /\ P!Init /\ A!Init /\ Q!Init
    /\ part # "orders" => ~newestFirst
    /\ part # "listing" => ~automated
    /\ part # "asset" => session.status = "none"

MCNext ==
    /\ UNCHANGED part
    /\ \/ part = "orders" /\ Next /\ UNCHANGED <<listingVars, assetVars, mobileVars>>
       \/ part = "listing" /\ P!Next /\ UNCHANGED <<vars, assetVars, mobileVars>>
       \/ part = "asset" /\ A!Next /\ UNCHANGED <<vars, listingVars, mobileVars>>
       \/ part = "mobile" /\ Q!Next /\ UNCHANGED <<vars, listingVars, assetVars>>

MCSpec == MCInit /\ [][MCNext]_<<part, vars, listingVars, assetVars, mobileVars>>

\* Bound: an automated channel's listing has a pack, by a user's wish, or a second item;
\* another's has a pack for its item and, if nothing raced, a second item or a second
\* pack.
FewRows == Len(packs) + Len(items) <= IF automated \/ raced # {} THEN 2 ELSE 3

\* Bound: what a behaviour's calls have written over is of one kind.
FewRaces == \A k, l \in raced : k = l

\* What TLC checks; the theorems are about MCSpec.
BoundedSpec ==
    MCInit /\ [][MCNext /\ FewRows' /\ FewRaces']_<<part, vars, listingVars, assetVars, mobileVars>>

\* Publishing: a listing, its items, its packs and its queue agree.
ListingAgrees == P!ListingAgrees

\* Publishing: an approval stands, unless what changes it had read the listing before it.
ApprovalStands == P!ApprovalStands

\* StudioAssets: a chunk is appended once, however often it is sent, and an asset points
\* at its latest version.
AssetsAreSound == A!TypeOK /\ A!AppendedOnce /\ A!CurrentIsLatest

\* StudioAssets: what a comment says of an upload session.
LinkedByFirstChunk == A!LinkedByFirstChunk

\* OfflineQueue: what the user was told is queued is not lost, and what is dismissed
\* stays so.
MutationsAreKept == Q!TypeOK /\ Q!NothingIsDropped /\ Q!DismissedForGood

Symmetry == Permutations(Call) \cup Permutations(Mutation)

=============================================================================
