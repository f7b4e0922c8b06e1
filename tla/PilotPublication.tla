-------------------------- MODULE PilotPublication --------------------------
(***************************************************************************)
(* Publication of a completed attempt: processes that run `resume` on a    *)
(* ledger with both phases completed, and install the artifact at one      *)
(* output path, each step one operation on the parent directory.           *)
(*                                                                         *)
(* A publisher links an adjacent claim that names its process and its      *)
(* staging directory, exports and verifies the artifact there, renames it  *)
(* to the output, synchronizes the parent and removes the claim.  It takes *)
(* over the claim of a process that is gone, and an output that is already *)
(* there is verified and reported instead.                                 *)
(***************************************************************************)
EXTENDS Naturals

CONSTANTS
    Publishers,
    AttemptOf,          \* the completed ledger each of them publishes, by digest
    MaxClaims,          \* bound: claims that are ever linked
    MaxInterruptions,   \* bound: processes that are killed
    Nobody              \* no file, no claim, nothing reported

PublishedAttempts == {AttemptOf[p] : p \in Publishers}

ASSUME PublicationConstants ==
    /\ MaxClaims \in Nat
    /\ MaxInterruptions \in Nat
    /\ Nobody \notin PublishedAttempts

VARIABLES
    output,        \* whose artifact is at the output path
    entryStable,   \* the parent was synchronized since it is there
    claimFile,     \* the publication claim
    setAside,      \* claims that were renamed to a stale claim, by the ID in the name
    stagings,      \* staging directories, by claim
    publisher,     \* publisher[p]: the publication that process p runs
    issued,        \* claims linked so far
    interruptions

publicationVars ==
    <<output, entryStable, claimFile, setAside, stagings, publisher, issued, interruptions>>

ClaimIds == 1 .. MaxClaims

\* A process that has nothing to publish now, with what its last run reported.
Idle(reported) ==
    [at |-> "idle", attempt |-> Nobody, claim |-> 0, seen |-> 0, reported |-> reported]

\* One whose run begins, with nothing reported yet.
Looking(attempt) ==
    [at |-> "look", attempt |-> attempt, claim |-> 0, seen |-> 0, reported |-> Nobody]

PublicationInit ==
    /\ output = Nobody /\ entryStable = FALSE
    /\ claimFile = Nobody /\ setAside = {} /\ stagings = {}
    /\ publisher = [p \in Publishers |-> Idle(Nobody)]
    /\ issued = 0 /\ interruptions = 0

PublisherAt(p, at) == publisher[p].at = at
PublisherGoes(p, at) == publisher' = [publisher EXCEPT ![p].at = at]

\* Mutation of PublisherLives: a claim holds until it is released.
ClaimHolds(id) == id \in ClaimIds

\* processIsActive, for the process that linked this claim; no process identifier is used twice.
PublisherLives(id) == \E p \in Publishers : publisher[p].claim = id

\* The run ends with an error.
PublisherFails(p) == publisher' = [publisher EXCEPT ![p] = Idle(Nobody)]

PublisherReports(p) == publisher' = [publisher EXCEPT ![p] = Idle(publisher[p].attempt)]

----------------------------------------------------------------------------

BeginPublication(p) ==
    /\ PublisherAt(p, "idle")
    /\ publisher' = [publisher EXCEPT ![p] = Looking(AttemptOf[p])]
    /\ UNCHANGED <<output, entryStable, claimFile, setAside, stagings, issued, interruptions>>

\* Mutation of LookForOutput: what is there counts as published.
LookForOutputUnsynced(p) ==
    /\ PublisherAt(p, "look")
    /\ \/ output = Nobody /\ PublisherGoes(p, "link")
       \/ output = publisher[p].attempt /\ PublisherGoes(p, "release")
       \/ output \notin {Nobody, publisher[p].attempt} /\ PublisherFails(p)
    /\ UNCHANGED <<output, entryStable, claimFile, setAside, stagings, issued, interruptions>>

\* recoverPublishedArtifact: an output is verified in a process of its own, and its ledger
\* digest compared.
LookForOutput(p) ==
    /\ PublisherAt(p, "look")
    /\ \/ output = Nobody /\ PublisherGoes(p, "link")
       \/ output = publisher[p].attempt /\ PublisherGoes(p, "sync")
       \/ output \notin {Nobody, publisher[p].attempt} /\ PublisherFails(p)
    /\ UNCHANGED <<output, entryStable, claimFile, setAside, stagings, issued, interruptions>>

\* The claim is written to a file of its own and linked to the claim path.
LinkPublicationClaim(p) ==
    /\ PublisherAt(p, "link")
    /\ \/ /\ claimFile = Nobody /\ issued < MaxClaims
          /\ claimFile' = [id |-> issued + 1, attempt |-> publisher[p].attempt]
          /\ publisher' = [publisher EXCEPT ![p].at = "stage", ![p].claim = issued + 1]
          /\ issued' = issued + 1
       \/ /\ claimFile # Nobody /\ PublisherGoes(p, "read")
          /\ UNCHANGED <<claimFile, issued>>
    /\ UNCHANGED <<output, entryStable, setAside, stagings, interruptions>>

\* A claim that is gone by now is an error, and so is one of another attempt or of a process
\* that runs.
ReadPublicationClaim(p) ==
    /\ PublisherAt(p, "read")
    /\ IF /\ claimFile # Nobody
          /\ claimFile.attempt = publisher[p].attempt
          /\ ~PublisherLives(claimFile.id)
       THEN publisher' = [publisher EXCEPT ![p].at = "move", ![p].seen = claimFile.id]
       ELSE PublisherFails(p)
    /\ UNCHANGED <<output, entryStable, claimFile, setAside, stagings, issued, interruptions>>

\* Mutation of MoveClaimAside: the file that was moved says which staging to remove.
MoveClaimAsideReread(p) ==
    /\ PublisherAt(p, "move")
    /\ \/ claimFile = Nobody /\ PublisherGoes(p, "link") /\ UNCHANGED <<claimFile, setAside>>
       \/ /\ claimFile # Nobody
          /\ claimFile' = Nobody /\ setAside' = setAside \cup {claimFile.id}
          /\ publisher' = [publisher EXCEPT ![p].at = "clean", ![p].seen = claimFile.id]
    /\ UNCHANGED <<output, entryStable, stagings, issued, interruptions>>

\* Renames the claim path, whatever claim is there by now, to the stale name of the claim seen.
MoveClaimAside(p) ==
    /\ PublisherAt(p, "move")
    /\ \/ claimFile = Nobody /\ PublisherGoes(p, "link") /\ UNCHANGED <<claimFile, setAside>>
       \/ /\ claimFile # Nobody
          /\ claimFile' = Nobody /\ setAside' = setAside \cup {publisher[p].seen}
          /\ PublisherGoes(p, "clean")
    /\ UNCHANGED <<output, entryStable, stagings, issued, interruptions>>

\* removeClaimStaging
CleanStaleStaging(p) ==
    /\ PublisherAt(p, "clean")
    /\ stagings' = stagings \ {publisher[p].seen}
    /\ PublisherGoes(p, "forget")
    /\ UNCHANGED <<output, entryStable, claimFile, setAside, issued, interruptions>>

\* Removes the stale claim, an error where another has, and claims again.
ForgetStaleClaim(p) ==
    /\ PublisherAt(p, "forget")
    /\ IF publisher[p].seen \in setAside THEN PublisherGoes(p, "link") ELSE PublisherFails(p)
    /\ setAside' = setAside \ {publisher[p].seen}
    /\ UNCHANGED <<output, entryStable, claimFile, stagings, issued, interruptions>>

StagePublication(p) ==
    /\ PublisherAt(p, "stage")
    /\ stagings' = stagings \cup {publisher[p].claim}
    /\ PublisherGoes(p, "export")
    /\ UNCHANGED <<output, entryStable, claimFile, setAside, issued, interruptions>>

\* exportArtifact, verifyInSeparateProcess and syncTree, in a directory of its own.
ExportStaged(p) ==
    /\ PublisherAt(p, "export")
    /\ IF publisher[p].claim \in stagings THEN PublisherGoes(p, "install") ELSE PublisherFails(p)
    /\ UNCHANGED <<output, entryStable, claimFile, setAside, stagings, issued, interruptions>>

\* The rename to an output that is there fails, and the output is looked at again.
InstallOutput(p) ==
    /\ PublisherAt(p, "install")
    /\ \/ /\ output = Nobody /\ publisher[p].claim \in stagings
          /\ output' = publisher[p].attempt /\ stagings' = stagings \ {publisher[p].claim}
          /\ PublisherGoes(p, "sync")
       \/ /\ output # Nobody /\ publisher[p].claim \in stagings
          /\ PublisherGoes(p, "look") /\ UNCHANGED <<output, stagings>>
       \/ /\ publisher[p].claim \notin stagings
          /\ PublisherFails(p) /\ UNCHANGED <<output, stagings>>
    /\ UNCHANGED <<entryStable, claimFile, setAside, issued, interruptions>>

SyncOutput(p) ==
    /\ PublisherAt(p, "sync")
    /\ entryStable' = TRUE
    /\ PublisherGoes(p, "release")
    /\ UNCHANGED <<output, claimFile, setAside, stagings, issued, interruptions>>

\* releaseArtifactPublicationClaim removes the claim path, whoever linked it.
ReleasePublication(p) ==
    /\ PublisherAt(p, "release")
    /\ claimFile' = Nobody
    /\ PublisherReports(p)
    /\ UNCHANGED <<output, entryStable, setAside, stagings, issued, interruptions>>

\* The process is killed between two steps.
InterruptPublisher(p) ==
    /\ ~PublisherAt(p, "idle") /\ interruptions < MaxInterruptions
    /\ interruptions' = interruptions + 1
    /\ PublisherFails(p)
    /\ UNCHANGED <<output, entryStable, claimFile, setAside, stagings, issued>>

Publish(p) ==
    \/ BeginPublication(p) \/ LookForOutput(p) \/ LinkPublicationClaim(p)
    \/ ReadPublicationClaim(p) \/ MoveClaimAside(p) \/ CleanStaleStaging(p)
    \/ ForgetStaleClaim(p) \/ StagePublication(p) \/ ExportStaged(p)
    \/ InstallOutput(p) \/ SyncOutput(p) \/ ReleasePublication(p)

PublicationNext == \E p \in Publishers : Publish(p) \/ InterruptPublisher(p)

\* A process that runs goes on, and one that ended is run again.
PublicationFairness == \A p \in Publishers : WF_publicationVars(Publish(p))

PublicationSpec ==
    /\ PublicationInit /\ [][PublicationNext]_publicationVars
    /\ PublicationFairness

----------------------------------------------------------------------------
(* Properties                                                              *)

\* A publisher finds its staging directory until it installs it: two takeovers of one stale
\* claim may move the claim of a third process aside, but never remove what that one exports.
StagingIsKept ==
    \A p \in Publishers :
        publisher[p].at \in {"export", "install"} => publisher[p].claim \in stagings

\* What a run reports is at the output path, as the artifact of its own attempt, and its
\* directory entry was synchronized, also where another process installed it and died.
ReportedIsStable ==
    \A p \in Publishers :
        publisher[p].reported # Nobody => output = publisher[p].reported /\ entryStable

\* Once a publication has begun an artifact is installed: neither interruptions nor contention
\* leave a claim that blocks the path for good, as long as its attempt is resumed again.
SomethingIsPublished == (\E p \in Publishers : ~PublisherAt(p, "idle")) ~> output # Nobody
=============================================================================
