------------------------------ MODULE Release ------------------------------
(***************************************************************************)
(* The release of a package and its later verification: the jobs of        *)
(* .github/workflows/release.yml and release-mcp.yml with the scripts they *)
(* run, the evidence record kept in releases/, and                         *)
(* scripts/verify-published-release.mjs against what the registry and      *)
(* GitHub answer by then.                                                  *)
(*                                                                         *)
(* GitHub, npm and Sigstore are external: a published version never        *)
(* changes, a publication may take effect although the command fails and   *)
(* may be listed late, attestations cannot be forged, and jobs of one tag  *)
(* run one at a time.  A maintainer may push the tag again, to the same or *)
(* to another commit, and may rerun the job of any push.                   *)
(***************************************************************************)
EXTENDS Naturals, Sequences, FiniteSets

CONSTANTS
    Commits,      \* commits a tag may point to
    Builds,       \* Builds[c]: the archives that packing c may give
    Finalized,    \* commits whose changelog and copy name the release
    Installable,  \* archives that install and pass their smoke test
    MaxPushes,    \* bound on pushes of the tag
    MaxAttempts,  \* bound on job attempts
    Nothing

Profiles == {"core", "mcp"}
Archives == UNION {Builds[c] : c \in Commits}
Kinds == {"archive", "sbom"}   \* the archive stands for its checksum, too

ASSUME ReleaseConstants ==
    /\ DOMAIN Builds = Commits /\ Finalized \subseteq Commits
    /\ Installable \subseteq Archives /\ {MaxPushes, MaxAttempts} \subseteq Nat
    /\ Nothing \notin Archives \union Commits

\* A version of the package: its archive and the job attempt that published it.
Version == [archive : Archives, attempt : Nat]

ASSUME NothingIsNoVersion == Nothing \notin Version

VARIABLES
    profile,       \* which package is released
    pushes,        \* the commits the tag was pushed to: each push is a tag
                   \* object of its own and starts a workflow run
    attempts,      \* job attempts: their run, archive and conclusion
    job,           \* the step of the last attempt and what is left to upload
    release,       \* the GitHub release: "none", "draft" or "public"
    assets,        \* its assets, by kind
    attestations,  \* what GitHub attested
    npm,           \* the published version and its provenance
    listed,        \* the registry shows it
    record,        \* the evidence record
    verification   \* the step of the verification, or its verdict

jobVars == <<attempts, job, release, assets, attestations, npm, listed>>
auditVars == <<record, verification>>
releaseVars == <<profile, pushes, jobVars, auditVars>>

Tagged == Len(pushes)
CommitOf(i) == pushes[attempts[i].run]
Now == Len(attempts)
This == attempts[Now]
Running == Now > 0 /\ This.conclusion = "none"

ReleaseInit ==
    /\ profile \in Profiles
    /\ \E c \in Commits : pushes = <<c>>
    /\ attempts = <<>>
    /\ job = [at |-> "idle", todo |-> {}]
    /\ release = "none"
    /\ assets = [k \in Kinds |-> Nothing]
    /\ attestations = {}
    /\ npm = Nothing
    /\ listed = FALSE
    /\ record = Nothing
    /\ verification = "none"

-----------------------------------------------------------------------------
(* The job *)

\* What the assets of one archive are: the archive, its digest, and the SBOM
\* of the commit it was packed from.
AssetOf(k, archive, commit) == IF k = "sbom" THEN commit ELSE archive

Goto(step) == job' = [job EXCEPT !.at = step]
Conclude(conclusion) ==
    /\ attempts' = [attempts EXCEPT ![Now].conclusion = conclusion]
    /\ job' = [at |-> "idle", todo |-> {}]

At(step) == Running /\ job.at = step

\* The run of a push starts, or is started again.
StartAttempt(run) ==
    /\ ~Running /\ Now < MaxAttempts
    /\ attempts' = Append(attempts, [run |-> run, archive |-> Nothing, conclusion |-> "none"])
    /\ Goto("check")
    /\ UNCHANGED <<release, assets, attestations, npm, listed>>

\* Mutation of CheckRelease: a candidate entry is enough for a tag.
CheckReleaseCandidate(c) == TRUE

\* check-release.mjs, check-mcp-release.mjs with a tag: only a commit whose
\* changelog entry and onboarding copy are final.
CheckRelease(c) == c \in Finalized

\* Checks, verification of the checkout, two packings that must be equal, and
\* the installation of what was packed.
Build ==
    /\ At("check")
    /\ IF CheckRelease(CommitOf(Now))
       THEN \E b \in Builds[CommitOf(Now)] :
               IF b \in Installable
               THEN attempts' = [attempts EXCEPT ![Now].archive = b] /\ Goto("attest")
               ELSE Conclude("failure")
       ELSE Conclude("failure")
    /\ UNCHANGED <<release, assets, attestations, npm, listed>>

\* Build and SBOM provenance, signed with the identity of this attempt.
Attest ==
    /\ At("attest")
    /\ attestations' = attestations \union
          {[archive |-> This.archive, attempt |-> Now]}
    /\ Goto("retain")
    /\ UNCHANGED <<attempts, release, assets, npm, listed>>

\* validateGitHubReleaseState: a public release of the right kind with no
\* foreign asset; "complete" also asks for every asset.
ReleaseState(complete) ==
    /\ release = "public"
    /\ complete => \A k \in Kinds : assets[k] # Nothing

\* gh release view: create the release, as a draft first, or upload into it.
ViewRelease ==
    /\ At("retain")
    /\ IF release = "none"
       THEN release' = "draft" /\ job' = [at |-> "upload", todo |-> Kinds] /\ UNCHANGED attempts
       ELSE UNCHANGED release /\
            IF ReleaseState(FALSE)
            THEN job' = [at |-> "upload", todo |-> Kinds] /\ UNCHANGED attempts
            ELSE Conclude("failure")
    /\ UNCHANGED <<assets, attestations, npm, listed>>

\* gh release upload --clobber: an asset is deleted before it is uploaded.
UploadAsset(k) ==
    /\ At("upload") /\ k \in job.todo
    /\ IF assets[k] = Nothing
       THEN /\ assets' = [assets EXCEPT ![k] = AssetOf(k, This.archive, CommitOf(Now))]
            /\ job' = [job EXCEPT !.todo = @ \ {k}]
       ELSE assets' = [assets EXCEPT ![k] = Nothing] /\ UNCHANGED job
    /\ UNCHANGED <<attempts, release, attestations, npm, listed>>

\* The draft is made public; then the state is viewed and checked again.
RetainAssets ==
    /\ At("upload") /\ job.todo = {}
    /\ IF release = "draft"
       THEN release' = "public" /\ UNCHANGED <<attempts, job>>
       ELSE UNCHANGED release /\
            IF ReleaseState(TRUE) THEN Goto("inspect") /\ UNCHANGED attempts
                                  ELSE Conclude("failure")
    /\ UNCHANGED <<assets, attestations, npm, listed>>

\* Mutation of SameArchive: what the registry has is taken for ours.
SameArchiveAssumed == npm # Nothing

\* verifyExisting of publish-npm-package.mjs, cmp in release-mcp.yml.
SameArchive == npm # Nothing /\ npm.archive = This.archive

Inspect ==
    /\ At("inspect")
    /\ IF listed
       THEN Conclude(IF SameArchive THEN "success" ELSE "failure")
       ELSE Goto("publish") /\ UNCHANGED attempts
    /\ UNCHANGED <<release, assets, attestations, npm, listed>>

\* The lookup fails otherwise than with E404: the script throws, the shell of
\* release-mcp.yml goes on to publish.
InspectFails ==
    /\ At("inspect")
    /\ IF profile = "core" THEN Conclude("failure") ELSE Goto("publish") /\ UNCHANGED attempts
    /\ UNCHANGED <<release, assets, attestations, npm, listed>>

\* npm publish: a version that exists is refused.
Publish ==
    /\ At("publish") /\ npm = Nothing
    /\ npm' = [archive |-> This.archive, attempt |-> Now]
    /\ listed' \in BOOLEAN
    /\ Conclude("success")
    /\ UNCHANGED <<release, assets, attestations>>

\* The command fails, with or without having taken effect.  The core script
\* then looks again, the MCP workflow fails.
PublishFails ==
    /\ At("publish")
    /\ \/ UNCHANGED <<npm, listed>>
       \/ /\ npm = Nothing
          /\ npm' = [archive |-> This.archive, attempt |-> Now]
          /\ listed' \in BOOLEAN
    /\ IF profile = "core" THEN Goto("recover") /\ UNCHANGED attempts ELSE Conclude("failure")
    /\ UNCHANGED <<release, assets, attestations>>

\* reconcileNpmPackage after a failed publish.
Recover ==
    /\ At("recover")
    /\ Conclude(IF listed /\ SameArchive THEN "success" ELSE "failure")
    /\ UNCHANGED <<release, assets, attestations, npm, listed>>

\* A runner dies, a step times out or any command fails.
JobDies ==
    /\ Running
    /\ Conclude("failure")
    /\ UNCHANGED <<release, assets, attestations, npm, listed>>

\* The registry lists the version some time after its publication.
Propagate ==
    /\ npm # Nothing /\ ~listed
    /\ listed' = TRUE
    /\ UNCHANGED <<attempts, job, release, assets, attestations, npm>>

PushTag(c) ==
    /\ Tagged < MaxPushes
    /\ pushes' = Append(pushes, c)
    /\ UNCHANGED <<profile, jobVars, auditVars>>

-----------------------------------------------------------------------------
(* The record and its verification *)

\* A record names a tag object, an attempt that it says succeeded and, for the
\* MCP package, the attempt of the same run that published.
Records == [tag : 1..Tagged, archive : Archives, attempt : 1..Now, publication : 1..Now]
CommitIn(r) == pushes[r.tag]

\* check-release-evidence.mjs: the document agrees with itself, and with the
\* tag and the manifests of the local checkout.
DocumentAgrees(r) ==
    /\ r.publication <= r.attempt
    /\ attempts[r.publication].run = attempts[r.attempt].run
    /\ profile = "core" => r.publication = r.attempt
CheckoutAgrees(r) == r.tag = Tagged
EvidenceHolds(r) == DocumentAgrees(r) /\ CheckoutAgrees(r)

RegistryListed(r) == npm # Nothing /\ listed
RegistryTarball(r) == npm.archive = r.archive
WorkflowMatches(r) ==
    attempts[r.attempt].conclusion = "success" /\ CommitOf(r.attempt) = CommitIn(r)
TagMatches(r) == r.tag = Tagged

\* The archive of the release, listed or downloaded, is the recorded one, and
\* the SBOM describes the manifests of the recorded commit.
ArchiveMatches(r) == assets["archive"] = r.archive
SbomMatches(r) == assets["sbom"] = CommitIn(r)
GithubRelease(r) == release = "public" /\ ArchiveMatches(r) /\ SbomMatches(r)

\* The signed provenance of the version names the invocation.
NpmProvenance(r) == npm # Nothing /\ npm.attempt = r.publication

\* Both GitHub attestations of the archive, by the recorded attempt.
GithubAttestations(r) == [archive |-> r.archive, attempt |-> r.attempt] \in attestations

CleanInstall(r) == r.archive \in Installable

\* verifyPublishedRelease: three batches of requests, between which jobs may
\* run.  The first follows the local checks of a record that a maintainer may
\* have written anyhow; what fails leaves nothing behind and may be tried again.
Answered(r) ==
    /\ RegistryListed(r) /\ RegistryTarball(r) /\ WorkflowMatches(r)
    /\ GithubRelease(r) /\ TagMatches(r)

FetchAnswers ==
    /\ verification = "none"
    /\ \E r \in Records : EvidenceHolds(r) /\ Answered(r) /\ record' = r
    /\ verification' = "download"
    /\ UNCHANGED <<profile, pushes, jobVars>>

VerifyStep(from, test, to) ==
    /\ verification = from
    /\ verification' = IF test THEN to ELSE "none"
    /\ record' = IF test THEN record ELSE Nothing
    /\ UNCHANGED <<profile, pushes, jobVars>>

DownloadAssets ==
    VerifyStep("download", TagMatches(record) /\ ArchiveMatches(record) /\ SbomMatches(record),
               "attest")
VerifyAttestations ==
    VerifyStep("attest", NpmProvenance(record) /\ GithubAttestations(record)
                         /\ CleanInstall(record), "passed")

ReleaseNext ==
    \/ /\ \/ \E run \in 1..Tagged : StartAttempt(run)
          \/ Build \/ Attest \/ ViewRelease \/ \E k \in Kinds : UploadAsset(k)
          \/ RetainAssets \/ Inspect \/ InspectFails \/ Publish \/ PublishFails
          \/ Recover \/ JobDies \/ Propagate
       /\ UNCHANGED <<profile, pushes, auditVars>>
    \/ \E c \in Commits : PushTag(c)
    \/ FetchAnswers \/ DownloadAssets \/ VerifyAttestations

ReleaseSpec == ReleaseInit /\ [][ReleaseNext]_releaseVars

-----------------------------------------------------------------------------
\* What passed verification was released: the version in the registry is the
\* recorded archive, published by the recorded attempt from the tagged and
\* finalized commit, and the attempt that succeeded built the same archive,
\* although reruns and pushes of the tag may change every answer but the
\* registry's while the verification runs.
VerifiedIsReleased ==
    verification = "passed" =>
       /\ npm.archive = record.archive /\ CommitOf(npm.attempt) = CommitIn(record)
       /\ npm.attempt <= record.attempt
       /\ CommitIn(record) \in Finalized
       /\ attempts[record.attempt].archive = record.archive

\* After a successful attempt there is a record that the checks accept and
\* verification passes, however often the job was rerun: for the MCP package
\* if a run of the tagged commit published and the same run succeeded; for the
\* core package only if the attempt that published itself succeeded, since its
\* record has no place for another one.
SuccessIsVerifiable ==
    /\ Now > 0 /\ This.conclusion = "success" /\ listed
    /\ CommitOf(Now) = pushes[Tagged]
    /\ attempts[npm.attempt].run = This.run
    /\ profile = "core" => attempts[npm.attempt].conclusion = "success"
    => \E r \in Records :
          /\ EvidenceHolds(r) /\ Answered(r)
          /\ NpmProvenance(r) /\ GithubAttestations(r) /\ CleanInstall(r)
=============================================================================
