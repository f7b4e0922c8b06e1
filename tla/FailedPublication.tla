------------------------- MODULE FailedPublication -------------------------
(***************************************************************************)
(* Publication of a failed attempt: processes that run `export-failed` on  *)
(* a ledger that ends in a failure, each step one operation on the parent  *)
(* directory of the output.                                                *)
(*                                                                         *)
(* An exporter links an adjacent claim, builds and verifies the artifact   *)
(* in a staging directory, creates the output exclusively, marks it as     *)
(* incomplete, links the files into it, removes the marker and releases    *)
(* the claim.  An output that is marked is taken down again when the       *)
(* process of its claim is gone, and a complete one is verified and        *)
(* reported instead.                                                       *)
(***************************************************************************)
EXTENDS Naturals

CONSTANTS
    Exporters,
    FailedAttempt,     \* the failed ledger each of them exports, by digest
    ArtifactFiles,         \* the files of an artifact
    MaxExportClaims,   \* bound: claims that are ever linked
    MaxKills,          \* bound: exporters that are killed
    NoOne              \* no output, no claim, nothing reported

FailedAttempts == {FailedAttempt[p] : p \in Exporters}

ASSUME FailedConstants ==
    /\ MaxExportClaims \in Nat
    /\ MaxKills \in Nat
    /\ ArtifactFiles # {}
    /\ NoOne \notin FailedAttempts

VARIABLES
    destination,   \* the directory at the output path: its marker and its files
    exportClaim,   \* the claim at the claim path
    staged,        \* staging directories, by claim
    exporter,      \* exporter[p]: the export that process p runs
    linked,        \* claims linked so far
    kills,
    completed      \* attempts of which every file was installed at some time (history)

failedVars == <<destination, exportClaim, staged, exporter, linked, kills, completed>>

\* A process that has nothing to export now, with what its last run reported.
AtEase(reported) ==
    [at |-> "idle", attempt |-> NoOne, claim |-> 0, seen |-> 0, placed |-> {}, found |-> FALSE,
     reported |-> reported]

FailedInit ==
    /\ destination = NoOne /\ exportClaim = NoOne /\ staged = {}
    /\ exporter = [p \in Exporters |-> AtEase(NoOne)]
    /\ linked = 0 /\ kills = 0 /\ completed = {}

ExporterAt(p, at) == exporter[p].at = at
ExporterGoes(p, at) == exporter' = [exporter EXCEPT ![p].at = at]
ExporterFails(p) == exporter' = [exporter EXCEPT ![p] = AtEase(NoOne)]
ExporterReports(p) == exporter' = [exporter EXCEPT ![p] = AtEase(exporter[p].attempt)]

\* processIsActive, for the process that linked this claim; no process identifier is used twice.
ExporterLives(id) == \E p \in Exporters : exporter[p].claim = id

\* The files of an artifact say of which attempt they are.
ArtifactOf(a) == ArtifactFiles \X {a}
IsArtifactOf(dir, a) == dir # NoOne /\ dir.marker = 0 /\ dir.entries = ArtifactOf(a)

\* verifyFailedAttempt, and the comparison with the attempt at hand: the content manifest lists
\* every file, the marker is not among them.
VerifiesAs(dir, a) == IsArtifactOf(dir, a)

Mine(p) == exportClaim # NoOne /\ exportClaim.id = exporter[p].claim
Seen(p) == exportClaim # NoOne /\ exportClaim.id = exporter[p].seen

----------------------------------------------------------------------------
(* Recovery                                                                *)

BeginExport(p) ==
    /\ ExporterAt(p, "idle")
    /\ exporter' =
           [exporter EXCEPT ![p] = [AtEase(NoOne) EXCEPT !.at = "look", !.attempt = FailedAttempt[p]]]
    /\ UNCHANGED <<destination, exportClaim, staged, linked, kills, completed>>

\* recoverPublishedFailedAttempt
LookForDestination(p) ==
    /\ ExporterAt(p, "look")
    /\ \/ destination = NoOne /\ ExporterGoes(p, "link")
       \/ destination # NoOne /\ destination.marker # 0 /\ ExporterGoes(p, "recover")
       \/ /\ destination # NoOne /\ destination.marker = 0
          /\ IF VerifiesAs(destination, exporter[p].attempt)
             THEN exporter' = [exporter EXCEPT ![p].at = "release", ![p].found = TRUE]
             ELSE ExporterFails(p)
    /\ UNCHANGED <<destination, exportClaim, staged, linked, kills, completed>>

\* releaseRecoveredPublicationClaim, once the output and the parent are synchronized.
ReadRecoveredClaim(p) ==
    /\ ExporterAt(p, "release")
    /\ \/ exportClaim = NoOne /\ ExporterReports(p)
       \/ /\ exportClaim # NoOne
          /\ IF exportClaim.attempt = exporter[p].attempt
             THEN exporter' = [exporter EXCEPT ![p].at = "retire", ![p].seen = exportClaim.id]
             ELSE ExporterFails(p)
    /\ UNCHANGED <<destination, exportClaim, staged, linked, kills, completed>>

\* Mutation of MayTakeOver: the process of the claim is not looked for.
MatchesAttempt(p) == exportClaim # NoOne /\ exportClaim.attempt = exporter[p].attempt

\* assertClaimMatches and processIsActive, of a claim that is still there.
MayTakeOver(p) ==
    /\ exportClaim # NoOne
    /\ exportClaim.attempt = exporter[p].attempt
    /\ ~ExporterLives(exportClaim.id)

TakeOverTo(p, at) ==
    IF MayTakeOver(p)
    THEN exporter' = [exporter EXCEPT ![p].at = at, ![p].seen = exportClaim.id]
    ELSE ExporterFails(p)

\* recoverIncompletePublication, the claim of the marked output
ReadClaimOfIncomplete(p) ==
    /\ ExporterAt(p, "recover")
    /\ TakeOverTo(p, "compare")
    /\ UNCHANGED <<destination, exportClaim, staged, linked, kills, completed>>

\* The marker names the claim, and every installed file equals that of the staging directory.
CompareIncomplete(p) ==
    /\ ExporterAt(p, "compare")
    /\ IF /\ destination # NoOne
          /\ destination.marker = exporter[p].seen
          /\ exporter[p].seen \in staged
          /\ destination.entries \subseteq ArtifactOf(exporter[p].attempt)
       THEN ExporterGoes(p, "remove") ELSE ExporterFails(p)
    /\ UNCHANGED <<destination, exportClaim, staged, linked, kills, completed>>

\* The recursive removal takes entries in some order, from the directory that is there by now.
RemoveSomeEntries(p) ==
    /\ ExporterAt(p, "remove")
    /\ \/ destination = NoOne /\ UNCHANGED destination
       \/ /\ destination # NoOne
          /\ \E left \in SUBSET destination.entries, marker \in {0, destination.marker} :
                 destination' = [marker |-> marker, entries |-> left]
    /\ ExporterGoes(p, "rmdir")
    /\ UNCHANGED <<exportClaim, staged, linked, kills, completed>>

RemoveDestination(p) ==
    /\ ExporterAt(p, "rmdir")
    /\ destination' = NoOne
    /\ ExporterGoes(p, "retire")
    /\ UNCHANGED <<exportClaim, staged, linked, kills, completed>>

----------------------------------------------------------------------------
(* Retirement of a claim: it is read twice, and removed by its path        *)

Retired(p) == IF exporter[p].found THEN ExporterReports(p) ELSE ExporterGoes(p, "link")

\* A claim that is gone is retired; one that has changed is an error.
RereadClaim(p, here, next) ==
    /\ ExporterAt(p, here)
    /\ \/ exportClaim = NoOne /\ Retired(p)
       \/ Seen(p) /\ ExporterGoes(p, next)
       \/ exportClaim # NoOne /\ ~Seen(p) /\ ExporterFails(p)
    /\ UNCHANGED <<destination, exportClaim, staged, linked, kills, completed>>

RetireClaim(p) == RereadClaim(p, "retire", "unstage")

\* removeClaimStaging
RemoveSeenStaging(p) ==
    /\ ExporterAt(p, "unstage")
    /\ staged' = staged \ {exporter[p].seen}
    /\ ExporterGoes(p, "reread")
    /\ UNCHANGED <<destination, exportClaim, linked, kills, completed>>

ReadFinally(p) == RereadClaim(p, "reread", "unlink")

UnlinkSeenClaim(p) ==
    /\ ExporterAt(p, "unlink")
    /\ exportClaim' = NoOne
    /\ Retired(p)
    /\ UNCHANGED <<destination, staged, linked, kills, completed>>

----------------------------------------------------------------------------
(* Publication                                                             *)

\* acquirePublicationClaim
LinkExportClaim(p) ==
    /\ ExporterAt(p, "link")
    /\ \/ /\ exportClaim = NoOne /\ linked < MaxExportClaims
          /\ exportClaim' = [id |-> linked + 1, attempt |-> exporter[p].attempt]
          /\ exporter' = [exporter EXCEPT ![p].at = "stage", ![p].claim = linked + 1]
          /\ linked' = linked + 1
       \/ /\ exportClaim # NoOne /\ ExporterGoes(p, "held")
          /\ UNCHANGED <<exportClaim, linked>>
    /\ UNCHANGED <<destination, staged, kills, completed>>

ReadHeldClaim(p) ==
    /\ ExporterAt(p, "held")
    /\ TakeOverTo(p, "retire")
    /\ UNCHANGED <<destination, exportClaim, staged, linked, kills, completed>>

\* The artifact is written and verified in the staging directory, where no output is there yet.
StageFailure(p) ==
    /\ ExporterAt(p, "stage")
    /\ \/ destination = NoOne /\ staged' = staged \cup {exporter[p].claim} /\ ExporterGoes(p, "assert")
       \/ destination # NoOne /\ ExporterGoes(p, "cleanup") /\ UNCHANGED staged
    /\ UNCHANGED <<destination, exportClaim, linked, kills, completed>>

AssertExportClaim(p) ==
    /\ ExporterAt(p, "assert")
    /\ ExporterGoes(p, IF Mine(p) THEN "reserve" ELSE "cleanup")
    /\ UNCHANGED <<destination, exportClaim, staged, linked, kills, completed>>

\* The exclusive mkdir of the output.
ReserveDestination(p) ==
    /\ ExporterAt(p, "reserve")
    /\ \/ /\ destination = NoOne
          /\ destination' = [marker |-> 0, entries |-> {}]
          /\ ExporterGoes(p, "mark")
       \/ destination # NoOne /\ ExporterGoes(p, "cleanup") /\ UNCHANGED destination
    /\ UNCHANGED <<exportClaim, staged, linked, kills, completed>>

\* From here on an error leaves everything where it is.
MarkIncomplete(p) ==
    /\ ExporterAt(p, "mark")
    /\ \/ /\ destination # NoOne /\ destination.marker = 0
          /\ destination' = [destination EXCEPT !.marker = exporter[p].claim]
          /\ ExporterGoes(p, "fill")
       \/ ~(destination # NoOne /\ destination.marker = 0) /\ ExporterFails(p) /\ UNCHANGED destination
    /\ UNCHANGED <<exportClaim, staged, linked, kills, completed>>

\* One hard link per staged file, an error where the name is taken.
LinkNextFile(p) ==
    /\ ExporterAt(p, "fill")
    /\ \E name \in ArtifactFiles \ exporter[p].placed :
           IF /\ destination # NoOne /\ exporter[p].claim \in staged
              /\ \A a \in FailedAttempts : <<name, a>> \notin destination.entries
           THEN /\ destination' =
                       [destination EXCEPT !.entries = @ \cup {<<name, exporter[p].attempt>>}]
                /\ completed' = completed \cup
                       {a \in FailedAttempts : destination'.entries = ArtifactOf(a)}
                /\ exporter' = [exporter EXCEPT ![p].placed = @ \cup {name}]
           ELSE ExporterFails(p) /\ UNCHANGED <<destination, completed>>
    /\ UNCHANGED <<exportClaim, staged, linked, kills>>

\* After the last link the marker goes, whoever wrote it.
CompleteDestination(p) ==
    /\ ExporterAt(p, "fill") /\ exporter[p].placed = ArtifactFiles
    /\ IF destination # NoOne /\ destination.marker # 0
       THEN destination' = [destination EXCEPT !.marker = 0] /\ ExporterGoes(p, "tidy")
       ELSE ExporterFails(p) /\ UNCHANGED destination
    /\ UNCHANGED <<exportClaim, staged, linked, kills, completed>>

\* Removes the own staging directory, an error where another has.
RemoveOwnStaging(p) ==
    /\ ExporterAt(p, "tidy")
    /\ IF exporter[p].claim \in staged THEN ExporterGoes(p, "settle") ELSE ExporterFails(p)
    /\ staged' = staged \ {exporter[p].claim}
    /\ UNCHANGED <<destination, exportClaim, linked, kills, completed>>

\* releasePublicationClaim reads the claim ...
SettleClaim(p) ==
    /\ ExporterAt(p, "settle")
    /\ IF Mine(p)
       THEN exporter' = [exporter EXCEPT ![p].at = "unclaim", ![p].found = TRUE]
       ELSE ExporterFails(p)
    /\ UNCHANGED <<destination, exportClaim, staged, linked, kills, completed>>

\* An error before the output was reserved: the staging directory and the claim go.
CleanUp(p) ==
    /\ ExporterAt(p, "cleanup")
    /\ staged' = staged \ {exporter[p].claim}
    /\ IF Mine(p) THEN ExporterGoes(p, "unclaim") ELSE ExporterFails(p)
    /\ UNCHANGED <<destination, exportClaim, linked, kills, completed>>

\* ... and unlinks what is at its path, an error where nothing is.
UnlinkOwnClaim(p) ==
    /\ ExporterAt(p, "unclaim")
    /\ exportClaim' = NoOne
    /\ IF exportClaim # NoOne /\ exporter[p].found THEN ExporterReports(p) ELSE ExporterFails(p)
    /\ UNCHANGED <<destination, staged, linked, kills, completed>>

----------------------------------------------------------------------------

\* The process is killed between two steps.
KillExporter(p) ==
    /\ ~ExporterAt(p, "idle") /\ kills < MaxKills
    /\ kills' = kills + 1
    /\ ExporterFails(p)
    /\ UNCHANGED <<destination, exportClaim, staged, linked, completed>>

RecoverExport(p) ==
    \/ LookForDestination(p) \/ ReadRecoveredClaim(p) \/ ReadClaimOfIncomplete(p)
    \/ CompareIncomplete(p) \/ RemoveSomeEntries(p) \/ RemoveDestination(p)
    \/ RetireClaim(p) \/ RemoveSeenStaging(p) \/ ReadFinally(p) \/ UnlinkSeenClaim(p)

PerformExport(p) ==
    \/ LinkExportClaim(p) \/ ReadHeldClaim(p) \/ StageFailure(p) \/ AssertExportClaim(p)
    \/ ReserveDestination(p) \/ MarkIncomplete(p) \/ LinkNextFile(p) \/ CompleteDestination(p)
    \/ RemoveOwnStaging(p) \/ SettleClaim(p) \/ CleanUp(p) \/ UnlinkOwnClaim(p)

FailedNext ==
    \E p \in Exporters : BeginExport(p) \/ RecoverExport(p) \/ PerformExport(p) \/ KillExporter(p)

FailedSpec == FailedInit /\ [][FailedNext]_failedVars

----------------------------------------------------------------------------
(* Properties                                                              *)

\* The staging directory of a running exporter goes only once an output was whole: a takeover
\* removes what a process left that is gone.
RunningStagingIsKept ==
    \A p \in Exporters :
        exporter[p].at \in {"assert", "reserve", "mark", "fill"} =>
            exporter[p].claim \in staged \/ completed # {}

\* docs/real-model-pilot.md:250-252 says that publication "never replaces an existing directory":
\* an output that an exporter has reported stays.
ReportedStays ==
    \A p \in Exporters :
        exporter[p].reported # NoOne => IsArtifactOf(destination, exporter[p].reported)
=============================================================================
