# Covenant Timeline: a TLA+ model

This directory holds a verification model of Covenant Timeline: TLA+ modules
translated from the source, TLC configurations that check them on small
instances, and TLAPS proofs that hold for every value of the constants. Paths
below are relative to the repository root.

## The system

| Component | Where | State | Operations | What is hard |
|---|---|---|---|---|
| MCP run store | `packages/mcp-server/src/store.ts` | one file per run, lock files, temporaries, in a directory several processes share | create, append, admit a model batch, load, list, list a page | writers exclude each other with lock files only; crashes and power losses at every step; retries; nested locks; readers without locks |
| MCP server | `packages/mcp-server/src/server.ts`, `model-admission.ts` | none between calls; sealed admission permits | ten tools and three resources, by role | preview without a lock, then an admission under it |
| Temporal kernel v0alpha3 | `packages/prototype/src/v0alpha3/kernel.ts`, `document.ts` | none: pure functions of a run | project, reason, verify | knowledge cuts, corrections, difference-constraint graphs, operation budgets |
| Model proposal compiler | `packages/prototype/src/v0alpha3/model-proposal.ts`, `scripts/model-proposal-boundary.mjs` | none; a trajectory of cuts in the host | output schema, compile, apply a cut | a generated schema and a compiler that must agree |
| Reducers v0alpha1, v0alpha2 | `packages/prototype/src/run.ts`, `v0alpha2/run.ts`, `v0alpha2/migrate.ts` | run state: checkpoints, evidence, commands, receipts, findings | create, reduce, replay, verify, migrate | long event sequences; replay against single steps; duplicate IDs |
| Archive store | `packages/prototype/src/archive.ts` | one archive file per run, a lock | load, save | comparison and replacement; no sync |
| Temporal adapter | `packages/temporal-adapter/src` | the workflow's events, the finalized flag | append signal, finalize signal, count query, evaluate activity | signals around the finalization; activity retries |
| Attempt ledger | `scripts/formal-attempt-ledger.mjs` | at most five hash-chained entries | start, claim, complete, fail, seal | two processes with one ledger; crash between link and cleanup |
| Pilot driver | `scripts/mcp-real-model-pilot*.mjs` | phase files, decisions, publication claims | start, resume, recover, publish | recovery after a crash in any phase; takeover of a dead publisher's claim |
| Failed-attempt export | `scripts/mcp-real-model-pilot-failure-artifact.mjs` | an output directory, a marker in it, a claim, staging directories | export, recover, retire a claim, verify | directories are not replaced atomically; several exports of one attempt |
| v2 benchmark attempts | `scripts/evaluate-model-proposal-boundary-v2.mjs`, `run-model-proposal-boundary-v2.mjs` | a ledger of two attempts, a lock, result files, gate documents | prepare, claim and run, gate | operators at one ledger, dead commands, a checkout that changes meanwhile |
| Evaluation runners and scorers | `scripts/run-model-*-eval.mjs`, `score-model-*-eval.mjs` | result files of one line per observation | run, publish, score | two programs that must reach the same judgements from the same answers |
| Release and verification | `.github/workflows/release*.yml`, `scripts/publish-npm-package.mjs`, `check-release*.mjs`, `verify-published-release.mjs` | the registry, GitHub's release and attestations, evidence records | release job, rerun, reconcile, record, verify | a publish that fails after it took effect; reruns and pushes between the requests of a verification |

The parts interact as follows. The MCP server parses a tool call, and calls the
run store; for a preview or an admission it also calls the proposal compiler
and the kernel on the run it loaded. The store calls the kernel's document
parser whenever it reads or writes a run. The reducers are called by the
archive store and by the Temporal activity, which recompute a run's state from
its events. The pilot driver starts MCP servers, writes the attempt ledger, and
publishes an artifact when the ledger has ended. The benchmark runners call the
proposal compiler and the kernel; the v2 attempts wrap the proposal runner, and
their gate wraps its scorer. `PROJECT.json` lists these and the remaining parts
with the reason why some are not modelled, and the hazards of the code at the
lines where they bite.

What makes each component correct:

* run store: no lost update; every file readable after any crash; acknowledged
  writes survive; exact retries recognised; errors that say "nothing was
  written" are true; limits hold; every call returns; a listing followed to its
  end is one catalog;
* kernel: the projection depends only on the prefix of the cut and on the
  context; conclusions agree with the solutions of the constraints; what
  `reason` returns `verify` accepts;
* proposal compiler: the schema neither hides what compiles nor invites what
  cannot; a compiled change takes effect exactly once;
* reducers: the state is what the stream means; receipts bind to one command;
  migration preserves what it claims;
* archive store, ledgers, pilot: comparison and installation are one step to
  others; recovery continues from what is on disk and never does a step twice;
  what was reported stays;
* Temporal adapter: the evaluated events are a gap-free sequence, those accepted
  before the workflow resumed;
* evaluation: the scorer reproduces what the runner published, and counts
  nothing on a line's word;
* release: what is verified is what was built from the tag and published.

## Modules

| Module | What it is |
|---|---|
| `TimelineRun` | the values of the store: runs, admission records, envelopes, and the tests `store.ts` makes on them |
| `McpStore` | `FileMcpRunStore` as processes over one directory, with I/O errors, crashes and power losses; its properties |
| `RunLog` | the abstract promise of the store: logs that grow by one admission at a time, a stable part of which survives a power loss |
| `McpStoreRefinement` | the refinement mapping from `McpStore` to `RunLog` |
| `MCMcpStore` | instances for TLC |
| `McpCatalog` | `list` and `listPage`: clients that follow cursors while runs are created |
| `Reducer` | `run.ts` and `v0alpha2/run.ts`: a host that reduces a stream of events; replay and verification as operators; its properties |
| `Migration` | `migrateRunV0Alpha1ToV0Alpha2` as operators on the stream of `Reducer`, and what it keeps |
| `MCReducer` | instances for TLC |
| `Projection` | the runs of v0alpha3, what one context holds at a cut, and the validation that lets a run grow; its properties |
| `Stn` | the difference-constraint graphs of the kernel: Bellman-Ford, cycles, paths, schedules, relation cases; pure operators |
| `Reasoner` | `Projection` with a caller that asks, keeps the answer and verifies it: reason and verify of every query type |
| `Schedules` | what an answer means, by enumeration of integer schedules; the properties of `Reasoner` |
| `MCReasoner` | instances for TLC |
| `ModelProposal` | over `Projection`: the output schema, and the compiler from a proposal to events and a query; pure operators |
| `ProposalBoundary` | the trajectory of a benchmark case over `ModelProposal`: cuts, what a provider proposes, what is applied; its properties |
| `MCBoundary` | instances for TLC |
| `ProposalEval` | over `ProposalBoundary`: the runner of the proposal benchmark, its file, and the scorer |
| `InterfaceEval` | over `ModelProposal`: runner and scorer of the interface benchmark, in its four arms |
| `MCEvaluation` | both benchmarks, one explored at a time |
| `ArchiveStore` | `FileRunArchiveStore`: clients that load, extend and save one archive |
| `TimelineWorkflow` | the Temporal workflow and its activity under batches of signals |
| `EvalAttempts` | the ledger of v2 attempts: prepare, claim, run, gate |
| `Release` | the release jobs, the registry and GitHub as they answer, evidence records and their verification |
| `MCProcedures` | the last four and `McpCatalog`, which share nothing, one explored at a time |
| `PilotPhase` | one phase of the real-model pilot: resumes that drive and recover it over one state directory, ledger and MCP run; its properties |
| `PilotPublication` | publication of a completed attempt: claim, staging, rename, takeover |
| `FailedPublication` | publication of a failed attempt: claim, staging, a marked directory, its recovery |
| `MCPublication`, `MCPilot` | instances for TLC: both publications; the phase and both publications, one explored at a time |
| `McpStoreProofs` | theorems about `McpStore` and their proofs: types, locks and what a call loaded; what the files contain, and the refinement of `RunLog` |
| `ReducerProofs` | theorems about `Reducer` and `Migration` |
| `ProjectionProofs` | theorems about `Projection`; extended by the next two |
| `ReasonerProofs` | theorems about `Stn`, `Reasoner` and `Schedules`: graphs of any size, any witness, any run |
| `BoundaryProofs` | theorems about `ModelProposal` and `ProposalBoundary` |
| `EvaluationProofs` | theorems about `ProposalEval`, `InterfaceEval` and the forgeries of `MCEvaluation` |
| `PilotProofs` | theorems about `PilotPhase`, `PilotPublication` and `FailedPublication` |
| `ProcedureProofs` | theorems about `EvalAttempts`, `Release`, `McpCatalog`, `TimelineWorkflow` and `ArchiveStore` |

### The run store

State: `file[r]` is what a reader of the run's file sees, `survivors[r]` the
files a power loss may leave under its name, `locks` the lock files that exist,
`call[p]` the tool call a process carries. `acked` (the requests that were
answered as a new write) is a history variable, `faults` counts the faults.

One action is one atomic effect of the code on the directory, with the code
that runs up to the next `await` that others can see:

| Code | Actions |
|---|---|
| tool handlers by role | `StartCreate`, `StartAppend`, `StartAdmit`, `StartRead` |
| `readBoundedUtf8`, `compilePreview` | `Lstat`, `Open` |
| `withLock`: exclusive open | `TakeCatalogLock`, `TakeRunLock` |
| the operation: load, decide | `LoadCreate`, `LoadAppend`, `LoadAdmit` |
| `persist` | `WriteTemporary`, `RenameTemporary`, `SyncDirectory` |
| `releaseLock` | `ReleaseRunLock`, `ReleaseCatalogLock` |
| the tool result | `Reply` |
| errors and their mapping | `TakeLockFails`, `LoadFails`, `PersistFails`, `CleanupFails`, `ReleaseFails` |
| outside the code | `Crash`, `PowerLoss`, `RemoveStaleLock` |

Abstractions:

* a digest is the value it digests (SHA-256 does not collide), and a caller's
  digest is that of a prefix of the run or one that the run does not have;
* an event is an ID and a body; drafts are valid on their own, so that input
  errors which do not depend on the stored run do not appear. Of the limits the
  number of events stands for all; byte limits are left out;
* each process has its own software profile, so processes are `Writers`;
* the load under the run lock is one step, because only the holder of that lock
  renames the file; the load without a lock is two (`lstat`, `open`), as the
  code compares the inode;
* temporaries are not part of the state: their names are random, no process
  opens another's, and `STORED_FILE` does not match them;
* a rename that reports an error had no effect;
* after a rename the disk may hold the old or the new file until the directory
  is synced; the new one is torn if its bytes were not synced. No unlink of a
  lock is synced, so after a power loss any lock file may be there;
* an operator removes a lock only when no call is inside `withLock`
  (`docs/operations.md`, `packages/mcp-server/README.md`).

### The reducers

State: `bound` is the version and the contract a run state is bound to,
`run` the record that `createRun` returns (with the private index of receipt
IDs, which the code keeps in a `WeakMap`), `log` the events accepted so far, a
history of what a host has persisted.

| Code | Definitions |
|---|---|
| `createRun` | `Init`, `CreateRun` |
| `reduceRun` by type of event | `ReduceEvidence`, `ReduceEvaluation`, `ReduceReceipt` (through `Reduce`, `CloneState`, `ApplyEvent`) |
| `recordEvidence`, `evaluateCheckpoint`, `recordReceipt` | `RecordEvidence`, `EvaluateCheckpoint`, `RecordReceipt` |
| `replay`, `verifyRun` | `Replay`, `VerifyRun` |
| the exception on an inherited name | `Throws` |
| `migrateRunV0Alpha1ToV0Alpha2` | `BindsCheckpoints`, `BindsEvidence`, `Migrated`, `MigratedContract` |

Abstractions:

* inputs are valid documents; a call that throws (another contract, a sequence
  out of turn, an inherited name) changes nothing and is no step;
* claims and requirements are sets: the reducer asks for membership only.
  Findings keep their order, codes and details;
* a command ID is the pair of checkpoint and sequence it is formatted from,
  within one run. Identifiers may contain the separator, but the run ID is the
  same for all commands of a state and the sequence is a number after the last
  one, so the pair can be read back;
* records of both versions have a policy; v0alpha1 has none in contracts and
  evidence and ignores it, v0alpha2 has none in evaluations and ignores it;
* a new event ID is named after its place, since only equality matters.

### The temporal kernel

State: `events`, the run's stream; `answer`, the conclusion a caller keeps.
Every function of the kernel is an operator; an action appends one event that
validation accepts, or asks one question.

| Code | Definitions |
|---|---|
| `validateRunDocument` and the kernel's checks, by type of event | `DeclarePoint`, `DeclareInterval`, `AssertCoordinate`, `AssertConstraint`, `AssertFact`, `Retract` |
| `projectInternal`, `resolveActiveAssertions`, the state digest | `ProjectionOf`, `Active`, `ContextEvents` |
| `buildGraph`, `connectedScope` | `BuildGraph`, `ConnectedScope`, `QueryGraph` |
| `checkConsistency`, `shortestPath`, `scheduleProof` | `CheckConsistency`, `NegativeCycle`, `ShortestPath`, `ScheduleProof` |
| `evaluateRelations` and its specs | `ReasonRelations`, `RelationCase`, `PointRelationSpecs`, `IntervalRelationSpecs` |
| `reasonTemporalQueryV0Alpha3` | `Reason`, `Ask` |
| `verifyTemporalConclusionV0Alpha3` | `Verify` and one operator for each kind of proof |

`Stn` keeps the order in which the code relaxes edges (`compareEdges`), its pass
limits, the predecessor maps and the reconstruction of cycles and paths from
them, since that is where a mistake would hide. `Schedules` shares nothing with
it beyond the compilation of assertions to edges: it looks for integer
assignments.

Abstractions:

* identifiers are numbers in the order of the names they stand for, so that
  edges sort as in the code; an axis is a negative number, which is also its
  origin's node, and the schedule zero comes before all. A source of an edge is
  a pair: the kind of the name and a number;
* a cut is the number of events a query knows of; `recordedThrough` is one less,
  and null is no event. A query is valid only if what it names is known at its
  cut;
* a digest is the value it digests; the contract in it never changes;
* a fact's value, evidence references and record times are left out: nothing in
  the kernel depends on them beyond their shape. An evidence list is not empty;
* `SafeMax` stands for `Number.MAX_SAFE_INTEGER`. The code sums in `BigInt` and
  converts at the end, so sums here are unbounded and `Safe` is asked where the
  code converts;
* of the limits the number of events stands for all. The operation budget is
  not modelled: it counts loop iterations, and an error for want of budget
  changes nothing.

### The pilot phase

State: `ledger`, the two slots of the phase (reservation and outcome); `files`,
its documents in the state directory; `run`, what was appended to the MCP run
since the phase began; `orphans`, appends in MCP servers that no client waits for
any more, because it died or its request timed out; `proc[p]`, the `resume` that a
process runs, with what it has read so far. Histories: `invoked` counts provider
calls, `faults` the faults, and `abandoned` says that a driver gave its admission up
while the server was at it.

| Code (`scripts/`) | Actions |
|---|---|
| `runResume`, which phase to drive or to recover | `BeginDrive`, `BeginRecovery` |
| `claimProviderInvocation`, `invokeAdapter`, the capture | `Reserve`, `Invoke`, `Capture` |
| `previewProposal`, `writeProposalReadyBundle` | `Preview`, `WriteReady` |
| `claimPhaseDecision` | `Authorize` (driver), `Claim` (recovery) |
| `admitProposal`, the verification after it | `Admit`, `Verify` |
| `writePhaseResultBundle`, `completeAttemptPhase` | `WriteResult`, `Complete` |
| the driver's catch, `recordPhaseFailure` | `Blame`, `Record` |
| `recoverFailedPhase` up to its first write | `Look`, `Inspect`, `LookBeforePreview`, `Reconstruct` |
| `readRecoveryState`, `fenceRecoveryState` | `Observe`, `Fence`, `ObserveFence` |
| a receipt that appeared late; `installRecoveryObservation`; `recoverAdmittedPhase` | `AdoptLateReady`, `Persist`, `Verify` |
| `installFailureBundle`, `validateRecoveredFailure`, `failAttemptPhaseV2` | `Conclude`, `Install`, `Judge`, `Fail` |
| `completedCorrectionBundle` | `Finish` |
| faults | `Crash`, `DriverCallFails`, `RecordBlindly`, `FenceFails`, `OrphanSettles`, `Outside` |

Abstractions:

* one phase, the correction, whose driver is `resume`; recovery is the same code
  for both phases. The opening of an attempt and its seal are left out;
* the provider's answer is one of three: one that parsing, schema or semantics
  reject, one that is admitted and then fails verification, one that passes. What
  verification concludes depends on the proposal alone;
* a document is what it binds that may differ between two writers; what is the
  same for all (binding, invocation, digests of the capture) is left out. A hard
  link installs the first content, and a writer that finds another one reads it;
* the run is what others can tell apart: the base, the admission, the fence, or
  anything else (`Outside`). An append at the base is atomic: that two appends do
  not both succeed on one digest is what `McpStore` shows;
* torn reads, a busy store, and errors that nobody converts count as faults
  (`Crash`, `DriverCallFails`): the process stops or its catch runs. A process
  that dies, and a request that times out in the MCP client (`FenceFails`, and
  `DriverCallFails` at the admission), may leave an append with the server, whose
  session stays open; it commits the append at any later time, or never;
* power loss is left out: the documents are synced before they are linked, and
  `docs/real-model-pilot.md` disclaims it.

### Publications of the pilot

`PilotPublication` is the publication of a completed attempt by `resume`,
`FailedPublication` that of a failed one by `export-failed`. A step is one
operation on the parent directory of the output.

| Code (`mcp-real-model-pilot.mjs`) | Actions of `PilotPublication` |
|---|---|
| `publishCompletedAttempt`, `recoverPublishedArtifact` | `BeginPublication`, `LookForOutput`, `SyncOutput` |
| `claimArtifactPublication` | `LinkPublicationClaim`, `ReadPublicationClaim`, `MoveClaimAside`, `ForgetStaleClaim` |
| `removeClaimStaging` | `CleanStaleStaging` |
| staging, export, rename | `StagePublication`, `ExportStaged`, `InstallOutput` |
| `releaseArtifactPublicationClaim` | `ReleasePublication` |
| a killed process | `InterruptPublisher` |

| Code (`mcp-real-model-pilot-failure-artifact.mjs`) | Actions of `FailedPublication` |
|---|---|
| `recoverPublishedFailedAttempt` | `BeginExport`, `LookForDestination`, `ReadRecoveredClaim` |
| `recoverIncompletePublication` | `ReadClaimOfIncomplete`, `CompareIncomplete`, `RemoveSomeEntries`, `RemoveDestination` |
| `retirePublicationClaim` | `RetireClaim`, `RemoveSeenStaging`, `ReadFinally`, `UnlinkSeenClaim` |
| `acquirePublicationClaim` | `LinkExportClaim`, `ReadHeldClaim` |
| staging, `assertPublicationClaim` | `StageFailure`, `AssertExportClaim` |
| `installStagedPublication` | `ReserveDestination`, `MarkIncomplete`, `LinkNextFile`, `CompleteDestination`, `RemoveOwnStaging` |
| `releasePublicationClaim`, `finally` | `SettleClaim`, `CleanUp`, `UnlinkOwnClaim` |
| a killed process | `KillExporter` |

Abstractions:

* an artifact is the attempt it is of; what a claim binds is its process, its
  attempt and its staging directory, represented by the number of the claim.
  Each attempt is the ledger that the process holds: it has ended and no longer
  changes;
* a process that was killed is seen as gone at once, and its ID is not used
  again (see below);
* the removal of a directory tree is two steps, for what a kill leaves; the
  build and the verification in staging are one step, in a directory of the
  process's own.

### Model proposals and their benchmark

`ModelProposal` has no state: a host (`run`, the catalogs of references,
handles and cuts, the evidence) is a record. `ProposalBoundary` keeps `events`,
the `handles` given out for assertions and `cuts`, the length of the run after
each.

| Code | Definitions |
|---|---|
| `validateModelProposalOutputReferences`, `parseCutCatalog` | `ReferenceFits`, `CutsParse`, `SchemaIssued` |
| `buildModelProposalOutputSchema` and its parts | `ChangeInSchema`, `QueryInSchema`, `MatchesTarget`, `TargetType` |
| the schema's caps on changes and supports, below the compiler's limits | `SchemaMaxChanges`, `SchemaMaxSupports` |
| `validateChange`, `validateSupports`, `resolveSupports` | `WellFormed`, `Repeats`, `Supported` |
| `resolveReference`, `resolveAssertion`, `resolveRevision`, `reserveChange` | `ReferenceResolves`, `ResolvedAssertions`, `RevisionFits`, `Reserved` |
| `materializeEvent`, `compileTemporalModelProposalV1` | `EventOf`, `CandidateEvents`, `Compiles` |
| `createBoundaryObservation`, `evaluateBoundaryProposal`, `completeBoundaryCut` | `Observation`, `Staged`, `Apply`, `CompleteCut` |

Abstractions: a handle is what it stands for; an assertion's identifier is its
content; a quote is known by how often it occurs in the text of its evidence
(`Occurrences`). The supports of a change are a list, in which one may be repeated;
their order is not looked at. The caps of the schema on characters, enumerations and
catalog sizes are left out.

`ProposalEval` and `InterfaceEval` take one case and one repeat, since a scorer
treats cases and repeats apart. Their state is the file, the state carried from
cut to cut, and the scorer's progress.

| Code | Definitions |
|---|---|
| the loop over cuts, `parseAdapterLine`, `parseAdapterResponse`, `classifyObservationFailure` | `ProposalEval`: `Observe`, `RecordLine`, `Abort` |
| `boundedErrorMessage` of either runner | `Sanitized`, `InterfaceEval`: `Bounded` |
| the rename or link of the results | `PublishResults`, `PublishRecords` |
| schema of results, `validateSafeResponseIntegrity`, `replayPipeline` | `LineValid`, `ResponseHolds`, `PipelineReplays`, `LineReplays` |
| `replayResults` | `ScoreStarts`, `ScoreCut`, `ScoreEnds` |
| `runModelInterfaceEval`: prior state, validation, admission, what is carried | `InterfaceEval`: `PriorAt`, `Ask`, `Admit`, `Carries`, `RecordResult` |
| `score-model-interface-eval.mjs`: `validateResult`, `validateRawResponse`, `reproduceTimelineResult`, `attachTimelineDiagnostics`, `validateNarrativeContinuity` | `ResultValid`, `RawResponseHolds`, `Reproduces`, `ContinuityHolds`, `ScoreRecords` |
| `inferStructuredKnowledgeCuts`, `projectedStateSignature` | `CutsInferred`, `SignatureQueries`, `HasSignature`, `Compared` |
| damage to a published file | `LoseLine`, `RepeatLine`, `LoseRecord` |

An answer of an adapter is what it is, never its bytes: a failure of the
process, text, a JSON value, an error envelope with each of its faults, or a
proposal (a delta, a memory). The message of an error is plain, or has a control
character, or half of a surrogate pair: the proposal runner replaces both before it
records a message, the interface runner the half only. Whether a query leaves the
safe integers on a run is a parameter, `Overflows`, of which the proofs assume
nothing; the kernel's sums are the subject of `Reasoner`. Rates and their arithmetic are left out; the model
says which lines are counted and as what.

### Archive, workflow, attempts, release

| Code | Actions |
|---|---|
| `FileRunArchiveStore.load` | `LoadArchive` |
| `FileRunArchiveStore.save` | `BeginSave`, `TakeArchiveLock`, `CompareArchive`, `RenameArchive`, `ReleaseArchiveLock`, `SaveFails`, `ReleaseArchiveFails` |
| crashes and power loss | `SaverCrashes`, `ArchivePowerLoss` |
| `appendTimelineEvent`, `finalizeTimelineRun`, `timelineEventCount` | `SendAppend`, `SendFinalize`, `QueryCount` |
| the handlers and the workflow's code, in one activation | `Activate` (`OnSignal`, `InOrder`, `ByHandler`, `Continue`) |
| `evaluateTimelineRun` | `Evaluated` |
| `FileMcpRunStore.listPage` | `ReadNames`, `LoadNext`, `LoadMeetsRename`, `ReplyPage`, `CreateFile` |
| `prepareModelProposalBoundaryV2Attempt`, `claimModelProposalBoundaryV2Attempt`, `evaluateModelProposalBoundaryV2Gate` | `Prepare`, `Claim`, `Gate`, then `AcquireLock`, `ReadLedger`, `ReplaceLedger`, `ReplaceFails`, `ReleaseLock`, `WriteGate` |
| `runModelProposalEval` under a claim, or directly | `BeginRun`, `AskProvider`, `EndRun`, `LinkResults`, `RunDirectly` |
| the checkout, a dead command | `CheckoutMoves`, `CommandDies` |
| `release.yml`, `release-mcp.yml`: the job's steps | `StartAttempt`, `Build`, `Attest`, `ViewRelease`, `UploadAsset`, `RetainAssets`, `JobDies` |
| `reconcileNpmPackage` | `Inspect`, `InspectFails`, `Publish`, `PublishFails`, `Recover` |
| the tag, the registry | `PushTag`, `Propagate` |
| `verifyPublishedRelease`, three batches of requests | `FetchAnswers`, `DownloadAssets`, `VerifyAttestations` |

Abstractions:

* an archive is the sequence of its events and its digest that of the state they
  lead to, which two sequences may share (`Effect`); nothing is synced, so a
  power loss leaves any file that was renamed, or a torn one;
* Temporal records signals, delivers any number of them in one activation,
  repeats activities, and replays a workflow from its history; it is external;
* a catalog file is its place in the order of names; contents are `McpStore`'s
  subject;
* an attempt is its ordinal; the artifact identifier and the start time in a
  claim are the command that made it. The gate's thresholds are a number of
  failures that may pass (`MaxFailures`);
* an archive of a package is a value that packing a commit may give (`Builds`):
  two commits may pack to the same bytes, and one commit to different ones.
  Attestations cannot be forged, a published version never changes, jobs of one
  tag run one at a time. The contents of archive, SBOM and clean install are one
  test each.

Mutations (operators whose comment says "Mutation of ...") are plausible
mistakes in the code; `PROJECT.json` pairs each property with one that breaks
it.

## Properties

Type invariants are theorems where a proof module has one; the runs check what
relates several pieces of state.

The store:

| Property | Says | Why it is not obvious |
|---|---|---|
| `LoadedIsCurrent` | what a call loaded is what its rename replaces | optimistic concurrency is decided before the write |
| `StoreReadable` | every file a reader or a restart can find parses: coverage, unique IDs, last writer | admissions of several writers and kinds accumulate; power loss |
| `AcknowledgedSurvive` | a new write that was acknowledged is in every file that may survive, with its own record | directory sync, lock release and answer may fail in any combination |
| `AlreadyIsTrue` | "already done" is only answered when content, decision, kind and prefix are those asked | the same ID may have been admitted in another way |
| `RetriesRecognised` | an exact retry of an acknowledged write is answered as already done | by another process, on a later tip, after crashes |
| `DefiniteErrorsWroteNothing` | an error other than `indeterminate` means the call did not rename | errors of cleanup and release override results, not errors |
| `RunLimit` | the directory never holds more runs than the limit | two creates count before either renames |
| `ImplementsRunLog` | the store implements `RunLog` | one record and its events in one step, at the tip it names, IDs unused |
| `CallsReturn` | every call is answered or ends with its process | lock files that nobody owns |
| `PagesAreOneCatalog` | the pages of a listing that was followed to its end are one catalog, each run once and in order | every call reads the directory anew while runs appear |

The reducers:

| Property | Says | Why it is not obvious |
|---|---|---|
| `StateMatchesLog` | each decision and each command is the one that the stream means, where the meaning is given without a state: the first covering evaluation decides for good | duplicates of events and of evidence, findings, policies and rejected evaluations in any order |
| `ReceiptsJoin` | receipts and commands are joined one to one, each receipt after its command | rests on a private index that must be copied with the state |
| `OkMeansClean` | a run that verifies had no event without effect, and every command has a receipt that succeeded | a finding anywhere in the history must show at the end |
| `MigrationKeepsHistory` | a stream that migrates has the same decisions, commands, receipts and findings in v0alpha2 | evidence gets its policy from evaluations that may come later or have had no effect |

The temporal kernel:

| Property | Says | Why it is not obvious |
|---|---|---|
| `ReferencesResolve` | what a context holds at any cut refers to what it holds, and joins points of one axis | the graph is built without checks; declarations of several contexts and axes mix in a run |
| `ContextsIsolated` | an event of one context changes nothing in the projection of another | a retraction has no context of its own, a correction names any assertion |
| `StaleStaysOut` | a superseded or retracted assertion never comes back | replacements are themselves retracted and superseded |
| `AnswersTrue` | an answer is that of all integer schedules, and overflow is reported exactly when something the answer must show has no safe value | the bounded schedule graph, the scope of a query, cycles read from overwritten predecessors |
| `AnswersVerify` | an answer verifies, at once and after the run has grown | two pieces of code that build and sort the same graph, under a cut |
| `NothingFalseVerifies` | a false statement on consistency has no short witness, and no relation case stands in for another | the verifier must not rest on who computed the witness |

Proposals and their benchmarks:

| Property | Says | Why it is not obvious |
|---|---|---|
| `SchemaAdmitsCompiled` | a change or a query that compiles, the schema lets a provider say, unless the change has more supports than the schema's cap | handles, targets and revision rules are decided twice, by generated enumerations and by lookups |
| `SchemaCompiles` | what the schema admits compiles, but for the reasons listed in `Unsaid`, a repeated support among them | the list is complete |
| `EveryChangeCounts` | each compiled change takes effect once, on something that was active | changes of one proposal may meet on one assertion |
| `RefusedExactly` | the proposal scorer refuses a runner's file exactly if it holds a malformed JSON object or an error message that the runner altered | lost and doubled lines, failures of every stage |
| `TurnedAwayExactly` | the interface scorer refuses a file exactly for a declaration in structured extraction before any evidence that is yet to come, for a gap before a later cut in an arm that carries state, for an adapter's error with a code that the scorer keeps for itself or a message that the runner altered, or when a query of a signature overflows | state is carried by different code in runner and scorer, and the scorer asks the kernel what nobody asked before |
| `OnlyReproducedCounts` | of all lines with one request and one answer, the scorers take those that claim what the runner found | stages, judgements, sizes and codes that a scorer could read instead of reproduce |
| `PublishedScores` | no file of the runner is refused | does not hold: see the findings |

The pilot and its publications:

| Property | Says | Why it is not obvious |
|---|---|---|
| `WritesAreOwned` | an admission in the run has a receipt and an authorizing decision, a fence has a receipt and a decision, and never are both there | recovery and a live driver act at the same base |
| `OutcomeMatchesRun` | the outcome in the ledger is what the run shows, for good; only `proposal.admission`, of a driver that gave its admission up, may be overtaken by it | an admission may be in flight when the outcome is decided |
| `AdmissionIsRecovered` | what was admitted is not the run of a phase that ended before its admission | does not hold: see the findings |
| `CaptureIsDecided` | once the answer is captured, resumes end the phase, unless others write to the run or the phase's two records contradict each other | each refusal of recovery must pass, or it is stuck for ever |
| `BundleIsCompleted` | a failure bundle leads to a ledger entry | does not hold: see the findings |
| `StagingIsKept` | a publisher finds its staging until it installs it | takeovers of one stale claim may move a third process's claim |
| `ReportedIsStable` | what a publisher reported is at the output, its entry synchronized | the artifact may be that of another process, which died before the sync |
| `SomethingIsPublished` | once a publication began, one is installed | claims of dead processes; contention |
| `RunningStagingIsKept` | a running exporter's staging is removed only after some output was complete | claims are read, judged and retired in separate steps |
| `ReportedStays` | an output that an export reported stays | does not hold: see the findings |

Procedures:

| Property | Says | Why it is not obvious |
|---|---|---|
| `GuardedSavesSwap` | a save that expects a state replaces exactly that state | the comparison is a read before the rename; others read without the lock |
| `ReportIsDelivered` | a report leaves out no accepted event, in order, without a gap | signals in the activation of the finalization, and while the activity runs |
| `OrderlyRunsReport` | a finalized run whose clients kept to the order is reported | which signals come first in an activation |
| `LedgerMovesForward` | each update moves one attempt one status on, keeps its claim, and a second attempt follows an inconclusive first only | concurrent commands that die anywhere |
| `DecidedByClaimant` | formal results are those of the run that claimed the attempt, at the path it claimed, and a decision's results stay | direct runs on the same paths, late publications |
| `VerifiedIsReleased` | what passes verification is in the registry from the recorded attempt and a finalized commit, and the recorded attempt built the same | reruns and pushes between the requests |
| `SuccessIsVerifiable` | after a successful attempt some record passes the checks and the verification, for the core package if the attempt that published is the one that succeeded | publications that took effect and failed, drifting builds |

## Runs and bounds

| Run | Instance | Why it is enough |
|---|---|---|
| `store` | one of three scenarios. *race*: two processes, one run, two drafts (after the fault, one), a batch of both, at most two events, one fault. *retry*: one call at a time; an ID with two bodies, two decisions, four proposals (one event, the same under another proposal, two events, none). *catalog*: two processes create on two runs with two contracts, room for one, one fault | two writers suffice to race; two events let a retry meet a later event, and a batch meet a taken ID; each way in which a retry can differ from what is stored; nested locks and the limit |
| `store_faults` | two operators, one event, two faults | a failed sync followed by a power loss, a failed release after a failed operation, a writer that meets a stale lock |
| `reducer` | *short*: both versions, two contracts of two checkpoints, evidence with the same ID and different claims or policies, four events, one of which may repeat an ID. *receipts*: v0alpha2, six events, two receipt IDs | two records and two evaluations, or a record and three evaluations: what a decision can depend on; evidence, two acceptances, and three receipts for two commands |
| `kernel` | one of three subjects. *projection*: two contexts, two axes, five events, valid and invalid bounds. *metric*: three points on one axis, up to three assertions or retractions from a menu of four constraints and two coordinates, `SafeMax` 2. *intervals*: two intervals on four points, up to three order constraints from a menu of six | two declarations and three assertions, corrections or retractions: a replacement and its own replacement, in either context; cycles of three edges, unreachable points, origins, sums on both sides of the limit; each pair of endpoints ordered, equal or open |
| `boundary` | two contexts, three points, an interval, a coordinate; three cuts with up to two changes each, and all targets, revisions and cuts; supports none, one, one twice, or three; the schema's caps two, the compiler's limits three | a revision of a revision, a retraction of either; two odd references a host may offer; a change that only the compiler takes, and one that only the schema does |
| `evaluation` | three cuts, every answer of the menus of `MCEvaluation`, also errors with a code that the scorer reserves or with each kind of message, one line lost or doubled; four arms, two points, a continuity budget of two events | a failure, a gap and a cut after it; a declaration before and after evidence to come; a run that overflows for good, for one cut, and only in what should be recorded; `OnlyReproducedCounts` tries every forgery of a line at every cut |
| `evaluation_published` | as `evaluation` | one bad answer is enough |
| `pilot` | the phase: two processes, three faults, one append from outside. Publication: three publishers of two attempts, two interruptions, four claims. Export: three exporters of two attempts with two files, one kill, four claims | a driver and a recovery, or two recoveries, and a lost call, a crash and another one, which two records that contradict each other need; a stale claim, two processes that take it over and the live claim of a third |
| `pilot_late` | the phase, one fault, nobody else at the run | one timeout is enough |
| `pilot_outside` | the phase, one fault | one crash is enough |
| `publication_races` | two exporters, one kill, three claims | the shortest race needs one kill |
| `procedures` | one of five. *release*: both profiles, three attempts over two pushes of three commits. *attempts*: three commands of two operators on two paths, one change of the checkout, after a prepared attempt or after an inconclusive first one. *archive*: two clients, archives of at most two events, two of equal effect, one fault. *workflow*: two clients, five signals. *catalog*: one client, room for four runs of five names, pages of one or two | a publication by one attempt and a success by another with a push between; prepare, claim and gate against a command that holds the lock; a save that expects a state another one replaced; signals before, with and after the finalization; creates between pages |

Components that meet only in finished files share a run, whose first variable
(`scenario`, `subject`, `benchmark`, `part`, `procedure`) says which one moves;
the others rest in their initial state, so no state of one is multiplied by
those of another. `CHECK_DEADLOCK` is off where behaviours end: streams and
proposals at a bound, files that were scored, attempts that have ended. In the
store a process may always start a call, and deadlock is checked.

`MaxEvents` and `MaxRuns` are limits of the code, set low; every other `Max...`
bounds what a behaviour may contain and stands in the guard of that action.
Identifiers are used in their order, and the menus of `MCReasoner` choose which
assertions a run may make; of a pair of points only one order is asked about,
since the other mirrors the answer. `Width` bounds the schedules that
`Schedules` looks at; its comment says why none is missed. Processes of the
store (`Symmetry`), receipt IDs, and operators and paths of the attempts are
symmetric; runs with liveness use no symmetry.

Fairness: `FaultSpec` assumes weak fairness of each process's steps. A call that
has started is a chain of `await`s that each settle (Node's event loop runs
their continuations, and the file system answers); starting a call, faults and
the operator's lock removal are not fair. `CallsReturn` needs no more because no
call waits for a lock. `PilotSpec` is fair to `Resume` and to `Publish`: a resume
that runs goes on, and an operator starts it again until the phase or the
publication has ended, which is what `docs/real-model-pilot.md` supports. Faults,
orphans and appends from outside are not fair, and the number of faults is
bounded, without which nothing would have to end.

## Proofs

`McpStoreProofs` proves, for every choice of runs, processes, drafts, proposals
and bounds that satisfies `RunConstants` and `StoreConstants`:

* `TypeCorrect`: `Spec => []TypeOK`, one step for each group of actions; the
  lemmas before it say what each operator on envelopes returns;
* `Exclusion`: `Spec => []LockExclusion`. The invariant is not inductive alone,
  since a call that had read without a lock and then turned out to be a create
  would count as holding the catalog lock: `Paths` says which kinds of call
  reach which step. `Hop` lists every way in which a step moves a call and its
  locks, `StepPath` proves the list complete, and `ExclusionStep` reduces each
  way to two facts about what the process holds;
* `NoLostUpdate`: `Spec => []LoadedIsCurrent`. From `Exclusion`: a rename of
  another call would need the run lock. The strengthening `Prepared` adds that
  what is written extends what was loaded and was synced;
* `OnlyGrows`: `Spec => AppendOnly`, from `Prepared` and from
  `VisibleMaySurvive` (the visible file is among the survivors);
* `DefiniteErrorsAreDefinite`: `Spec => []DefiniteErrorsWroteNothing`, with the
  strengthening `Honest` (a call that renamed is in its last steps and holds no
  definite error).

It goes on to what the run files contain:

* `StoreParses`: `Spec => []StoreReadable`. The test that a reader makes,
  `Covered`, walks over the admission records by recursion and says nothing by
  itself about two records. `Tidy` says the same without order: each record lies
  within the stream and is bound to what precedes it, no two overlap, and
  together they list every event. `FilesInOrder` and `WritesInOrder` have every
  visible, surviving or prepared file tidy, and `Reviewed` that a batch past its
  preview names no event twice;
* `AcknowledgedWritesSurvive`: `Spec => []AcknowledgedSurvive`, and
  `AlreadyIsAlready`: `Spec => []AlreadyIsTrue`. A call carries what it did from
  step to step (`Carries`): its effect is in the file it prepared, then in the
  visible file, and from the sync of the directory on in every file that may
  survive; later files extend that one;
* `RetriesAreRecognised`: `Spec => RetriesRecognised`. In a tidy file the record
  that lists an event is unique, so the code's search for a retry finds the
  record of the first call and not another that happens to match;
* `RunsAreLimited`: `Spec => []RunLimit`. `Room` says that a create about to write
  still has the room it counted: it holds the catalog lock, and only creates add
  files;
* `StoreImplementsLog`: `Spec => ImplementsRunLog`, the refinement. The stable part
  of a run is the oldest file that may survive. `Chain` says that the surviving
  files are ordered by extension, so there is one; a rename is one growth of the
  log by one record, a directory sync moves the stable part up, a power loss
  takes the log back to no less than that, and every other step stutters.

`ReducerProofs` proves, for every set of contracts, evidence, evaluations and
both versions:

* `RunTyped`: `Spec => []TypeOK`. `ApplyFollows` says that an event moves a
  state in one of four ways (evidence, a decision, a receipt, or findings only)
  and the later proofs argue about those ways;
* `OneCommand`: `Spec => []CommandsOnce`, inductive given the types;
* `ReceiptsAnswerCommands`: `Spec => []ReceiptsJoin`. It needs `JoinInv`: every
  receipt ID in use is in the private index, and every command is older than the
  next event;
* `StateIsMeaning`: `Spec => []StateMatchesLog`. What the reducer keeps from step
  to step is what a reader computes from the whole stream: for each piece of
  evidence the first record of it (`EvidenceMatches`), for each checkpoint the
  latest evaluation, the sound ones among them, the latest authorized decision
  and the command that follows (`Matches`). The lemmas say how the greatest and
  the least element of such a set move when one event is added, and for each of
  the four ways of `ApplyFollows` which sets it can touch;
* `VerifiedRunsAreClean`: `Spec => []OkMeansClean`. With no finding, each event did
  the work of its type when it came (`Worked`), so the stream repeats nothing and
  every receipt answers a command of its run;
* `MigrationIsFaithful`: `Spec => []MigrationKeepsHistory`. The state a host holds
  is what its events replay to (`RunIsReplay`; `ReplayStates` unfolds the recursion
  into the states between the events). Then the document and its migrated form are
  replayed side by side: after the same number of events the two states are `Alike`,
  by induction over the events. The one place where they could part is an evaluation
  whose evidence has another policy than its checkpoint; `ReferredPolicy` shows that
  migration gave it the same one. That event IDs are unique is not used, nor are the
  names that `PlainNames` leaves out, which matter only to an event that throws.

`ProjectionProofs` proves, for all contexts, axes, identifiers, bounds and limits
that satisfy `ProjectionConstants`:

* `RunTyped`: `Spec => []TypeOK`;
* `StaleOut`: `Spec => StaleStaysOut`. What is retracted or superseded in a run
  stays so in every extension (`Growth`), and an assertion never leaves it;
* `Isolated`: `Spec => ContextsIsolated`. It needs `UniqueIds`: the target of a
  correction or of a retraction is one assertion, so its context decides;
* `ContextsResolve`: `Spec => []ReferencesResolve`. Each step appends an event that the
  run before it accepts (`NextAccepts`), so every event of the run is accepted
  by its prefix and, as declarations are never lost, by every longer one
  (`PrefixesResolve`).

`PilotProofs` proves, for any number of processes, faults and appends from
outside, under `PilotConstants` and `NullIsNoFailure` (null is neither a process, a
decision, an answer, a failure bundle nor the run with the admission alone):

* `TypeCorrect`: `Spec => []TypeOK`. It needs `Equipped`: a process that records
  or installs a failure knows which, and one that judges finds one on disk;
* `InvokedOnce`: `Spec => []ProviderOnce`. `Reserved` says that only the holder
  of the reservation is about to invoke, and nobody is once it has;
* `RunIsOwned`: `Spec => []WritesAreOwned`. `Entitled` says what each step on the
  way to an append has found on disk: a recovery that observes has a decided
  phase, a run that moved, or a capture that fails by itself. `Entry` lists from
  where those steps are reached, `Effects` what each action may change for
  others; files never go back, so an orphan's title stays good;
* `OutcomeIsRight`: `Spec => []OutcomeMatchesRun`: what the ledger records is what
  the run shows, as long as nobody else wrote to the run. The difficulty is the
  admission that may still come after a failure was recorded. `Settled` follows
  it: at most one process drives, no admission is sent before its step (`Early`),
  none comes once the run has moved or nobody is left to bring it
  (`NeverAdmitted`), and a recovery either fences the base or judges an answer that
  was never proposed. A driver that goes on past its admission has none in a server
  (`Fit`), and one that gave it up can record only `proposal.admission` (`Blamed`),
  the exception that `Right` makes: nothing fences the base for it. `Fit` says what this means at each step of a process,
  `Kept` for the files and the ledger. All of it is conditional on `Undisturbed`,
  as is the property; nothing restores that condition once it is lost.

and for the publications, with any number of publishers, attempts, claims and
interruptions, under `PublicationConstants`:

* `StagingKept`: `PublicationSpec => []StagingIsKept`. Two takeovers may move the
  claim of a live process aside, so the claim file itself protects nothing.
  `ClaimInv` says what does: claims are numbered as they are linked, no two
  publishers hold the same (`Distinct`), and a claim that somebody saw dead is
  held by nobody (`SeenIsDead`), now or later. Staging is removed by the number
  of a claim that was seen;
* `ReportStable`: `PublicationSpec => []ReportedIsStable`. `Installed` says that
  whoever is about to synchronize or report finds an artifact of its own
  attempt, and nothing removes one;
* `RunningStagingKept`: `FailedSpec => []RunningStagingIsKept`, for any number of
  exporters. `ExportNumbered` numbers the claims as above. Here a claim that was seen
  may still be held by a live process, but only once an attempt is complete at the
  destination (`SeenIsGone`), and a destination that compares as complete shows
  that (`EntriesAreWhole`).

`ProcedureProofs` proves, for any number of attempts, paths, claims and checkouts,
every event a provider may produce, any names and page sizes and any history of
signals:

* `AttemptsInvariant`: `AttemptSpec => []AttemptInv`. One command is past the ledger's
  lock (`OneInLock`) and what it computed from the ledger is `Proper` for the
  ledger it will replace; a result file names an attempt that its claim holds for
  its path, and a complete entry has the codes of the result at its path, unless
  a run that overwrites has replaced it (`ClaimsKept`);
* `LedgerIsForward`: `AttemptSpec => LedgerMovesForward`, and
  `DecisionsAreClaimants`: `AttemptSpec => []DecidedByClaimant`, both from it;
* `ReleaseInvariant`: `ReleaseSpec => []ReleaseInv`, for any number of attempts,
  commits and losses. What npm shows and what is attested was packed by an attempt
  (`OriginsKept`), whose archive is of a finalized commit (`AttemptKept`); how far
  the job has come is how much is done (`JobKept`); and of what the verification has
  compared, the part that cannot change any more still agrees with the record
  (`RecordKept`). The relations `Grows` and `RecordStays` say what each step leaves
  of that;
* `VerifiedWasReleased`: `ReleaseSpec => []VerifiedIsReleased`, and `SuccessVerifies`:
  `ReleaseSpec => []SuccessIsVerifiable`, from it;
* `PagesOfOneCatalog`: `CatalogSpec => []PagesAreOneCatalog`. A finite set of names
  has an enumeration in order (`SetIsEnumerated`, by taking the least name first), so
  `Sorted` is one. `CatalogInv` says that what a client has collected is the front of
  the catalog its cursor was cut from, up to the file of the cursor, and that the
  page under way continues it: `StartOf` accepts a cursor only against the same
  catalog, and as a file occurs there once, its place is where the listing ends;
* `WorkflowReports`: `WorkflowSpec => []ReportIsDelivered`, and `OrderlyReported`:
  `WorkflowSpec => []OrderlyRunsReport`. `FlowInv` says that a workflow that has not
  thrown holds as many events as appends were delivered, numbered without a gap, and
  that it is finalized exactly if a finalization was. `HandledStepwise` unfolds the
  loop over a batch into the states between its handlers, and `BatchHandled` goes
  through them by induction on the place in the batch; the two ways of handing a
  batch over meet in `Delivered`. A finalized workflow takes no event any more, so
  its document is all it has when the activity answers, or it has thrown.

and for the archive, with any number of clients, events and faults:

* `ArchiveTyped`: `ArchiveSpec => []ArchiveTypeOK`;
* `GuardedSwap`: `ArchiveSpec => GuardedSavesSwap`. `Alone` says that one process
  at a time is past the lock, `Compared` that what a guarded save compared is
  still the archive when it renames. A power loss ends every process, which is
  why a lock that comes back after one does not matter.

`BoundaryProofs` proves, for every case (its runs, evidence, quotes, limits, caps and
odd references), every list of supports and every proposal:

* `SchemaHidesNothing`: `BoundarySpec => []SchemaAdmitsCompiled`, whichever of limit
  and cap is lower. What compiles has a
  fit for each of its references (`OnePoint`, `OneAssertion`: what a compiler looks
  up by name is unique), and a fit is what the schema's enumerations list
  (`FitIsMatch`);
* `SchemaSuffices`: `BoundarySpec => []SchemaCompiles`. A change or a query that the
  schema admits, alone in a proposal, fails none of the compiler's checks but those
  that `Unsaid` lists (`AdmittedChange`, `AdmittedQuery`);
* `ChangesCount`: `BoundarySpec => EveryChangeCounts`. What a proposal appends is one
  event for each change, each valid after those before it (`CompiledFits`);
  `ActiveAfter` says what such a list does to the active assertions, and the
  compiler's check that no two changes revise one assertion makes the effects
  disjoint.

All three need that the run is `Coherent`: identifiers are unique, and each event is
valid where it stands. The schema reads the run at its end, the validation read it
event by event. `CoherentGrows` and `CasesCohere` keep that for all the cuts of a case.

`EvaluationProofs` proves, for every menu of answers, every number of cuts, and
every loss and repetition of lines:

* `ClaimsAreReproduced`: `EvaluationSpec => []OnlyReproducedCounts`. An answer that is
  not judged has the fields that its failure gives it (`FailureNotForged`,
  `PlainNotForged`), one that is judged is replayed, and every field of the line is
  compared with the replay (`JudgementNotForged`, `DeltaNotForged`);
* `ExactlyMisrecordedRefused`: `EvalSpec => []RefusedExactly`. `EvalInv` says that each
  line was made by the runner from some answer at some request, that lines of
  neighbouring cuts are linked by what the first one did to the run, and that the
  scorer, as long as no cut is missing or doubled, stands where the runner stood. A
  line that is `Misrecorded` is refused by itself, and stays in the file, which only
  the loss of that line changes;
* `ExactlyTheseTurnedAway`: `InterfaceSpec => []TurnedAwayExactly`. `FileInv` says that
  records in the order of the cuts are those of one walk through the states that the
  runner carried (`Follows`), and `ReplayFollows` that the scorer's fold goes through
  the same states. Both directions are proved, for every `Overflows`: the scorer
  refuses in the listed cases, and in no other.

`ReasonerProofs` is about the algorithms of `Stn`, for graphs of any finite size with
any integer weights. A schedule is an integer assignment that satisfies every edge.

* What a witness proves. `CyclesRefute`: a closed walk of negative weight refutes every
  schedule; `PathsBound`: a path bounds a difference; `WitnessesSchedule`: a verified
  schedule is one. `PathGains` carries these: along a list of edges a schedule gains
  at most their weight. `ConsistencyVerdicts`, `BoundsVerdicts` and
  `RelationsVerdicts` put them together: what `Verify` accepts for a compiled graph
  is true, whoever made the witness;
* `ConsistencyDecided`: `checkConsistency` reports a graph consistent exactly if it has
  a schedule. If the last pass changes nothing the distances are one
  (`ConsistentIsSchedulable`). Conversely a schedulable graph has a greatest schedule
  below the labels it starts from (`GreatestExists`), which no relaxation goes below
  (`Above`); a node that has come down to it is settled, and as long as one is not,
  each pass settles one more, because a tight edge leads from the settled to the
  unsettled nodes (`TightEdgeLeads`, `PassAdvances`). So as many passes as there are
  nodes suffice, which is the number the code makes;
* `CyclesFound`: where it finds none, the walk back through the predecessors never
  breaks off and the cycle cut from it, rotated to its canonical start, is a closed
  walk of negative weight. The difficulty is that predecessors are overwritten in
  passes that go on. `Ages` gives each node an age, such that predecessors are
  nearly as old as their nodes and a label changed in pass `k` has age `k`; a label
  changed in pass `n` has a line of `n` ancestors, two of which are one node
  (`WalkRepeats`), and a cycle of predecessors always loses weight (`WalkLoses`);
* `PathsFound`: in a schedulable graph `shortestPath` returns the greatest difference
  that a schedule puts between two nodes, none if there is no bound, with a path that
  the verifier accepts. It starts from labels of which all but one are missing, and
  makes one pass less. Give each missing label that of a schedule, raised high
  enough: the raised passes do step by step what the passes do (`RelaxRaises`,
  `PassesRaise`), and they settle on the greatest schedule below (`PassesSettle`).
  Predecessors that nowhere lead around lead back to the source (`RootFound`), since a
  walk around would be negative, and along them every edge is tight, so the path
  weighs what the label says (`WalkWeighs`);
* `SchedulesFound`: `scheduleProof` gives a schedule of safe coordinates exactly when
  there is one. The added edges to and from node zero confine the coordinates
  (`BoundedIsSafe`, `SafeIsBounded`);
* `ConsistencyAnswered` and `CasesAnswered`: questions on consistency, and each case of
  a question on relations, are answered as the schedules are, with a witness that
  verifies, and by an overflow only where a schedule exists and no safe one does.
  `BoundsAnswered`: bounds are the least and the greatest difference, with paths that
  verify, and an overflow only where one of them is not safe. `RelationsAnswered`: an
  answer on relations verifies, if every schedule realises one of them;
* `AnswersStayVerified`: `ReasonerSpec => VerifiedStays`. A conclusion that verifies
  verifies in every extension of the run: what `Verify` reads of a run is its prefix
  at the query's cut;
* `AnswersVerified`: `ReasonerSpec => []AnswersVerify`. The invariant is that what the
  caller holds answers a question (`MayHold`). When it is asked, the run has types,
  unique identifiers and references that resolve in every prefix (`RunTyped`,
  `UniqueIdsCorrect`, `PrefixesCorrect`), so the projection can be compiled
  (`ProjectionCompiles`), and the graph, or the part of it that is connected to the
  question, holds what is asked about and puts every interval's end after its start
  (`BuildGraphCompiles`, `ScopeCompiles`, `QueryCompiles`). Relations extend it by
  edges that a schedule satisfies if the relation holds in it (`ExtendCompiles`), and
  in every schedule one of the three, or of the thirteen, holds (`PointsRelate`,
  `IntervalsRelate`), so `possible` is never empty, on which the verifier insists. The
  theorems above give each answer its proof; afterwards `StaysVerified` keeps it.

The hypotheses of the theorems about graphs are what the kernel hands to these
functions, and `QueryCompiles` and `ExtendCompiles` prove them of every graph that
answers a question. `IsGraph`: edges join nodes and have integer weights; `IsNetwork`:
and the nodes are finitely many; `IsQueryGraph` and `IsCompiled`: the nodes are points or origins, and the edges what
`DifferenceEdges` can make of an assertion, in the code's order; `Sourced`: sources
of edges are ordered; `IsWitness`: the witness is a JSON value of the shape that
parsing lets through. Induction over the data is done without the library's
induction theorems: a set of numbers that is not empty has a least element
(`UpTo`, from the well-foundedness of `Lt`), `Iterates` and `SetIterates` give a loop
the function of its intermediate states, and the lemmas argue about the least state
at which a claim would fail.

`RunConstants`, `StoreConstants`, `PilotConstants`, `ReducerConstants`,
`ProjectionConstants`, `ReasonerConstants`, `ProposalConstants`, `BoundaryConstants`,
`EvalConstants`, `InterfaceConstants`, `PublicationConstants`, `FailedConstants`,
`ArchiveConstants`, `AttemptConstants`, `ReleaseConstants`, `CatalogConstants`,
`WorkflowConstants` and the other named assumptions on constants are evaluated by TLC in
the runs. Those that are not about bounds say that a value which stands for "nothing" is
not one of the values it is told apart from (`NoRunIsNoView`, `NullIsNoFailure`,
`NullIsNoValue`, `NoneIsNoResult`, `NothingIsNoVersion`, `NoCursorIsNoCursor`), or that
the gold runs of a corpus are runs (`GoldRuns`).

Only model-checked:

* liveness (`CallsReturn`, `CaptureIsDecided`, `SomethingIsPublished`), which is
  outside what the prover handles under fairness;
* `AnswersTrue` and `NothingFalseVerifies`, which quantify over enumerations of bounded
  assignments; what they say without the bound is in `ConsistencyDecided`,
  `ConsistencyAnswered`, `CasesAnswered`, `BoundsAnswered` and the three theorems on
  verdicts.

## What the model shows beside its properties

The store:

* A retry that is answered as already done, and a read, may rest on a rename
  whose directory sync failed or never ran: a power loss can take it back. Only
  fresh writes are known to survive, and no document promises more.
* A read without a lock that meets a rename between `lstat` and `open` is
  answered as `corrupt` although the run is intact; a second read succeeds. In a
  listing it ends the listing.

The pilot:

* With appends from outside a phase may have both a result and a failure bundle,
  and a recovery whose observation was persisted before the run changed again is
  refused by every later resume. `CaptureIsDecided` is therefore about runs that
  only the pilot writes.
* A driver whose admission times out records `proposal.admission` at the base,
  without a fence, and the server may commit after that: the finding on
  `AdmissionIsRecovered`. If the driver dies before the ledger entry, and a recovery
  which had looked before the driver's record finds the late admission and records
  its result, the phase has both a failure bundle and a result, and no resume
  chooses between them (`Contradicted`, which `CaptureIsDecided` allows for).
* A takeover of a publication claim may move the claim of a live process aside.
  It does no harm, because the rename of the artifact decides and staging is
  removed by claim (`StagingKept`); the process that lost its claim file still
  finishes.
* A claim of a killed publisher of one attempt blocks publications of another
  attempt to the same path until the first is resumed, which is why
  `SomethingIsPublished` needs each publisher to be fair. A process ID that is
  used again blocks a takeover as long as that process lives: not modelled.
* An export killed between `mkdir(destination)` and the write of the marker, or
  amid the removal of an incomplete output after the marker went, leaves an
  output that neither verifies nor is recovered, and every later export stops
  there. So does an output with a marker whose claim was removed in the race of
  `retirePublicationClaim` (final read and unlink are two steps). An operator has
  to remove the directory.

Archive, attempts, release:

* `FileRunArchiveStore` syncs nothing: a power loss may leave a torn file, which
  every load refuses. A lock left behind blocks every later save.
* A run that ends after its claim leaves its attempt claimed for good, and the
  ledger with it; a stale ledger lock blocks every command until it is removed.
  The replaced ledger's directory entry is not synced. A checkout that changes
  during a run and changes back is not noticed.
* A body that breaks off while it is read is recorded as `provider.invalid-json`,
  which counts against the model (`Operational` has no such code), while the
  preregistration of the v2 benchmark has transport failures make an attempt
  inconclusive.
* A publication of the core package that took effect in an attempt that failed,
  and is found by a rerun, can never be verified: its record has one attempt, and
  npm's provenance names another (`publicationInvocationUrl`,
  `scripts/verify-published-release.mjs:1707`). `SuccessIsVerifiable` says so; the
  MCP record has a field for it.
* A rerun whose build differs replaces the GitHub release's assets before it
  compares with the registry, so that no record verifies afterwards. A draft
  left by an interrupted creation of the release stops reruns.

Proposals and benchmarks:

* An assertion that was proposed once, even if retracted since, can never be
  proposed again with the same content: the identifier is in use (`Unsaid`). The
  schema cannot say that, nor that a prior cut is one at which the target was
  declared.
* To infer when things became known, the interface scorer reads the events of
  structured extraction until one whose evidence is yet to come
  (`scripts/score-model-interface-eval.mjs:959-976`). A declaration has no evidence
  and ends the scoring with a `TypeError` if it is read, although
  `benchmarks/model-interface/v1/README.md:246` has declarations rejected; behind
  such an event it is counted as rejected. `TurnedAwayExactly` distinguishes the two.
* For every admitted run the interface scorer asks for the consistency of each
  context and for the relations of all points and intervals of the setup
  (`projectedStateSignature`, `scripts/score-model-interface-eval.mjs:1178-1252`), and
  nothing catches what a query throws. A run that was admitted, and whose own query
  was answered, is refused with its file if one of these queries leaves the safe
  integers.
* Both runners accept any message of an error up to 480 characters and record it with
  some characters replaced; both scorers compare the record with the message as it
  was sent (`scripts/score-model-proposal-eval.mjs:747`,
  `scripts/score-model-interface-eval.mjs:655`) and refuse the file when they differ.
* An adapter may report an error with any code. With `state.over-budget`, in an arm
  with a run, the runner records it, and the scorer, which keeps that code for a
  delta that outgrew the budget, refuses the file
  (`scripts/score-model-interface-eval.mjs:392`). It came up in the attempt to prove
  `TurnedAwayExactly`, which names this case too.
* The interface scorer does not look at the answer held in a record that failed.

The reducers:

* The reducer of v0alpha2 looks evidence up without an own-property test
  (`packages/prototype/src/v0alpha2/run.ts:354`), so an evaluation that refers to
  `constructor`, a valid identifier, throws a `TypeError` where
  `timeline.evidence.unknown` is specified (`spec/v0alpha1/errors.md:14`). The call
  changes nothing (`Throws`); v0alpha1 tests own properties.
  `MigrationKeepsHistory` therefore leaves out streams with such a reference.

## Not modelled

* The process that an adapter runs in (`JsonLineAdapter`): requests, lines,
  timeouts and signals are what a run may answer. By reading: `stop` waits for
  the `close` of a killed child, which a grandchild that holds its output can
  delay; a child that never reads its input ends a request by timeout or by an
  error of the stream.
* The operation budget of the kernel: it counts loop iterations, and an error for
  want of budget changes nothing. Byte limits of the store, of which the number of
  events stands for all; of the output schema's caps those on characters,
  enumerations and the sizes of catalogs.
* Opening, sealing and validating a chain of the formal attempt ledger; the
  contents of exported artifacts and their offline verification
  (`mcp-real-model-pilot-verify.mjs`), which is one pass over a finished
  directory; the runtime binding (`mcp-real-model-pilot-runtime.mjs`), a digest
  over files.
* Canonical JSON, digests, identifiers, command lines, schemas, the GitHub
  profile, the Python implementation, arithmetic of scores, the Ollama adapter:
  pure functions or printing, without a state to explore.

## Findings

* `AdmissionIsRecovered` (run `pilot_late`) fails. The driver's admission is a request
  of an MCP client (`session.call`, `scripts/mcp-real-model-pilot.mjs:2969`), which
  stops waiting after its timeout while the server goes on. `recordPhaseFailure`
  (`:2198`) then reads the run, still at its base, and records `proposal.admission`
  as the outcome of the phase; the session is closed only afterwards, in `finally`
  (`:811`), and the server may have committed by then. The phase has ended as one
  whose admission failed, and the run holds the admission.
  `docs/real-model-pilot.md:232-234` says that a successful fence closes the phase as
  interrupted, "while a successful candidate admission is recovered from its exact
  state". `OutcomeMatchesRun` shows that no other outcome can be overtaken like this.

* `BundleIsCompleted` (run `pilot_outside`) fails. A driver whose answer was
  rejected records the failure with whatever run it reads afterwards
  (`recordPhaseFailure`, `scripts/mcp-real-model-pilot.mjs:2198`). If another
  writer appended to the run, and the driver dies before the ledger entry, every
  resume refuses that bundle: a local failure must show the base
  (`validateRecoveredFailure`, `scripts/mcp-real-model-pilot-recovery.mjs:229`).
  `docs/real-model-pilot.md:240` says that `resume` validates the bytes of a
  failure bundle and completes the missing ledger entry.

* `PublishedScores` (run `evaluation_published`) fails. The runner records an
  adapter's answer that is a JSON object of no accepted shape as a failure of
  stage `protocol` and keeps its text. The scorer excuses that stage only for
  text that is no JSON object; otherwise it compares usage and envelope and
  throws (`scripts/score-model-proposal-eval.mjs:647`, `:727`), and the whole file
  is refused. `benchmarks/model-proposal-boundary/v1/README.md:153` says that
  failures remain in the denominators and the scorer does not discard them, and
  `:167` that malformed responses cannot disappear from a rate.
  An error whose message holds a control character or half of a surrogate pair is
  refused, too; `RefusedExactly` shows that nothing else is.

* `ReportedStays` (run `publication_races`) fails. Two exports may recover the
  marked output of one dead claim. One removes it, installs its own artifact and
  reports it; the other, which had compared the old output before, then runs
  `rm(destination, { recursive: true })`
  (`scripts/mcp-real-model-pilot-failure-artifact.mjs:1234`) on the new one.
  `docs/real-model-pilot.md:250` says that publication never replaces an existing
  directory, and `:257` that claims coordinate cooperative writers.

## Plan

All components that keep state are modelled as far as described above, and every
safety property that the runs check has a theorem, but for the two of the kernel
named under "Only model-checked", whose content is proved without their bounds. What
is left is to state those two over all integer schedules, for which `Width` would have
to be shown to be wide enough.
