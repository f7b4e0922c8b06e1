------------------------------ MODULE McpStore ------------------------------
(***************************************************************************)
(* FileMcpRunStore: server processes that share one data directory.        *)
(*                                                                         *)
(* A process carries one tool call at a time. A call that writes takes     *)
(* lock files by exclusive creation (create: the catalog lock, then the    *)
(* run lock), loads the run, decides, and replaces the run file: write a   *)
(* temporary, sync it, rename it over the run file, sync the directory.    *)
(* Reads take no lock. Every file-system call may fail, a process may      *)
(* crash between any two of them and leave its locks behind, and the host  *)
(* may lose power. Nothing waits for a lock: a lock file that exists makes *)
(* the call answer "busy", and only an operator removes a stale one.       *)
(***************************************************************************)
EXTENDS TimelineRun, FiniteSets

CONSTANTS
    Runs,        \* run IDs
    Procs,       \* server processes
    Operators,   \* those started with --role operator
    MaxRuns,     \* the store's maxRuns
    MaxFaults,   \* bound: I/O errors, crashes and power losses of a behaviour
    Catalog,     \* the name of .catalog.lock
    NoRun        \* no run file

ASSUME StoreConstants ==
    /\ Procs = Writers
    /\ Operators \subseteq Procs
    /\ MaxRuns \in Nat
    /\ MaxFaults \in Nat
    /\ Catalog \notin Runs
    /\ NoRun # Torn
    /\ NoRun \notin Envelope
    /\ Torn \notin Envelope

VARIABLES
    file,        \* file[r]: what a reader of r's run file sees now
    survivors,   \* survivors[r]: what the disk may hold for r after a power loss
    locks,       \* the lock files that exist
    call,        \* call[p]: the tool call process p is carrying
    acked,       \* the requests answered as a new write (history)
    faults       \* faults so far

vars == <<file, survivors, locks, call, acked, faults>>

----------------------------------------------------------------------------
(* Requests and calls                                                      *)

CreateRequest == [kind : {"create"}, run : Runs, contract : Contracts]
AppendRequest ==
    [kind : {"append"}, run : Runs, draft : Drafts, base : Run, decision : Decisions]
AdmitRequest ==
    [kind : {"admit"}, run : Runs, proposal : Proposals, reviewed : Proposals, base : Run,
     decision : Decisions]
ReadRequest == [kind : {"read"}, run : Runs]
Request == CreateRequest \cup AppendRequest \cup AdmitRequest \cup ReadRequest

NoRequest == [kind |-> "none"]

LockNames == Runs \cup {Catalog}
File == Envelope \cup {NoRun, Torn}

\* Where a call stands. In HoldingRun it holds the run lock.
HoldingRun == {"load", "write", "rename", "dirsync", "release"}
Pc == HoldingRun \cup
      {"idle", "lstat", "open", "catalog", "lock", "releaseCatalog", "reply"}

Answers == {"written", "already", "empty", "found"}
DefiniteErrors == {"busy", "conflict", "not-found", "limit", "invalid", "corrupt", "internal"}
Status == Answers \cup DefiniteErrors \cup {"indeterminate", "none"}

Call == [pc : Pc, req : Request \cup {NoRequest}, cur : File, new : File, status : Status,
         committed : BOOLEAN, synced : BOOLEAN]

Idle == [pc |-> "idle", req |-> NoRequest, cur |-> NoRun, new |-> NoRun, status |-> "none",
         committed |-> FALSE, synced |-> FALSE]

At(p, pc) == call[p].pc = pc
Of(p) == call[p].req
Creating(p) == Of(p).kind = "create"

\* Process p's call holds lock file l: withLock(l) is between its open and its unlink.
Holds(p, l) ==
    \/ call[p].pc \in HoldingRun /\ l = Of(p).run
    \/ l = Catalog /\ Creating(p) /\ call[p].pc \in HoldingRun \cup {"lock", "releaseCatalog"}

\* Run files in the directory.
Stored == {r \in Runs : file[r] # NoRun}

Goto(p, pc) == call' = [call EXCEPT ![p].pc = pc]

\* The call's operation ended with a status.
Finish(p, pc, status) ==
    call' = [call EXCEPT ![p] =
                 [pc |-> pc, req |-> @.req, cur |-> NoRun, new |-> NoRun, status |-> status,
                  committed |-> @.committed, synced |-> @.synced]]

\* It ended inside withLock: release the run lock.
Answer(p, status) == Finish(p, "release", status)

\* What follows the release, or the refusal, of the run lock.
AfterRunLock(p) == IF Creating(p) THEN "releaseCatalog" ELSE "reply"

----------------------------------------------------------------------------
Init ==
    /\ file = [r \in Runs |-> NoRun]
    /\ survivors = [r \in Runs |-> {NoRun}]
    /\ locks = {}
    /\ call = [p \in Procs |-> Idle]
    /\ acked = {}
    /\ faults = 0

\* The bases a caller may quote: a prefix of the run as it stands, or a digest the run does
\* not have (of another run, or of a suffix that a power loss took away).
Bases(r) ==
    {[contract |-> Foreign, events |-> <<>>]} \cup
    (IF file[r] \in {NoRun, Torn} THEN {}
     ELSE {Prefix(file[r], n) : n \in 0 .. Len(file[r].events)})

Start(p, pc, q) ==
    /\ At(p, "idle")
    /\ call' = [call EXCEPT ![p].pc = pc, ![p].req = q]
    /\ UNCHANGED <<file, survivors, locks, acked, faults>>

\* timeline_create_run
StartCreate(p) == p \in Operators /\ \E q \in CreateRequest : Start(p, "catalog", q)

\* timeline_append_event
StartAppend(p) ==
    /\ p \in Operators
    /\ \E r \in Runs, d \in Drafts, a \in Decisions : \E b \in Bases(r) :
        Start(p, "lock", [kind |-> "append", run |-> r, draft |-> d, base |-> b, decision |-> a])

\* timeline_admit_model_proposal; `reviewed` is the proposal whose candidate digest is quoted.
StartAdmit(p) ==
    /\ p \in Operators
    /\ \E r \in Runs, m, n \in Proposals, a \in Decisions : \E b \in Bases(r) :
        Start(p, "lstat", [kind |-> "admit", run |-> r, proposal |-> m, reviewed |-> n,
                           base |-> b, decision |-> a])

\* timeline_preview_model_proposal, timeline_project, timeline_reason and the resources:
\* require() and nothing that changes the store. The only calls of the model role.
StartRead(p) == \E q \in ReadRequest : Start(p, "lstat", q)

----------------------------------------------------------------------------
(* The unlocked read: lstat, then open and compare the inode               *)

Lstat(p) ==
    /\ At(p, "lstat")
    /\ \/ /\ file[Of(p).run] = NoRun
          /\ Finish(p, "reply", "not-found")
       \/ /\ file[Of(p).run] # NoRun
          /\ call' = [call EXCEPT ![p].pc = "open", ![p].cur = file[Of(p).run]]
    /\ UNCHANGED <<file, survivors, locks, acked, faults>>

\* compilePreview: bind the prefix, compile and reason over the candidate run, and compare the
\* candidate digest with the one the caller quotes.
PreviewStatus(e, q) ==
    LET es == q.base.events \o CompiledEvents[q.proposal]
    IN IF ~Bound(e, q.base) THEN "conflict"
       ELSE IF ~UniqueIds(es) \/ ~WithinLimits(es) THEN "invalid"
       ELSE IF q.reviewed # q.proposal THEN "conflict"
       ELSE "none"

\* A rename between lstat and open gives another inode: "changed while opening".
Open(p) ==
    LET q == Of(p)
        e == file[q.run]
        readable == e = call[p].cur /\ Readable(e)
        status == IF ~readable THEN "corrupt"
                  ELSE IF q.kind = "read" THEN "found"
                  ELSE PreviewStatus(e, q)
    IN /\ At(p, "open")
       /\ Finish(p, IF status = "none" THEN "lock" ELSE "reply", status)
       /\ UNCHANGED <<file, survivors, locks, acked, faults>>

----------------------------------------------------------------------------
(* withLock: exclusive creation                                            *)

\* Mutation of Free: open() without the exclusive flag.
AnyLock(l) == TRUE

\* open(path, "wx") finds no file.
Free(l) == l \notin locks

TakeCatalogLock(p) ==
    /\ At(p, "catalog")
    /\ \/ /\ ~Free(Catalog)
          /\ Finish(p, "reply", "busy")
          /\ UNCHANGED locks
       \/ /\ Free(Catalog)
          /\ locks' = locks \cup {Catalog}
          /\ Goto(p, "lock")
    /\ UNCHANGED <<file, survivors, acked, faults>>

\* Mutation of TakeRunLock: it waits until the lock file is gone.
WaitForRunLock(p) ==
    /\ At(p, "lock")
    /\ Free(Of(p).run)
    /\ locks' = locks \cup {Of(p).run}
    /\ Goto(p, "load")
    /\ UNCHANGED <<file, survivors, acked, faults>>

TakeRunLock(p) ==
    /\ At(p, "lock")
    /\ \/ /\ ~Free(Of(p).run)
          /\ Finish(p, AfterRunLock(p), "busy")
          /\ UNCHANGED locks
       \/ /\ Free(Of(p).run)
          /\ locks' = locks \cup {Of(p).run}
          /\ Goto(p, "load")
    /\ UNCHANGED <<file, survivors, acked, faults>>

----------------------------------------------------------------------------
(* The operations under the run lock                                       *)

\* Hand the envelope to persist(); createEnvelope refuses one whose coverage is broken.
Prepare(p, e) ==
    \/ /\ Covered(e)
       /\ call' = [call EXCEPT ![p] =
                        [pc |-> "write", req |-> @.req, cur |-> file[Of(p).run], new |-> e,
                         status |-> "written", committed |-> FALSE, synced |-> FALSE]]
    \/ /\ ~Covered(e)
       /\ Answer(p, "corrupt")

\* Mutation of HasRoom: the limit is compared after the write.
HasRoomOnce == Cardinality(Stored) <= MaxRuns

\* create(): the directory holds fewer run files than the limit.
HasRoom == Cardinality(Stored) < MaxRuns

LoadCreate(p) ==
    LET q == Of(p)
        e == file[q.run]
    IN /\ At(p, "load")
       /\ q.kind = "create"
       /\ \/ /\ e = NoRun
             /\ HasRoom
             /\ Prepare(p, EmptyEnvelope(q.contract, p))
          \/ /\ e = NoRun
             /\ ~HasRoom
             /\ Answer(p, "limit")
          \/ /\ e # NoRun
             /\ Answer(p, IF ~Readable(e) THEN "corrupt"
                          ELSE IF e.contract # q.contract THEN "conflict"
                          ELSE "already")
       /\ UNCHANGED <<file, survivors, locks, acked, faults>>

LoadAppend(p) ==
    LET q == Of(p)
        e == file[q.run]
        admissible == /\ Readable(e)
                      /\ ~IdTaken(e, q.draft.id)
                      /\ q.base = RunDigest(e)
    IN /\ At(p, "load")
       /\ q.kind = "append"
       /\ \/ /\ e = NoRun
             /\ Answer(p, "not-found")
          \/ /\ e # NoRun
             /\ ~Readable(e)
             /\ Answer(p, "corrupt")
          \/ /\ e # NoRun
             /\ Readable(e)
             /\ IdTaken(e, q.draft.id) \/ q.base # RunDigest(e)
             /\ Answer(p, IF IdTaken(e, q.draft.id) /\ DirectRetry(e, q)
                          THEN "already" ELSE "conflict")
          \/ /\ e # NoRun
             /\ admissible
             /\ WithinLimits(Append(e.events, q.draft))
             /\ Prepare(p, WithDirect(e, q, p))
          \/ /\ e # NoRun
             /\ admissible
             /\ ~WithinLimits(Append(e.events, q.draft))
             /\ Answer(p, "limit")
       /\ UNCHANGED <<file, survivors, locks, acked, faults>>

LoadAdmit(p) ==
    LET q == Of(p)
        e == file[q.run]
        es == CompiledEvents[q.proposal]
        bound == Readable(e) /\ Bound(e, q.base)
        fits == bound /\ es # <<>> /\ ~BatchRetry(e, q) /\ BatchFits(e, q)
    IN /\ At(p, "load")
       /\ q.kind = "admit"
       /\ \/ /\ e = NoRun
             /\ Answer(p, "not-found")
          \/ /\ e # NoRun
             /\ ~Readable(e)
             /\ Answer(p, "corrupt")
          \/ /\ e # NoRun
             /\ Readable(e)
             /\ ~fits
             /\ Answer(p, IF bound /\ es = <<>> THEN "empty"
                          ELSE IF bound /\ BatchRetry(e, q) THEN "already"
                          ELSE "conflict")
          \/ /\ e # NoRun
             /\ fits
             /\ WithinLimits(e.events \o es)
             /\ Prepare(p, WithBatch(e, q, p))
          \/ /\ e # NoRun
             /\ fits
             /\ ~WithinLimits(e.events \o es)
             /\ Answer(p, "limit")
       /\ UNCHANGED <<file, survivors, locks, acked, faults>>

----------------------------------------------------------------------------
(* persist()                                                               *)

\* Mutation of WriteTemporary: the temporary is not synced.
WriteUnsynced(p) ==
    /\ At(p, "write")
    /\ Goto(p, "rename")
    /\ UNCHANGED <<file, survivors, locks, acked, faults>>

\* Create, write, sync and close the temporary: no other process opens it.
WriteTemporary(p) ==
    /\ At(p, "write")
    /\ call' = [call EXCEPT ![p].pc = "rename", ![p].synced = TRUE]
    /\ UNCHANGED <<file, survivors, locks, acked, faults>>

\* The new name is visible at once; what a power loss leaves is the old file or the new one,
\* whose bytes are there only if the temporary was synced.
RenameTemporary(p) ==
    LET r == Of(p).run
    IN /\ At(p, "rename")
       /\ file' = [file EXCEPT ![r] = call[p].new]
       /\ survivors' = [survivors EXCEPT ![r] =
                            @ \cup {IF call[p].synced THEN call[p].new ELSE Torn}]
       /\ call' = [call EXCEPT ![p] =
                        [pc |-> "dirsync", req |-> @.req, cur |-> NoRun, new |-> @.new,
                         status |-> @.status, committed |-> TRUE, synced |-> @.synced]]
       /\ UNCHANGED <<locks, acked, faults>>

\* syncDirectory: every name in the directory is now on disk.
NamesOnDisk == survivors' = [r \in Runs |-> survivors[r] \cap {file[r], Torn}]

\* cleanupTemporary follows: its unlink finds nothing (ENOENT), which is no error.
SyncDirectory(p) ==
    /\ At(p, "dirsync")
    /\ NamesOnDisk
    /\ Answer(p, call[p].status)
    /\ UNCHANGED <<file, locks, acked, faults>>

ReleaseRunLock(p) ==
    /\ At(p, "release")
    /\ locks' = locks \ {Of(p).run}
    /\ Goto(p, AfterRunLock(p))
    /\ UNCHANGED <<file, survivors, acked, faults>>

ReleaseCatalogLock(p) ==
    /\ At(p, "releaseCatalog")
    /\ locks' = locks \ {Catalog}
    /\ Goto(p, "reply")
    /\ UNCHANGED <<file, survivors, acked, faults>>

\* The tool result reaches the caller.
Reply(p) ==
    /\ At(p, "reply")
    /\ acked' = IF call[p].status = "written" THEN acked \cup {Of(p)} ELSE acked
    /\ call' = [call EXCEPT ![p] = Idle]
    /\ UNCHANGED <<file, survivors, locks, faults>>

----------------------------------------------------------------------------
(* Faults                                                                  *)

Fault == faults < MaxFaults /\ faults' = faults + 1

\* Mutation of PersistenceError: the rename is not told apart.
AlwaysInternal(committed) == "internal"

\* persistenceError
PersistenceError(committed) == IF committed THEN "indeterminate" ELSE "internal"

\* open() of a lock file, or the write of the catalog lock's contents, fails.
TakeLockFails(p) ==
    /\ Fault
    /\ call[p].pc \in {"catalog", "lock"}
    /\ Finish(p, IF At(p, "catalog") THEN "reply" ELSE AfterRunLock(p), "internal")
    /\ UNCHANGED <<file, survivors, locks, acked>>

\* Writing the run lock's contents fails, or the bytes of the run file cannot be read.
LoadFails(p) ==
    /\ Fault
    /\ At(p, "load")
    /\ \E status \in {"internal", "corrupt"} : Answer(p, status)
    /\ UNCHANGED <<file, survivors, locks, acked>>

\* A step of persist() fails. The temporary is unlinked, and the first error is thrown whether
\* or not that works too.
PersistFails(p) ==
    /\ Fault
    /\ call[p].pc \in {"write", "rename", "dirsync"}
    /\ Answer(p, PersistenceError(call[p].committed))
    /\ UNCHANGED <<file, survivors, locks, acked>>

\* Every step succeeds, but cleanupTemporary reports an error other than ENOENT.
CleanupFails(p) ==
    /\ Fault
    /\ At(p, "dirsync")
    /\ NamesOnDisk
    /\ Answer(p, PersistenceError(call[p].committed))
    /\ UNCHANGED <<file, locks, acked>>

\* releaseLock fails at close (the file is unlinked all the same) or at unlink (it stays). The
\* operation's own error wins.
ReleaseFails(p) ==
    LET l == IF At(p, "release") THEN Of(p).run ELSE Catalog
        status == call[p].status
    IN /\ Fault
       /\ call[p].pc \in {"release", "releaseCatalog"}
       /\ locks' \in {locks, locks \ {l}}
       /\ Finish(p, IF At(p, "release") THEN AfterRunLock(p) ELSE "reply",
                 IF status \in Answers THEN "indeterminate" ELSE status)
       /\ UNCHANGED <<file, survivors, acked>>

\* The process ends between two steps: no answer, and its lock files stay.
Crash(p) ==
    /\ Fault
    /\ ~At(p, "idle")
    /\ call' = [call EXCEPT ![p] = Idle]
    /\ UNCHANGED <<file, survivors, locks, acked>>

\* The host stops: each run file is one that may survive, and as no unlink was synced, any
\* lock file may be there again.
PowerLoss ==
    /\ Fault
    /\ file' \in {f \in [Runs -> UNION Range(survivors)] : \A r \in Runs : f[r] \in survivors[r]}
    /\ survivors' = [r \in Runs |-> {file'[r]}]
    /\ locks' \in SUBSET LockNames
    /\ call' = [p \in Procs |-> Idle]
    /\ UNCHANGED acked

\* The operator has confirmed that no process is writing.
RemoveStaleLock(l) ==
    /\ l \in locks
    /\ \A p \in Procs, k \in LockNames : ~Holds(p, k)
    /\ locks' = locks \ {l}
    /\ UNCHANGED <<file, survivors, call, acked, faults>>

----------------------------------------------------------------------------
Begin(p) == StartCreate(p) \/ StartAppend(p) \/ StartAdmit(p) \/ StartRead(p)

Step(p) ==
    \/ Lstat(p) \/ Open(p)
    \/ TakeCatalogLock(p) \/ TakeRunLock(p)
    \/ LoadCreate(p) \/ LoadAppend(p) \/ LoadAdmit(p)
    \/ WriteTemporary(p) \/ RenameTemporary(p) \/ SyncDirectory(p)
    \/ ReleaseRunLock(p) \/ ReleaseCatalogLock(p) \/ Reply(p)

Failure(p) ==
    \/ TakeLockFails(p) \/ LoadFails(p) \/ PersistFails(p)
    \/ CleanupFails(p) \/ ReleaseFails(p) \/ Crash(p)

Next ==
    \/ \E p \in Procs : Begin(p) \/ Step(p) \/ Failure(p)
    \/ PowerLoss
    \/ \E l \in LockNames : RemoveStaleLock(l)

Spec == Init /\ [][Next]_vars

\* A process that has started a call takes its next step unless it crashes.
FairSpec == Spec /\ \A p \in Procs : WF_vars(Step(p))

----------------------------------------------------------------------------
(* Properties                                                              *)

TypeOK ==
    /\ file \in [Runs -> File]
    /\ survivors \in [Runs -> SUBSET File]
    /\ locks \in SUBSET LockNames
    /\ call \in [Procs -> Call]
    /\ \A p \in Procs : ~At(p, "idle") => Of(p) \in Request
    /\ acked \in SUBSET Request
    /\ faults \in 0 .. MaxFaults

\* Exclusive writers: while a call is inside withLock its lock file exists and no other call is
\* inside the same withLock, across crashes, failed releases and manual lock removal.
LockExclusion ==
    \A p \in Procs, l \in LockNames :
        Holds(p, l) => /\ l \in locks
                       /\ \A q \in Procs : Holds(q, l) => q = p

\* Optimistic concurrency is decided on the run file that the rename replaces: what a call
\* loaded is what is there until it renames, so no admitted event is overwritten.
LoadedIsCurrent ==
    \A p \in Procs : call[p].pc \in {"write", "rename"} => call[p].cur = file[Of(p).run]

\* Whatever a reader or a restart after a power loss finds under a run's name, it parses:
\* complete admission coverage, unique event IDs, the last writer of the final admission.
StoreReadable ==
    \A r \in Runs : \A e \in survivors[r] \cup {file[r]} : e = NoRun \/ Readable(e)

\* Admission record a says what request q asked: the decision, the content and, of a batch,
\* the prefix.
Records(a, q) ==
    /\ a.decision = q.decision
    /\ \/ /\ q.kind = "append" /\ a.kind = "direct-event"
          /\ a.ids = <<q.draft.id>>
       \/ /\ q.kind = "admit" /\ a.kind = "model-proposal"
          /\ a.proposal = q.proposal /\ a.base = q.base
          /\ a.ids = IdSeq(CompiledEvents[q.proposal])

\* What q asked to have appended.
Asked(q) == IF q.kind = "append" THEN <<q.draft>> ELSE CompiledEvents[q.proposal]

\* e holds the effect of request q: its events in a row, and one record of it that is bound to
\* the events before them.
Effect(e, q) ==
    /\ e \notin {NoRun, Torn}
    /\ \/ q.kind = "create" /\ e.contract = q.contract
       \/ /\ q.kind \in {"append", "admit"}
          /\ \E i \in DOMAIN e.admissions :
                LET a == e.admissions[i]
                    n == Len(a.base.events)
                IN /\ Records(a, q)
                   /\ a.base = Prefix(e, n)
                   /\ SubSeq(e.events, n + 1, n + Len(a.ids)) = Asked(q)

\* A new write that was acknowledged is in every file that may survive, with its admission
\* record unchanged, whatever was appended, crashed or lost power since.
AcknowledgedSurvive ==
    \A q \in acked : \A e \in survivors[q.run] \cup {file[q.run]} : Effect(e, q)

\* "already" is said only of a request whose effect, with its content, decision and digests, is
\* in the run, whichever process and whichever call put it there.
AlreadyIsTrue ==
    \A p \in Procs :
        At(p, "release") /\ call[p].status = "already" => Effect(file[Of(p).run], Of(p))

\* An error other than "indeterminate" tells the caller that this call wrote nothing.
DefiniteErrorsWroteNothing ==
    \A p \in Procs : At(p, "reply") /\ call[p].status \in DefiniteErrors => ~call[p].committed

\* The store never holds more runs than its limit, however creates of different runs interleave.
RunLimit == Cardinality(Stored) <= MaxRuns

\* g continues e: the same contract, the stream and its admission records extended.
Extends(e, g) ==
    \/ e = NoRun
    \/ /\ e # Torn /\ g \notin {NoRun, Torn}
       /\ g.contract = e.contract
       /\ IsPrefix(e.events, g.events)
       /\ IsPrefix(e.admissions, g.admissions)

\* A run file only grows; only a power loss takes it back, to a file it has been.
AppendOnly ==
    [][\A r \in Runs : Extends(file[r], file'[r]) \/ file'[r] \in survivors[r]]_vars

\* q asks again for what a was acknowledged for. The digest an append quotes may differ.
SameRequest(a, q) ==
    /\ a.kind = q.kind /\ a.run = q.run
    /\ \/ a.kind = "create" /\ a.contract = q.contract
       \/ a.kind = "append" /\ a.draft = q.draft /\ a.decision = q.decision
       \/ a.kind = "admit" /\ a.proposal = q.proposal /\ a.base = q.base
                           /\ a.decision = q.decision

\* An exact retry of an acknowledged write, by any process and after any later event, is told
\* that it was already done: it neither conflicts nor writes again.
RetriesRecognised ==
    [][\A p \in Procs :
          /\ LoadCreate(p) \/ LoadAppend(p) \/ LoadAdmit(p)
          /\ \E a \in acked : SameRequest(a, Of(p))
          => call'[p].status = "already"]_vars

\* Every call is answered, or ends with its process, whatever lock files lie about.
CallsReturn == \A p \in Procs : ~At(p, "idle") ~> At(p, "idle")

============================================================================
