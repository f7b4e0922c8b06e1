--------------------------- MODULE McpStoreProofs ---------------------------
(***************************************************************************)
(* Proofs about McpStore for every set of processes, runs, drafts and      *)
(* proposals and every bound: that calls exclude each other and lose no    *)
(* update, and what the run files contain.  Every file a reader or a power *)
(* loss can find parses, what was acknowledged is in all of them, an exact *)
(* retry is recognised, and the store implements RunLog.                   *)
(*                                                                         *)
(* The argument for the files: the admission records of a file are         *)
(* disjoint intervals that cover its stream (Tidy), which Covered alone    *)
(* says only by recursion on the records; every file extends the ones it   *)
(* replaced; and a call carries from its load to its reply what that makes *)
(* true.                                                                   *)
(***************************************************************************)
EXTENDS McpStore, McpStoreRefinement, FiniteSetTheorems, TLAPS

----------------------------------------------------------------------------
(* What the operators on runs and envelopes return                         *)

\* The IDs of a stream of drafts are a sequence of draft IDs.
LEMMA IdSeqType ==
    ASSUME NEW es \in Seq(Drafts)
    PROVE  /\ IdSeq(es) \in Seq({d.id : d \in Drafts})
           /\ Len(IdSeq(es)) = Len(es)
  <1>1. IdSeq(es) = [i \in 1 .. Len(es) |-> es[i].id]
    BY DEF IdSeq
  <1>2. \A i \in 1 .. Len(es) : es[i].id \in {d.id : d \in Drafts}
    OBVIOUS
  <1>3. Len(es) \in Nat
    OBVIOUS
  <1>. QED
    BY <1>1, <1>2, <1>3

\* A prefix of an envelope's run is a run.
LEMMA PrefixType ==
    ASSUME NEW e \in Envelope, NEW n \in 0 .. Len(e.events)
    PROVE  Prefix(e, n) \in Run
  <1>1. e.events \in Seq(Drafts) /\ e.contract \in Contracts
    BY DEF Envelope
  <1>2. SubSeq(e.events, 1, n) \in Seq(Drafts)
    BY <1>1
  <1>. QED
    BY <1>1, <1>2 DEF Prefix, Run

\* A direct append yields an envelope.
LEMMA WithDirectType ==
    ASSUME NEW e \in Envelope, NEW q \in AppendRequest, NEW p \in Writers
    PROVE  WithDirect(e, q, p) \in Envelope
  <1> DEFINE rec == DirectRecord(e, Len(e.events), q.draft.id, q.decision, p)
  <1>1. /\ e.events \in Seq(Drafts) /\ e.contract \in Contracts
        /\ e.admissions \in Seq(Record) /\ e.writer \in Writers
    BY DEF Envelope
  <1>2. q.draft \in Drafts /\ q.decision \in Decisions
    BY DEF AppendRequest
  <1>3. Prefix(e, Len(e.events)) \in Run
    BY <1>1, PrefixType
  <1>4. <<q.draft.id>> \in Seq({d.id : d \in Drafts})
    BY <1>2
  <1>5. rec \in Record
    BY <1>2, <1>3, <1>4 DEF DirectRecord, Record
  <1>6. Append(e.events, q.draft) \in Seq(Drafts) /\ Append(e.admissions, rec) \in Seq(Record)
    BY <1>1, <1>2, <1>5
  <1>. QED
    BY <1>1, <1>6 DEF WithDirect, Envelope

\* A batch admission at a bound revision yields an envelope.
LEMMA WithBatchType ==
    ASSUME NEW e \in Envelope, NEW q \in AdmitRequest, NEW p \in Writers,
           Len(q.base.events) \in 0 .. Len(e.events)
    PROVE  WithBatch(e, q, p) \in Envelope
  <1> DEFINE rec == BatchRecord(e, Len(q.base.events), q.proposal, q.decision, p)
  <1>1. /\ e.events \in Seq(Drafts) /\ e.contract \in Contracts
        /\ e.admissions \in Seq(Record) /\ e.writer \in Writers
    BY DEF Envelope
  <1>2. q.proposal \in Proposals /\ q.decision \in Decisions
    BY DEF AdmitRequest
  <1>3. CompiledEvents[q.proposal] \in Seq(Drafts)
    BY <1>2, RunConstants
  <1>4. Prefix(e, Len(q.base.events)) \in Run
    BY PrefixType
  <1>5. IdSeq(CompiledEvents[q.proposal]) \in Seq({d.id : d \in Drafts})
    BY <1>3, IdSeqType
  <1>6. rec \in Record
    BY <1>2, <1>4, <1>5 DEF BatchRecord, Record
  <1>7. /\ e.events \o CompiledEvents[q.proposal] \in Seq(Drafts)
        /\ Append(e.admissions, rec) \in Seq(Record)
    BY <1>1, <1>3, <1>6
  <1>. QED
    BY <1>1, <1>7 DEF WithBatch, Envelope

\* A new run is an envelope.
LEMMA EmptyEnvelopeType ==
    ASSUME NEW k \in Contracts, NEW p \in Writers
    PROVE  EmptyEnvelope(k, p) \in Envelope
  BY DEF EmptyEnvelope, Envelope

----------------------------------------------------------------------------
(* Type correctness                                                        *)

\* A call that is under way has a request, for a run, of one of four kinds.
LEMMA RequestOf ==
    ASSUME TypeOK, NEW p \in Procs, ~At(p, "idle")
    PROVE  /\ Of(p) \in Request
           /\ Of(p).run \in Runs
           /\ Of(p).run \in LockNames
           /\ Of(p).run # Catalog
           /\ Of(p).kind = "create" => Of(p) \in CreateRequest
           /\ Of(p).kind = "append" => Of(p) \in AppendRequest
           /\ Of(p).kind = "admit" => Of(p) \in AdmitRequest
  <1>1. Of(p) \in Request
    BY DEF TypeOK
  <1>. QED
    BY <1>1, StoreConstants
    DEF Request, CreateRequest, AppendRequest, AdmitRequest, ReadRequest, LockNames

\* The bases a caller quotes are runs.
LEMMA BasesType ==
    ASSUME TypeOK, NEW r \in Runs
    PROVE  Bases(r) \subseteq Run
  <1>1. [contract |-> Foreign, events |-> <<>>] \in Run
    BY DEF Run
  <1>2. file[r] \notin {NoRun, Torn} => file[r] \in Envelope
    BY DEF TypeOK, File
  <1>3. ASSUME file[r] \in Envelope, NEW n \in 0 .. Len(file[r].events)
        PROVE  Prefix(file[r], n) \in Run
    BY <1>3, PrefixType
  <1>. QED
    BY <1>1, <1>2, <1>3 DEF Bases

\* A readable run file is an envelope.
LEMMA ReadableType ==
    ASSUME TypeOK, NEW r \in Runs, file[r] # NoRun, Readable(file[r])
    PROVE  file[r] \in Envelope
  BY DEF TypeOK, File, Readable

\* Replacing one process's call by a typed one keeps the calls typed.
LEMMA UpdateType ==
    ASSUME TypeOK, NEW p \in Procs, NEW c \in Call, c.req \in Request,
           call' = [call EXCEPT ![p] = c]
    PROVE  /\ call' \in [Procs -> Call]
           /\ \A q \in Procs : ~At(q, "idle")' => Of(q)' \in Request
  BY DEF TypeOK, At, Of

\* Ending the operation under the run lock, or the call, with a status keeps the calls typed.
LEMMA FinishType ==
    ASSUME TypeOK, NEW p \in Procs, ~At(p, "idle"), NEW pc \in Pc, NEW status \in Status,
           Finish(p, pc, status)
    PROVE  /\ call' \in [Procs -> Call]
           /\ \A q \in Procs : ~At(q, "idle")' => Of(q)' \in Request
  <1> DEFINE c == [pc |-> pc, req |-> Of(p), cur |-> NoRun, new |-> NoRun, status |-> status,
                   committed |-> call[p].committed, synced |-> call[p].synced]
  <1>1. Of(p) \in Request /\ call[p] \in Call
    BY DEF TypeOK
  <1>2. c \in Call /\ c.req \in Request
    BY <1>1 DEF Call, File
  <1>3. call' = [call EXCEPT ![p] = c]
    BY DEF Finish, Of
  <1>. QED
    BY <1>2, <1>3, UpdateType

LEMMA AnswerType ==
    ASSUME TypeOK, NEW p \in Procs, ~At(p, "idle"), NEW status \in Status, Answer(p, status)
    PROVE  /\ call' \in [Procs -> Call]
           /\ \A q \in Procs : ~At(q, "idle")' => Of(q)' \in Request
  <1>1. "release" \in Pc
    BY DEF Pc, HoldingRun
  <1>2. Finish(p, "release", status)
    BY DEF Answer
  <1>. QED
    BY <1>1, <1>2, FinishType

\* What a load step hands to persist is an envelope.
LEMMA PrepareType ==
    ASSUME TypeOK, NEW p \in Procs, At(p, "load"), NEW e \in Envelope, Prepare(p, e)
    PROVE  /\ call' \in [Procs -> Call]
           /\ \A q \in Procs : ~At(q, "idle")' => Of(q)' \in Request
  <1> DEFINE c == [pc |-> "write", req |-> Of(p), cur |-> file[Of(p).run], new |-> e,
                   status |-> "written", committed |-> FALSE, synced |-> FALSE]
  <1>1. ~At(p, "idle")
    BY DEF At
  <1>2. CASE Covered(e)
    <2>1. Of(p) \in Request /\ file[Of(p).run] \in File
      BY <1>1, RequestOf DEF TypeOK
    <2>2. c \in Call /\ c.req \in Request
      BY <2>1 DEF Call, Pc, HoldingRun, File, Status, Answers
    <2>3. call' = [call EXCEPT ![p] = c]
      BY <1>2 DEF Prepare, Of
    <2>. QED
      BY <2>2, <2>3, UpdateType
  <1>3. CASE ~Covered(e)
    <2>1. Answer(p, "corrupt") /\ "corrupt" \in Status
      BY <1>3 DEF Prepare, Status, DefiniteErrors
    <2>. QED
      BY <1>1, <2>1, AnswerType
  <1>. QED
    BY <1>2, <1>3

LEMMA GotoType ==
    ASSUME TypeOK, NEW p \in Procs, ~At(p, "idle"), NEW pc \in Pc, Goto(p, pc)
    PROVE  /\ call' \in [Procs -> Call]
           /\ \A q \in Procs : ~At(q, "idle")' => Of(q)' \in Request
  BY DEF TypeOK, Goto, Call, At, Of

\* The load steps keep the calls typed.
LEMMA LoadType ==
    ASSUME TypeOK, NEW p \in Procs, LoadCreate(p) \/ LoadAppend(p) \/ LoadAdmit(p)
    PROVE  /\ call' \in [Procs -> Call]
           /\ \A q \in Procs : ~At(q, "idle")' => Of(q)' \in Request
  <1> DEFINE e == file[Of(p).run]
  <1>1. ~At(p, "idle") /\ At(p, "load") /\ p \in Writers
    BY StoreConstants DEF LoadCreate, LoadAppend, LoadAdmit, At
  <1>2. /\ {"already", "empty", "conflict", "corrupt", "limit", "not-found"} \subseteq Status
    BY DEF Status, Answers, DefiniteErrors
  <1>3. ASSUME NEW status \in {"already", "empty", "conflict", "corrupt", "limit", "not-found"},
               Answer(p, status)
        PROVE  /\ call' \in [Procs -> Call]
               /\ \A q \in Procs : ~At(q, "idle")' => Of(q)' \in Request
    BY <1>1, <1>2, <1>3, AnswerType
  <1>4. CASE LoadCreate(p)
    <2>1. Of(p) \in CreateRequest
      BY <1>1, <1>4, RequestOf DEF LoadCreate
    <2>2. EmptyEnvelope(Of(p).contract, p) \in Envelope
      BY <1>1, <2>1, EmptyEnvelopeType DEF CreateRequest
    <2>3. CASE Prepare(p, EmptyEnvelope(Of(p).contract, p))
      BY <1>1, <2>2, <2>3, PrepareType
    <2>. QED
      BY <1>3, <1>4, <2>3 DEF LoadCreate
  <1>5. CASE LoadAppend(p)
    <2>1. Of(p) \in AppendRequest
      BY <1>1, <1>5, RequestOf DEF LoadAppend
    <2>2. CASE e # NoRun /\ Readable(e) /\ Prepare(p, WithDirect(e, Of(p), p))
      <3>1. e \in Envelope
        BY <1>1, <2>2, RequestOf, ReadableType
      <3>2. WithDirect(e, Of(p), p) \in Envelope
        BY <1>1, <2>1, <3>1, WithDirectType
      <3>. QED
        BY <1>1, <2>2, <3>2, PrepareType
    <2>. QED
      BY <1>3, <1>5, <2>2 DEF LoadAppend
  <1>6. CASE LoadAdmit(p)
    <2>1. Of(p) \in AdmitRequest
      BY <1>1, <1>6, RequestOf DEF LoadAdmit
    <2>2. CASE /\ e # NoRun /\ Readable(e) /\ BatchFits(e, Of(p))
               /\ Prepare(p, WithBatch(e, Of(p), p))
      <3>1. e \in Envelope
        BY <1>1, <2>2, RequestOf, ReadableType
      <3>2. Len(Of(p).base.events) \in 0 .. Len(e.events)
        BY <2>2, <3>1 DEF BatchFits, RunDigest, Envelope
      <3>3. WithBatch(e, Of(p), p) \in Envelope
        BY <1>1, <2>1, <3>1, <3>2, WithBatchType
      <3>. QED
        BY <1>1, <2>2, <3>3, PrepareType
    <2>. QED
      BY <1>3, <1>6, <2>2 DEF LoadAdmit
  <1>. QED
    BY <1>4, <1>5, <1>6

\* McpStore's state has its type.
THEOREM TypeCorrect == Spec => []TypeOK
  <1>1. Init => TypeOK
    BY StoreConstants DEF Init, TypeOK, Idle, Call, Pc, Status, File, NoRequest, At
  <1>2. ASSUME TypeOK, [Next]_vars
        PROVE  TypeOK'
    <2>1. ASSUME NEW p \in Procs, NEW pc \in Pc, NEW q \in Request, Start(p, pc, q)
          PROVE  TypeOK'
      <3> DEFINE c == [[call[p] EXCEPT !.pc = pc] EXCEPT !.req = q]
      <3>1. call[p] \in Call
        BY <1>2 DEF TypeOK
      <3>2. c \in Call /\ c.req \in Request
        BY <3>1 DEF Call
      <3>3. call' = [call EXCEPT ![p] = c]
        BY <1>2, <2>1 DEF Start, TypeOK
      <3>4. /\ call' \in [Procs -> Call]
            /\ \A s \in Procs : ~At(s, "idle")' => Of(s)' \in Request
        <4>. HIDE DEF c
        <4>. QED
          BY <1>2, <3>2, <3>3, UpdateType
      <3>. QED
        BY <1>2, <2>1, <3>4 DEF Start, TypeOK
    <2>2. ASSUME NEW p \in Procs, Lstat(p)
          PROVE  TypeOK'
      <3>1. /\ ~At(p, "idle") /\ Of(p).run \in Runs
            /\ UNCHANGED <<file, survivors, locks, acked, faults>>
        BY <1>2, <2>2, RequestOf DEF Lstat, At
      <3>2. CASE Finish(p, "reply", "not-found")
        <4>1. "reply" \in Pc /\ "not-found" \in Status
          BY DEF Pc, Status, DefiniteErrors
        <4>. QED
          BY <1>2, <3>1, <3>2, <4>1, FinishType DEF TypeOK
      <3>3. CASE call' = [call EXCEPT ![p].pc = "open", ![p].cur = file[Of(p).run]]
        <4> DEFINE c == [[call[p] EXCEPT !.pc = "open"] EXCEPT !.cur = file[Of(p).run]]
        <4>1. call[p] \in Call /\ call[p].req \in Request /\ file[Of(p).run] \in File
          BY <1>2, <3>1, RequestOf DEF TypeOK, Of
        <4>2. c \in Call /\ c.req \in Request
          BY <4>1 DEF Call, Pc
        <4>3. call' = [call EXCEPT ![p] = c]
          BY <1>2, <3>3 DEF TypeOK
        <4>4. /\ call' \in [Procs -> Call]
              /\ \A q \in Procs : ~At(q, "idle")' => Of(q)' \in Request
          <5>. HIDE DEF c
          <5>. QED
            BY <1>2, <4>2, <4>3, UpdateType
        <4>. QED
          BY <1>2, <3>1, <4>4 DEF TypeOK
      <3>. QED
        BY <2>2, <3>2, <3>3 DEF Lstat
    <2>3. ASSUME NEW p \in Procs, RenameTemporary(p)
          PROVE  TypeOK'
      <3>1. Of(p).run \in Runs /\ ~At(p, "idle") /\ NoRun \in File /\ Torn \in File
        BY <1>2, <2>3, RequestOf DEF RenameTemporary, At, File
      <3>2. call[p].new \in File /\ call[p] \in Call
        BY <1>2 DEF TypeOK, Call
      <3>3. file' \in [Runs -> File] /\ survivors' \in [Runs -> SUBSET File]
        BY <1>2, <2>3, <3>1, <3>2 DEF RenameTemporary, TypeOK
      <3>4. /\ call' \in [Procs -> Call]
            /\ \A q \in Procs : ~At(q, "idle")' => Of(q)' \in Request
        <4> DEFINE c == [pc |-> "dirsync", req |-> Of(p), cur |-> NoRun, new |-> call[p].new,
                         status |-> call[p].status, committed |-> TRUE,
                         synced |-> call[p].synced]
        <4>1. Of(p) \in Request
          BY <1>2, <3>1, RequestOf
        <4>2. c \in Call /\ c.req \in Request
          BY <3>1, <3>2, <4>1 DEF Call, Pc, HoldingRun
        <4>3. call' = [call EXCEPT ![p] = c]
          BY <2>3 DEF RenameTemporary, Of
        <4>. QED
          BY <1>2, <4>2, <4>3, UpdateType
      <3>. QED
        BY <1>2, <2>3, <3>3, <3>4 DEF RenameTemporary, TypeOK
    <2>4. ASSUME NEW p \in Procs, WriteTemporary(p)
          PROVE  TypeOK'
      <3> DEFINE c == [[call[p] EXCEPT !.pc = "rename"] EXCEPT !.synced = TRUE]
      <3>1. call[p] \in Call /\ call[p].req \in Request
        BY <1>2, <2>4, RequestOf DEF WriteTemporary, TypeOK, At, Of
      <3>2. c \in Call /\ c.req \in Request
        BY <3>1 DEF Call, Pc, HoldingRun
      <3>3. call' = [call EXCEPT ![p] = c]
        BY <1>2, <2>4 DEF WriteTemporary, TypeOK
      <3>4. /\ call' \in [Procs -> Call]
            /\ \A q \in Procs : ~At(q, "idle")' => Of(q)' \in Request
        <4>. HIDE DEF c
        <4>. QED
          BY <1>2, <3>2, <3>3, UpdateType
      <3>. QED
        BY <1>2, <2>4, <3>4 DEF WriteTemporary, TypeOK
    <2>5. ASSUME PowerLoss
          PROVE  TypeOK'
      <3>1. file' \in [Runs -> File]
        <4>1. \A r \in Runs : file'[r] \in File
          BY <1>2, <2>5 DEF PowerLoss, TypeOK
        <4>2. \E S : file' \in [Runs -> S]
          BY <2>5 DEF PowerLoss
        <4>. QED
          BY <4>1, <4>2
      <3>2. survivors' \in [Runs -> SUBSET File]
        BY <2>5, <3>1 DEF PowerLoss
      <3>3. Idle \in Call /\ Idle.pc = "idle"
        BY DEF Idle, Call, Pc, File, Status
      <3>4. /\ call' \in [Procs -> Call]
            /\ \A q \in Procs : ~At(q, "idle")' => Of(q)' \in Request
        BY <2>5, <3>3 DEF PowerLoss, At
      <3>5. faults' \in 0 .. MaxFaults
        BY <1>2, <2>5, StoreConstants DEF PowerLoss, Fault, TypeOK
      <3>. QED
        BY <1>2, <2>5, <3>1, <3>2, <3>4, <3>5 DEF PowerLoss, TypeOK
    <2>6. ASSUME NEW p \in Procs, Begin(p)
          PROVE  TypeOK'
      <3>1. "lstat" \in Pc /\ "lock" \in Pc /\ "catalog" \in Pc
        BY DEF Pc
      <3>2. CASE StartCreate(p)
        BY <2>1, <3>1, <3>2 DEF StartCreate, Request
      <3>3. CASE StartAppend(p)
        <4>1. PICK r \in Runs, d \in Drafts, a \in Decisions : \E b \in Bases(r) :
                Start(p, "lock", [kind |-> "append", run |-> r, draft |-> d, base |-> b,
                                  decision |-> a])
          BY <3>3 DEF StartAppend
        <4>2. Bases(r) \subseteq Run
          BY <1>2, BasesType
        <4>. QED
          BY <2>1, <3>1, <4>1, <4>2 DEF Request, AppendRequest
      <3>4. CASE StartAdmit(p)
        <4>1. PICK r \in Runs, m \in Proposals, n \in Proposals, a \in Decisions :
                \E b \in Bases(r) :
                  Start(p, "lstat", [kind |-> "admit", run |-> r, proposal |-> m,
                                     reviewed |-> n, base |-> b, decision |-> a])
          BY <3>4 DEF StartAdmit
        <4>2. Bases(r) \subseteq Run
          BY <1>2, BasesType
        <4>. QED
          BY <2>1, <3>1, <4>1, <4>2 DEF Request, AdmitRequest
      <3>5. CASE StartRead(p)
        BY <2>1, <3>1, <3>5 DEF StartRead, Request
      <3>. QED
        BY <2>6, <3>2, <3>3, <3>4, <3>5 DEF Begin
    <2>7. ASSUME NEW p \in Procs, Open(p)
          PROVE  TypeOK'
      <3>1. ~At(p, "idle")
        BY <2>7 DEF Open, At
      <3>2. PICK pc \in {"lock", "reply"}, status \in {"corrupt", "found", "conflict",
                                                        "invalid", "none"} :
              Finish(p, pc, status)
        BY <2>7 DEF Open, PreviewStatus
      <3>3. pc \in Pc /\ status \in Status
        BY DEF Pc, Status, Answers, DefiniteErrors
      <3>. QED
        BY <1>2, <2>7, <3>1, <3>2, <3>3, FinishType DEF Open, TypeOK
    <2>8. ASSUME NEW p \in Procs, LoadCreate(p) \/ LoadAppend(p) \/ LoadAdmit(p)
          PROVE  TypeOK'
      BY <1>2, <2>8, LoadType DEF LoadCreate, LoadAppend, LoadAdmit, TypeOK
    <2>9. ASSUME NEW p \in Procs, SyncDirectory(p) \/ CleanupFails(p) \/ PersistFails(p)
          PROVE  TypeOK'
      <3>1. ~At(p, "idle")
        BY <2>9 DEF SyncDirectory, CleanupFails, PersistFails, At
      <3>2. PICK status \in Status : Answer(p, status)
        <4>1. call[p].status \in Status
          BY <1>2 DEF TypeOK, Call
        <4>2. \A b : PersistenceError(b) \in Status
          BY DEF PersistenceError, Status, DefiniteErrors
        <4>. QED
          BY <2>9, <4>1, <4>2 DEF SyncDirectory, CleanupFails, PersistFails
      <3>3. survivors' \in [Runs -> SUBSET File]
        BY <1>2, <2>9 DEF SyncDirectory, CleanupFails, PersistFails, NamesOnDisk, TypeOK
      <3>4. faults' \in 0 .. MaxFaults
        BY <1>2, <2>9, StoreConstants
        DEF SyncDirectory, CleanupFails, PersistFails, Fault, TypeOK
      <3>. QED
        BY <1>2, <2>9, <3>1, <3>2, <3>3, <3>4, AnswerType
        DEF SyncDirectory, CleanupFails, PersistFails, TypeOK
    <2>10. ASSUME NEW p \in Procs,
                  \/ TakeCatalogLock(p) \/ TakeRunLock(p)
                  \/ ReleaseRunLock(p) \/ ReleaseCatalogLock(p)
           PROVE  TypeOK'
      <3>1. ~At(p, "idle")
        BY <2>10 DEF TakeCatalogLock, TakeRunLock, ReleaseRunLock, ReleaseCatalogLock, At
      <3>2. locks' \in SUBSET LockNames
        BY <1>2, <2>10, <3>1, RequestOf
        DEF TakeCatalogLock, TakeRunLock, ReleaseRunLock, ReleaseCatalogLock, TypeOK, LockNames
      <3>3. AfterRunLock(p) \in Pc /\ {"reply", "load", "lock"} \subseteq Pc
        BY DEF AfterRunLock, Pc, HoldingRun
      <3>4. "busy" \in Status
        BY DEF Status, DefiniteErrors
      <3>5. (\E pc \in Pc : Finish(p, pc, "busy")) \/ (\E pc \in Pc : Goto(p, pc))
        BY <2>10, <3>3 DEF TakeCatalogLock, TakeRunLock, ReleaseRunLock, ReleaseCatalogLock
      <3>6. /\ call' \in [Procs -> Call]
            /\ \A q \in Procs : ~At(q, "idle")' => Of(q)' \in Request
        BY <1>2, <3>1, <3>4, <3>5, FinishType, GotoType
      <3>. QED
        BY <1>2, <2>10, <3>2, <3>6
        DEF TakeCatalogLock, TakeRunLock, ReleaseRunLock, ReleaseCatalogLock, TypeOK
    <2>11. ASSUME NEW p \in Procs, Reply(p) \/ Crash(p)
           PROVE  TypeOK'
      <3>1. ~At(p, "idle")
        BY <2>11 DEF Reply, Crash, At
      <3>2. Idle \in Call /\ Idle.pc = "idle"
        BY DEF Idle, Call, Pc, File, Status
      <3>3. call' = [call EXCEPT ![p] = Idle]
        BY <2>11 DEF Reply, Crash
      <3>4. /\ call' \in [Procs -> Call]
            /\ \A q \in Procs : ~At(q, "idle")' => Of(q)' \in Request
        BY <1>2, <3>2, <3>3 DEF TypeOK, At, Of
      <3>5. acked' \in SUBSET Request /\ faults' \in 0 .. MaxFaults
        BY <1>2, <2>11, <3>1, RequestOf, StoreConstants DEF Reply, Crash, Fault, TypeOK
      <3>. QED
        BY <1>2, <2>11, <3>4, <3>5 DEF Reply, Crash, TypeOK
    <2>12. ASSUME NEW p \in Procs, TakeLockFails(p) \/ LoadFails(p) \/ ReleaseFails(p)
           PROVE  TypeOK'
      <3>1. ~At(p, "idle")
        BY <2>12 DEF TakeLockFails, LoadFails, ReleaseFails, At
      <3>2. PICK pc \in Pc, status \in Status : Finish(p, pc, status)
        <4>1. call[p].status \in Status /\ {"internal", "corrupt", "indeterminate"} \subseteq Status
          BY <1>2 DEF TypeOK, Call, Status, DefiniteErrors
        <4>2. AfterRunLock(p) \in Pc /\ {"reply", "release"} \subseteq Pc
          BY DEF AfterRunLock, Pc, HoldingRun
        <4>. QED
          BY <2>12, <4>1, <4>2 DEF TakeLockFails, LoadFails, ReleaseFails, Answer
      <3>3. locks' \in SUBSET LockNames
        BY <1>2, <2>12 DEF TakeLockFails, LoadFails, ReleaseFails, TypeOK
      <3>4. faults' \in 0 .. MaxFaults
        BY <1>2, <2>12, StoreConstants DEF TakeLockFails, LoadFails, ReleaseFails, Fault, TypeOK
      <3>. QED
        BY <1>2, <2>12, <3>1, <3>2, <3>3, <3>4, FinishType
        DEF TakeLockFails, LoadFails, ReleaseFails, TypeOK
    <2>13. ASSUME NEW l \in LockNames, RemoveStaleLock(l)
           PROVE  TypeOK'
      BY <1>2, <2>13 DEF RemoveStaleLock, TypeOK, At, Of
    <2>14. ASSUME UNCHANGED vars
           PROVE  TypeOK'
      BY <1>2, <2>14 DEF vars, TypeOK, At, Of
    <2>. QED
      BY <1>2, <2>2, <2>3, <2>4, <2>5, <2>6, <2>7, <2>8, <2>9, <2>10, <2>11, <2>12, <2>13, <2>14
      DEF Next, Step, Failure
  <1>. QED
    BY <1>1, <1>2, PTL DEF Spec

----------------------------------------------------------------------------
(* Exclusion                                                               *)

\* What becomes of the call of the process that moves.
LEMMA FinishCall ==
    ASSUME TypeOK, NEW p \in Procs, NEW pc, NEW status, Finish(p, pc, status)
    PROVE  /\ call'[p].pc = pc /\ call'[p].req = call[p].req
           /\ call'[p].cur = NoRun /\ call'[p].new = NoRun
           /\ call'[p].status = status
           /\ call'[p].committed = call[p].committed
           /\ call'[p].synced = call[p].synced
  BY DEF TypeOK, Finish, Of

LEMMA GotoCall ==
    ASSUME TypeOK, NEW p \in Procs, NEW pc \in Pc, Goto(p, pc)
    PROVE  /\ call'[p].pc = pc /\ call'[p].req = call[p].req
           /\ call'[p].cur = call[p].cur /\ call'[p].new = call[p].new
           /\ call'[p].status = call[p].status
           /\ call'[p].committed = call[p].committed
           /\ call'[p].synced = call[p].synced
  BY DEF TypeOK, Goto, Of, Call

LEMMA StartCall ==
    ASSUME TypeOK, NEW p \in Procs, NEW pc \in Pc, NEW q \in Request, Start(p, pc, q)
    PROVE  /\ call'[p].pc = pc /\ call'[p].req = q
           /\ call'[p].committed = call[p].committed
  BY DEF TypeOK, Start, Call

LEMMA PrepareCall ==
    ASSUME TypeOK, NEW p \in Procs, NEW e, Prepare(p, e)
    PROVE  \/ /\ Covered(e)
              /\ call'[p].pc = "write" /\ call'[p].req = call[p].req
              /\ call'[p].cur = file[call[p].req.run] /\ call'[p].new = e
              /\ call'[p].status = "written"
              /\ call'[p].committed = FALSE
           \/ Answer(p, "corrupt")
  BY DEF TypeOK, Prepare, Of

\* The pending calls that reach a lock do so on the path of their tool: only creates pass the
\* catalog lock, only reads and admissions read without a lock.
Paths ==
    \A p \in Procs :
        /\ call[p].pc \in {"lstat", "open"} => Of(p).kind \in {"read", "admit"}
        /\ call[p].pc \in {"catalog", "releaseCatalog"} => Creating(p)

\* A process that moves keeps the exclusion if it holds afterwards only what it held or what
\* no lock file forbade, and removes only lock files of its own.
LEMMA ExclusionStep ==
    ASSUME LockExclusion, NEW p \in Procs,
           \A q \in Procs \ {p} : call'[q] = call[q],
           \A l \in LockNames : Holds(p, l)' => l \in locks' /\ (Holds(p, l) \/ l \notin locks),
           \A l \in locks \ locks' : Holds(p, l)
    PROVE  LockExclusion'
  <1>1. \A q \in Procs \ {p}, l \in LockNames : Holds(q, l)' <=> Holds(q, l)
    BY DEF Holds, Of, Creating
  <1>. QED
    BY <1>1 DEF LockExclusion

\* A process that moves sets only its own call.
LEMMA OthersCalls ==
    ASSUME TypeOK, NEW p \in Procs, Begin(p) \/ Step(p) \/ Failure(p)
    PROVE  \A q \in Procs \ {p} : call'[q] = call[q]
  BY DEF TypeOK, Begin, Step, Failure, StartCreate, StartAppend, StartAdmit, StartRead, Start,
         Lstat, Open, TakeCatalogLock, TakeRunLock, LoadCreate, LoadAppend, LoadAdmit,
         WriteTemporary, RenameTemporary, SyncDirectory, ReleaseRunLock, ReleaseCatalogLock,
         Reply, TakeLockFails, LoadFails, PersistFails, CleanupFails, ReleaseFails, Crash,
         Finish, Answer, Goto, Prepare

\* Where each step leads, with which request.
LEMMA BeginPath ==
    ASSUME TypeOK, NEW p \in Procs, Begin(p)
    PROVE  /\ call'[p].pc \in {"catalog", "lock", "lstat"}
           /\ call'[p].pc = "catalog" <=> call'[p].req.kind = "create"
           /\ call'[p].pc = "lstat" => call'[p].req.kind \in {"read", "admit"}
           /\ UNCHANGED locks
  <1>1. {"catalog", "lock", "lstat"} \subseteq Pc
    BY DEF Pc
  <1>2. CASE StartCreate(p)
    <2>1. PICK q \in CreateRequest : Start(p, "catalog", q)
      BY <1>2 DEF StartCreate
    <2>. QED
      BY <1>1, <2>1, StartCall DEF Start, Request, CreateRequest
  <1>3. CASE StartAppend(p)
    <2>1. PICK r \in Runs, d \in Drafts, a \in Decisions : \E b \in Bases(r) :
            Start(p, "lock", [kind |-> "append", run |-> r, draft |-> d, base |-> b,
                              decision |-> a])
      BY <1>3 DEF StartAppend
    <2>2. Bases(r) \subseteq Run
      BY BasesType
    <2>3. PICK q \in AppendRequest : Start(p, "lock", q)
      BY <2>1, <2>2 DEF AppendRequest
    <2>4. q \in Request /\ q.kind = "append"
      BY <2>3 DEF Request, AppendRequest
    <2>5. call'[p].pc = "lock" /\ call'[p].req = q
      BY <1>1, <2>3, <2>4, StartCall
    <2>. QED
      BY <2>3, <2>4, <2>5 DEF Start
  <1>4. CASE StartAdmit(p)
    <2>1. PICK r \in Runs, m \in Proposals, n \in Proposals, a \in Decisions :
            \E b \in Bases(r) :
              Start(p, "lstat", [kind |-> "admit", run |-> r, proposal |-> m,
                                 reviewed |-> n, base |-> b, decision |-> a])
      BY <1>4 DEF StartAdmit
    <2>2. Bases(r) \subseteq Run
      BY BasesType
    <2>3. PICK q \in AdmitRequest : Start(p, "lstat", q)
      BY <2>1, <2>2 DEF AdmitRequest
    <2>. QED
      BY <1>1, <2>3, StartCall DEF Start, Request, AdmitRequest
  <1>5. CASE StartRead(p)
    <2>1. PICK q \in ReadRequest : Start(p, "lstat", q)
      BY <1>5 DEF StartRead
    <2>. QED
      BY <1>1, <2>1, StartCall DEF Start, Request, ReadRequest
  <1>. QED
    BY <1>2, <1>3, <1>4, <1>5 DEF Begin

\* How a step or a failure of a call that is under way moves it, and the lock files with it.
Hop(p) ==
    LET pc == call[p].pc
        next == call'[p].pc
    IN /\ call'[p].req = call[p].req
       /\ \/ /\ pc = "lstat" /\ next \in {"open", "reply"}
             /\ UNCHANGED locks
          \/ /\ pc = "open" /\ next \in {"lock", "reply"}
             /\ UNCHANGED locks
          \/ /\ pc = "catalog" /\ next = "lock"
             /\ Catalog \notin locks
             /\ locks' = locks \cup {Catalog}
          \/ /\ pc = "lock" /\ next = "load"
             /\ Of(p).run \notin locks
             /\ locks' = locks \cup {Of(p).run}
          \/ /\ pc = "catalog" /\ next = "reply"
             /\ UNCHANGED locks
          \/ /\ pc = "lock" /\ next = AfterRunLock(p)
             /\ UNCHANGED locks
          \/ /\ {pc, next} \subseteq HoldingRun /\ pc # "release"
             /\ UNCHANGED locks
          \/ /\ pc = "release" /\ next = AfterRunLock(p)
             /\ locks' \in {locks, locks \ {Of(p).run}}
          \/ /\ pc = "releaseCatalog" /\ next = "reply"
             /\ locks' \in {locks, locks \ {Catalog}}

LEMMA StepPath ==
    ASSUME TypeOK, NEW p \in Procs, Step(p) \/ Failure(p)
    PROVE  Hop(p) \/ (call'[p] = Idle /\ UNCHANGED locks)
  <1>1. {"lock", "load", "reply"} \subseteq Pc /\ AfterRunLock(p) \in Pc
    BY DEF Pc, HoldingRun, AfterRunLock
  <1>2. CASE Lstat(p)
    <2>1. CASE Finish(p, "reply", "not-found")
      BY <1>2, <2>1, FinishCall DEF Lstat, Hop, At
    <2>2. CASE call' = [call EXCEPT ![p].pc = "open", ![p].cur = file[Of(p).run]]
      BY <1>2, <2>2 DEF Lstat, Hop, At, Of, TypeOK, Call
    <2>. QED
      BY <1>2, <2>1, <2>2 DEF Lstat
  <1>3. CASE Open(p)
    BY <1>3, FinishCall DEF Open, Hop, At
  <1>4. CASE TakeCatalogLock(p)
    BY <1>1, <1>4, FinishCall, GotoCall DEF TakeCatalogLock, Free, Hop, At
  <1>5. CASE TakeRunLock(p)
    BY <1>1, <1>5, FinishCall, GotoCall DEF TakeRunLock, Free, Hop, At
  <1>6. ASSUME At(p, "load") \/ At(p, "write") \/ At(p, "rename") \/ At(p, "dirsync"),
               NEW status, Answer(p, status), UNCHANGED locks
        PROVE  Hop(p)
    BY <1>6, FinishCall DEF Answer, Hop, At, HoldingRun
  <1>7. ASSUME At(p, "load"), NEW e, Prepare(p, e), UNCHANGED locks
        PROVE  Hop(p)
    BY <1>6, <1>7, PrepareCall DEF Hop, At, HoldingRun
  <1>8. CASE LoadCreate(p)
    BY <1>6, <1>7, <1>8 DEF LoadCreate
  <1>9. CASE LoadAppend(p)
    BY <1>6, <1>7, <1>9 DEF LoadAppend
  <1>10. CASE LoadAdmit(p)
    BY <1>6, <1>7, <1>10 DEF LoadAdmit
  <1>11. CASE WriteTemporary(p)
    BY <1>11 DEF WriteTemporary, Hop, At, Of, HoldingRun, TypeOK, Call
  <1>12. CASE RenameTemporary(p)
    BY <1>12 DEF RenameTemporary, Hop, At, Of, HoldingRun, TypeOK
  <1>13. CASE SyncDirectory(p) \/ PersistFails(p) \/ CleanupFails(p) \/ LoadFails(p)
    BY <1>6, <1>13 DEF SyncDirectory, PersistFails, CleanupFails, LoadFails, At
  <1>14. CASE ReleaseRunLock(p)
    BY <1>1, <1>14, GotoCall DEF ReleaseRunLock, Hop, At
  <1>15. CASE ReleaseCatalogLock(p)
    BY <1>1, <1>15, GotoCall DEF ReleaseCatalogLock, Hop, At
  <1>16. CASE Reply(p) \/ Crash(p)
    BY <1>16 DEF Reply, Crash, TypeOK
  <1>17. CASE TakeLockFails(p)
    BY <1>17, FinishCall DEF TakeLockFails, Hop, At
  <1>18. CASE ReleaseFails(p)
    BY <1>18, FinishCall DEF ReleaseFails, Hop, At
  <1>. QED
    BY <1>2, <1>3, <1>4, <1>5, <1>8, <1>9, <1>10, <1>11, <1>12, <1>13, <1>14, <1>15, <1>16,
       <1>17, <1>18
    DEF Step, Failure

\* A power loss ends every call.
LEMMA PowerLossCalls ==
    ASSUME PowerLoss
    PROVE  \A p \in Procs : call'[p] = Idle
  BY DEF PowerLoss

\* Calls stay on their paths.
LEMMA PathsCorrect == Spec => []Paths
  <1>1. Init => Paths
    BY DEF Init, Paths, Idle, Of
  <1>2. ASSUME TypeOK, Paths, [Next]_vars
        PROVE  Paths'
    <2>1. ASSUME NEW p \in Procs, Begin(p) \/ Step(p) \/ Failure(p)
          PROVE  Paths'
      <3>1. \A q \in Procs \ {p} : call'[q] = call[q]
        BY <1>2, <2>1, OthersCalls
      <3>2. /\ call'[p].pc \in {"lstat", "open"} => call'[p].req.kind \in {"read", "admit"}
            /\ call'[p].pc \in {"catalog", "releaseCatalog"} => call'[p].req.kind = "create"
        <4>1. CASE Begin(p)
          BY <1>2, <4>1, BeginPath
        <4>2. CASE Hop(p)
          BY <1>2, <4>2 DEF Hop, Paths, AfterRunLock, Creating, Of, HoldingRun
        <4>3. CASE call'[p] = Idle
          BY <4>3 DEF Idle
        <4>. QED
          BY <1>2, <2>1, <4>1, <4>2, <4>3, StepPath
      <3>. QED
        BY <1>2, <3>1, <3>2 DEF Paths, Creating, Of
    <2>2. ASSUME PowerLoss
          PROVE  Paths'
      BY <2>2, PowerLossCalls DEF Paths, Idle, Of
    <2>3. ASSUME UNCHANGED call
          PROVE  Paths'
      BY <1>2, <2>3 DEF Paths, Creating, Of
    <2>. QED
      BY <1>2, <2>1, <2>2, <2>3 DEF Next, RemoveStaleLock, vars
  <1>. QED
    BY <1>1, <1>2, TypeCorrect, PTL DEF Spec

\* No two calls are ever inside the same withLock, and the lock file of a call inside it exists
\* until that call unlinks it.
THEOREM Exclusion == Spec => []LockExclusion
  <1>1. Init => LockExclusion
    BY DEF Init, LockExclusion, Holds, Idle, HoldingRun
  <1>2. ASSUME TypeOK, Paths, LockExclusion, [Next]_vars
        PROVE  LockExclusion'
    <2>1. ASSUME NEW p \in Procs, Begin(p) \/ Step(p) \/ Failure(p)
          PROVE  LockExclusion'
      <3>1. \A q \in Procs \ {p} : call'[q] = call[q]
        BY <1>2, <2>1, OthersCalls
      <3>2. CASE Begin(p)
        <4>1. \A l \in LockNames : ~Holds(p, l)'
          BY <1>2, <3>2, BeginPath DEF Holds, Creating, Of, HoldingRun
        <4>. QED
          BY <1>2, <3>1, <3>2, <4>1, BeginPath, ExclusionStep
      <3>3. CASE call'[p] = Idle /\ UNCHANGED locks
        <4>1. \A l \in LockNames : ~Holds(p, l)'
          BY <3>3 DEF Holds, Idle, HoldingRun
        <4>. QED
          BY <1>2, <3>1, <3>3, <4>1, ExclusionStep
      <3>4. CASE Hop(p)
        <4>1. ~At(p, "idle")
          BY <3>4 DEF Hop, At, HoldingRun
        <4>2. Of(p).run # Catalog
          BY <1>2, <4>1, RequestOf
        <4>3. \A l \in LockNames :
                Holds(p, l) => l \in locks
          BY <1>2 DEF LockExclusion
        <4>4. \A l \in LockNames :
                Holds(p, l)' => l \in locks' /\ (Holds(p, l) \/ l \notin locks)
          BY <1>2, <3>4, <4>2, <4>3
          DEF Hop, Paths, Holds, HoldingRun, AfterRunLock, Creating, Of
        <4>5. \A l \in locks \ locks' : Holds(p, l)
          BY <1>2, <3>4 DEF Hop, Paths, Holds, HoldingRun, Creating, Of
        <4>. QED
          BY <1>2, <3>1, <4>4, <4>5, ExclusionStep
      <3>. QED
        BY <1>2, <2>1, <3>2, <3>3, <3>4, StepPath
    <2>2. ASSUME PowerLoss
          PROVE  LockExclusion'
      BY <2>2, PowerLossCalls DEF LockExclusion, Holds, Idle, HoldingRun
    <2>3. ASSUME NEW l \in LockNames, RemoveStaleLock(l)
          PROVE  LockExclusion'
      BY <2>3 DEF RemoveStaleLock, LockExclusion, Holds, Creating, Of
    <2>4. CASE UNCHANGED vars
      BY <1>2, <2>4 DEF vars, LockExclusion, Holds, Creating, Of
    <2>. QED
      BY <1>2, <2>1, <2>2, <2>3, <2>4 DEF Next
  <1>. QED
    BY <1>1, <1>2, TypeCorrect, PathsCorrect, PTL DEF Spec

----------------------------------------------------------------------------
(* No lost update                                                          *)

\* A stream begins every stream that it is extended to.
LEMMA PrefixOfAppend ==
    ASSUME NEW S, NEW s \in Seq(S), NEW t \in Seq(S)
    PROVE  IsPrefix(s, s \o t)
  BY DEF IsPrefix

LEMMA WithDirectExtends ==
    ASSUME NEW e \in Envelope, NEW q \in AppendRequest, NEW p \in Writers
    PROVE  Extends(e, WithDirect(e, q, p))
  <1> DEFINE new == WithDirect(e, q, p)
  <1>1. new \in Envelope
    BY WithDirectType
  <1>2. /\ e.events \in Seq(Drafts) /\ e.admissions \in Seq(Record)
        /\ new.events \in Seq(Drafts) /\ new.admissions \in Seq(Record)
    BY <1>1 DEF Envelope
  <1>3. new.contract = e.contract
    BY DEF WithDirect
  <1>4. IsPrefix(e.events, new.events)
    BY <1>2 DEF WithDirect, IsPrefix
  <1>5. IsPrefix(e.admissions, new.admissions)
    BY <1>2 DEF WithDirect, IsPrefix
  <1>. QED
    BY <1>1, <1>3, <1>4, <1>5, StoreConstants DEF Extends

LEMMA WithBatchExtends ==
    ASSUME NEW e \in Envelope, NEW q \in AdmitRequest, NEW p \in Writers,
           BatchFits(e, q)
    PROVE  Extends(e, WithBatch(e, q, p))
  <1> DEFINE new == WithBatch(e, q, p)
  <1>1. Len(q.base.events) \in 0 .. Len(e.events)
    BY DEF BatchFits, RunDigest, Envelope
  <1>2. new \in Envelope
    BY <1>1, WithBatchType
  <1>3. /\ e.events \in Seq(Drafts) /\ e.admissions \in Seq(Record)
        /\ new.events \in Seq(Drafts) /\ new.admissions \in Seq(Record)
        /\ CompiledEvents[q.proposal] \in Seq(Drafts)
    BY <1>2, RunConstants DEF Envelope, AdmitRequest
  <1>4. new.contract = e.contract
    BY DEF WithBatch
  <1>5. IsPrefix(e.events, new.events)
    BY <1>3, PrefixOfAppend DEF WithBatch
  <1>6. IsPrefix(e.admissions, new.admissions)
    BY <1>3 DEF WithBatch, IsPrefix
  <1>. QED
    BY <1>2, <1>4, <1>5, <1>6, StoreConstants DEF Extends

\* What a load step hands to persist extends what it loaded.
LEMMA LoadExtends ==
    ASSUME TypeOK, NEW p \in Procs, LoadCreate(p) \/ LoadAppend(p) \/ LoadAdmit(p)
    PROVE  /\ UNCHANGED file
           /\ call'[p].pc \in {"write", "release"}
           /\ call'[p].pc = "write" =>
                /\ call'[p].req = call[p].req
                /\ call'[p].cur = file[call[p].req.run]
                /\ Extends(call'[p].cur, call'[p].new)
  <1> DEFINE e == file[Of(p).run]
  <1>1. ~At(p, "idle") /\ p \in Writers /\ UNCHANGED file
    BY StoreConstants DEF LoadCreate, LoadAppend, LoadAdmit, At
  <1>2. ASSUME NEW status, Answer(p, status)
        PROVE  call'[p].pc = "release"
    BY <1>2, FinishCall DEF Answer
  <1>3. ASSUME NEW new, Prepare(p, new), Extends(e, new)
        PROVE  /\ call'[p].pc \in {"write", "release"}
               /\ call'[p].pc = "write" =>
                    /\ call'[p].req = call[p].req
                    /\ call'[p].cur = file[call[p].req.run]
                    /\ Extends(call'[p].cur, call'[p].new)
    BY <1>2, <1>3, PrepareCall DEF Of
  <1>4. CASE LoadCreate(p)
    <2>1. CASE e = NoRun /\ Prepare(p, EmptyEnvelope(Of(p).contract, p))
      BY <1>1, <1>3, <2>1 DEF Extends
    <2>. QED
      BY <1>1, <1>2, <1>4, <2>1 DEF LoadCreate
  <1>5. CASE LoadAppend(p)
    <2>1. Of(p) \in AppendRequest
      BY <1>1, <1>5, RequestOf DEF LoadAppend
    <2>2. CASE e # NoRun /\ Readable(e) /\ Prepare(p, WithDirect(e, Of(p), p))
      <3>1. e \in Envelope
        BY <1>1, <2>2, RequestOf, ReadableType
      <3>2. Extends(e, WithDirect(e, Of(p), p))
        BY <1>1, <2>1, <3>1, WithDirectExtends
      <3>. QED
        BY <1>1, <1>3, <2>2, <3>2
    <2>. QED
      BY <1>1, <1>2, <1>5, <2>2 DEF LoadAppend
  <1>6. CASE LoadAdmit(p)
    <2>1. Of(p) \in AdmitRequest
      BY <1>1, <1>6, RequestOf DEF LoadAdmit
    <2>2. CASE /\ e # NoRun /\ Readable(e) /\ BatchFits(e, Of(p))
               /\ Prepare(p, WithBatch(e, Of(p), p))
      <3>1. e \in Envelope
        BY <1>1, <2>2, RequestOf, ReadableType
      <3>2. Extends(e, WithBatch(e, Of(p), p))
        BY <1>1, <2>1, <2>2, <3>1, WithBatchExtends
      <3>. QED
        BY <1>1, <1>3, <2>2, <3>2
    <2>. QED
      BY <1>1, <1>2, <1>6, <2>2 DEF LoadAdmit
  <1>. QED
    BY <1>1, <1>4, <1>5, <1>6

\* The steps before a write: where a call that is about to write, or to rename, comes from.
LEMMA WritePath ==
    ASSUME TypeOK, NEW p \in Procs, Begin(p) \/ Step(p) \/ Failure(p),
           call'[p].pc \in {"write", "rename"}
    PROVE  LoadCreate(p) \/ LoadAppend(p) \/ LoadAdmit(p) \/ WriteTemporary(p)
  <1>1. CASE Begin(p)
    BY <1>1, BeginPath
  <1>2. {"lock", "load", "reply"} \subseteq Pc /\ AfterRunLock(p) \in Pc
    BY DEF Pc, HoldingRun, AfterRunLock
  <1>3. CASE \/ Open(p) \/ TakeCatalogLock(p) \/ TakeRunLock(p)
             \/ SyncDirectory(p) \/ ReleaseRunLock(p) \/ ReleaseCatalogLock(p)
             \/ TakeLockFails(p) \/ LoadFails(p) \/ PersistFails(p) \/ CleanupFails(p)
             \/ ReleaseFails(p)
    BY <1>2, <1>3, FinishCall, GotoCall
    DEF Open, TakeCatalogLock, TakeRunLock, SyncDirectory, ReleaseRunLock, ReleaseCatalogLock,
        TakeLockFails, LoadFails, PersistFails, CleanupFails, ReleaseFails, Answer, AfterRunLock
  <1>4. CASE Lstat(p)
    <2>1. CASE Finish(p, "reply", "not-found")
      BY <2>1, FinishCall
    <2>2. CASE call' = [call EXCEPT ![p].pc = "open", ![p].cur = file[Of(p).run]]
      BY <2>2 DEF TypeOK, Call
    <2>. QED
      BY <1>4, <2>1, <2>2 DEF Lstat
  <1>5. CASE RenameTemporary(p) \/ Reply(p) \/ Crash(p)
    BY <1>5 DEF RenameTemporary, Reply, Crash, Idle, TypeOK
  <1>. QED
    BY <1>1, <1>3, <1>4, <1>5 DEF Step, Failure

\* A temporary is synced before it is renamed, and what a call writes extends what it loaded.
Prepared ==
    \A p \in Procs :
        /\ call[p].pc \in {"write", "rename"} =>
             /\ call[p].cur = file[Of(p).run]
             /\ Extends(call[p].cur, call[p].new)
        /\ At(p, "rename") => call[p].synced

\* Only a rename and a power loss change a run file.
LEMMA FileChange ==
    ASSUME TypeOK, NEW p \in Procs, Begin(p) \/ Step(p) \/ Failure(p)
    PROVE  UNCHANGED file \/ RenameTemporary(p)
  BY DEF Begin, Step, Failure, StartCreate, StartAppend, StartAdmit, StartRead, Start,
         Lstat, Open, TakeCatalogLock, TakeRunLock, LoadCreate, LoadAppend, LoadAdmit,
         WriteTemporary, SyncDirectory, ReleaseRunLock, ReleaseCatalogLock,
         Reply, TakeLockFails, LoadFails, PersistFails, CleanupFails, ReleaseFails, Crash

\* The exclusion keeps what a call loaded current: the rename of another call would need the
\* run lock that this one holds.
LEMMA PreparedCorrect == Spec => []Prepared
  <1>1. Init => Prepared
    BY DEF Init, Prepared, Idle, At
  <1>2. ASSUME TypeOK, LockExclusion, Prepared, [Next]_vars
        PROVE  Prepared'
    <2>1. ASSUME NEW p \in Procs, Begin(p) \/ Step(p) \/ Failure(p)
          PROVE  Prepared'
      <3>1. ASSUME NEW q \in Procs \ {p}, call[q].pc \in {"write", "rename"}
            PROVE  file'[Of(q).run] = file[Of(q).run]
        <4>1. CASE UNCHANGED file
          BY <4>1
        <4>2. CASE RenameTemporary(p)
          <5>1. Of(q).run \in LockNames /\ Of(p).run \in Runs
            BY <1>2, <3>1, <4>2, RequestOf DEF RenameTemporary, At
          <5>2. Of(q).run # Of(p).run
            BY <1>2, <3>1, <4>2, <5>1
            DEF LockExclusion, Holds, HoldingRun, RenameTemporary, At
          <5>. QED
            BY <1>2, <4>2, <5>1, <5>2 DEF RenameTemporary, TypeOK
        <4>. QED
          BY <1>2, <2>1, <4>1, <4>2, FileChange
      <3>2. ASSUME NEW q \in Procs \ {p}
            PROVE  /\ call'[q].pc \in {"write", "rename"} =>
                        /\ call'[q].cur = file'[call'[q].req.run]
                        /\ Extends(call'[q].cur, call'[q].new)
                   /\ call'[q].pc = "rename" => call'[q].synced
        <4>1. call'[q] = call[q]
          BY <1>2, <2>1, OthersCalls
        <4>. QED
          BY <1>2, <3>1, <4>1 DEF Prepared, At, Of
      <3>3. /\ call'[p].pc \in {"write", "rename"} =>
                 /\ call'[p].cur = file'[call'[p].req.run]
                 /\ Extends(call'[p].cur, call'[p].new)
            /\ call'[p].pc = "rename" => call'[p].synced
        <4>1. CASE LoadCreate(p) \/ LoadAppend(p) \/ LoadAdmit(p)
          BY <1>2, <4>1, LoadExtends
        <4>2. CASE WriteTemporary(p)
          <5>1. /\ call'[p].cur = call[p].cur /\ call'[p].new = call[p].new
                /\ call'[p].req = call[p].req /\ call'[p].synced
                /\ call[p].pc = "write" /\ file' = file
            BY <1>2, <4>2 DEF WriteTemporary, At, TypeOK, Call
          <5>. QED
            BY <1>2, <5>1 DEF Prepared, Of
        <4>. QED
          BY <1>2, <2>1, <4>1, <4>2, WritePath
      <3>. QED
        BY <3>2, <3>3 DEF Prepared, At, Of
    <2>2. ASSUME PowerLoss
          PROVE  Prepared'
      BY <2>2, PowerLossCalls DEF Prepared, Idle, At
    <2>3. ASSUME UNCHANGED <<call, file>>
          PROVE  Prepared'
      BY <1>2, <2>3 DEF Prepared, At, Of
    <2>. QED
      BY <1>2, <2>1, <2>2, <2>3 DEF Next, RemoveStaleLock, vars
  <1>. QED
    BY <1>1, <1>2, TypeCorrect, Exclusion, PTL DEF Spec

\* What a call loaded is what its rename replaces: no admitted event is overwritten.
THEOREM NoLostUpdate == Spec => []LoadedIsCurrent
  <1>1. Prepared => LoadedIsCurrent
    BY DEF Prepared, LoadedIsCurrent
  <1>. QED
    BY <1>1, PreparedCorrect, PTL

\* The visible run file is one that a power loss may leave.
VisibleMaySurvive == \A r \in Runs : file[r] \in survivors[r]

LEMMA VisibleCorrect == Spec => []VisibleMaySurvive
  <1>1. Init => VisibleMaySurvive
    BY DEF Init, VisibleMaySurvive
  <1>2. ASSUME TypeOK, Prepared, VisibleMaySurvive, [Next]_vars
        PROVE  VisibleMaySurvive'
    <2>1. ASSUME UNCHANGED <<file, survivors>>
          PROVE  VisibleMaySurvive'
      BY <1>2, <2>1 DEF VisibleMaySurvive
    <2>2. ASSUME NEW p \in Procs, RenameTemporary(p)
          PROVE  VisibleMaySurvive'
      BY <1>2, <2>2 DEF VisibleMaySurvive, RenameTemporary, Prepared, At, TypeOK
    <2>3. ASSUME UNCHANGED file, NamesOnDisk
          PROVE  VisibleMaySurvive'
      BY <1>2, <2>3 DEF VisibleMaySurvive, NamesOnDisk
    <2>4. ASSUME PowerLoss
          PROVE  VisibleMaySurvive'
      BY <2>4 DEF VisibleMaySurvive, PowerLoss
    <2>5. ASSUME NEW p \in Procs, Begin(p) \/ Step(p) \/ Failure(p)
          PROVE  VisibleMaySurvive'
      BY <2>1, <2>2, <2>3, <2>5
      DEF Begin, Step, Failure, StartCreate, StartAppend, StartAdmit, StartRead, Start,
          Lstat, Open, TakeCatalogLock, TakeRunLock, LoadCreate, LoadAppend, LoadAdmit,
          WriteTemporary, SyncDirectory, ReleaseRunLock, ReleaseCatalogLock,
          Reply, TakeLockFails, LoadFails, PersistFails, CleanupFails, ReleaseFails, Crash
    <2>. QED
      BY <1>2, <2>1, <2>4, <2>5 DEF Next, RemoveStaleLock, vars
  <1>. QED
    BY <1>1, <1>2, TypeCorrect, PreparedCorrect, PTL DEF Spec

\* A run file only grows: every step leaves each run as it is or extends its stream and its
\* admission records, except a power loss, which leaves a file the run has been.
THEOREM OnlyGrows == Spec => AppendOnly
  <1> DEFINE Kept == \A r \in Runs : Extends(file[r], file'[r]) \/ file'[r] \in survivors[r]
  <1>1. ASSUME TypeOK, Prepared, VisibleMaySurvive, [Next]_vars
        PROVE  [Kept]_vars
    <2>1. ASSUME UNCHANGED file
          PROVE  Kept
      BY <1>1, <2>1 DEF VisibleMaySurvive
    <2>2. ASSUME NEW p \in Procs, RenameTemporary(p)
          PROVE  Kept
      <3>1. Of(p).run \in Runs
        BY <1>1, <2>2, RequestOf DEF RenameTemporary, At
      <3>2. Extends(file[Of(p).run], call[p].new)
        BY <1>1, <2>2 DEF RenameTemporary, Prepared, At
      <3>. QED
        BY <1>1, <2>2, <3>1, <3>2 DEF RenameTemporary, VisibleMaySurvive, TypeOK
    <2>3. ASSUME PowerLoss
          PROVE  Kept
      BY <2>3 DEF PowerLoss
    <2>. QED
      BY <1>1, <2>1, <2>2, <2>3, FileChange DEF Next, RemoveStaleLock, vars
  <1>. QED
    BY <1>1, TypeCorrect, PreparedCorrect, VisibleCorrect, PTL DEF Spec, AppendOnly

----------------------------------------------------------------------------
(* Definite errors                                                         *)

\* A call that renamed is in its last steps, and no error it holds is a definite one.
Honest ==
    \A p \in Procs :
        /\ call[p].pc \in {"write", "rename"} => call[p].status = "written"
        /\ call[p].committed =>
             /\ call[p].pc \in {"dirsync", "release", "releaseCatalog", "reply"}
             /\ call[p].status \notin DefiniteErrors

LEMMA HonestCorrect == Spec => []Honest
  <1>1. Init => Honest
    BY DEF Init, Honest, Idle
  <1>2. ASSUME TypeOK, Honest, [Next]_vars
        PROVE  Honest'
    <2> DEFINE HonestCall(c) ==
                 /\ c.pc \in {"write", "rename"} => c.status = "written"
                 /\ c.committed =>
                      /\ c.pc \in {"dirsync", "release", "releaseCatalog", "reply"}
                      /\ c.status \notin DefiniteErrors
    <2>1. HonestCall(Idle)
      BY DEF Idle
    <2>2. ASSUME NEW p \in Procs, Begin(p) \/ Step(p) \/ Failure(p)
          PROVE  HonestCall(call'[p])
      <3>1. HonestCall(call[p])
        BY <1>2 DEF Honest
      <3>2. {"catalog", "lstat", "lock", "load", "reply"} \subseteq Pc /\ AfterRunLock(p) \in Pc
        BY DEF Pc, HoldingRun, AfterRunLock
      <3>3. CASE Begin(p)
        <4>1. \E pc \in {"catalog", "lstat", "lock"}, q \in Request : Start(p, pc, q)
          <5>1. \A r \in Runs : Bases(r) \subseteq Run
            BY <1>2, BasesType
          <5>2. CASE StartAppend(p)
            BY <5>1, <5>2 DEF StartAppend, Request, AppendRequest
          <5>3. CASE StartAdmit(p)
            BY <5>1, <5>3 DEF StartAdmit, Request, AdmitRequest
          <5>. QED
            BY <3>3, <5>2, <5>3 DEF Begin, StartCreate, StartRead, Request
        <4>. QED
          <5>1. PICK pc \in {"catalog", "lstat", "lock"}, q \in Request : Start(p, pc, q)
            BY <4>1
          <5>2. call'[p].pc = pc /\ call'[p].committed = call[p].committed
            BY <1>2, <3>2, <5>1, StartCall
          <5>3. ~call[p].committed
            BY <3>1, <5>1 DEF Start, At
          <5>. QED
            BY <5>2, <5>3
      <3>4. CASE LoadCreate(p) \/ LoadAppend(p) \/ LoadAdmit(p)
        <4>1. ~call[p].committed
          BY <3>1, <3>4 DEF LoadCreate, LoadAppend, LoadAdmit, At
        <4>2. (\E status : Answer(p, status)) \/ (\E e : Prepare(p, e))
          BY <3>4 DEF LoadCreate, LoadAppend, LoadAdmit
        <4>3. CASE \E status : Answer(p, status)
          BY <1>2, <4>1, <4>3, FinishCall DEF Answer
        <4>4. CASE \E e : Prepare(p, e)
          BY <1>2, <4>1, <4>3, <4>4, PrepareCall
        <4>. QED
          BY <4>2, <4>3, <4>4
      <3>5. CASE Lstat(p)
        <4>1. CASE Finish(p, "reply", "not-found")
          BY <1>2, <3>1, <3>5, <4>1, FinishCall DEF Lstat, At
        <4>2. CASE call' = [call EXCEPT ![p].pc = "open", ![p].cur = file[Of(p).run]]
          BY <1>2, <3>1, <3>5, <4>2 DEF Lstat, At, TypeOK, Call
        <4>. QED
          BY <3>5, <4>1, <4>2 DEF Lstat
      <3>6. CASE Open(p) \/ TakeCatalogLock(p) \/ TakeRunLock(p) \/ TakeLockFails(p)
                 \/ LoadFails(p)
        BY <1>2, <3>1, <3>2, <3>6, FinishCall, GotoCall
        DEF Open, TakeCatalogLock, TakeRunLock, TakeLockFails, LoadFails, Answer, AfterRunLock, At
      <3>7. CASE WriteTemporary(p)
        BY <1>2, <3>1, <3>7 DEF WriteTemporary, At, TypeOK, Call
      <3>8. CASE RenameTemporary(p)
        BY <1>2, <3>1, <3>8 DEF RenameTemporary, At, TypeOK, DefiniteErrors
      <3>9. CASE SyncDirectory(p) \/ PersistFails(p) \/ CleanupFails(p)
        BY <1>2, <3>1, <3>9, FinishCall
        DEF SyncDirectory, PersistFails, CleanupFails, Answer, PersistenceError, DefiniteErrors
      <3>10. CASE ReleaseRunLock(p) \/ ReleaseCatalogLock(p)
        BY <1>2, <3>1, <3>2, <3>10, GotoCall
        DEF ReleaseRunLock, ReleaseCatalogLock, AfterRunLock, At
      <3>11. CASE ReleaseFails(p)
        BY <1>2, <3>1, <3>11, FinishCall DEF ReleaseFails, AfterRunLock, DefiniteErrors
      <3>12. CASE Reply(p) \/ Crash(p)
        BY <1>2, <2>1, <3>12 DEF Reply, Crash, TypeOK
      <3>. QED
        BY <2>2, <3>3, <3>4, <3>5, <3>6, <3>7, <3>8, <3>9, <3>10, <3>11, <3>12 DEF Step, Failure
    <2>3. ASSUME NEW p \in Procs, Begin(p) \/ Step(p) \/ Failure(p)
          PROVE  Honest'
      <3>1. \A q \in Procs \ {p} : HonestCall(call'[q])
        BY <1>2, <2>3, OthersCalls DEF Honest
      <3>. QED
        BY <2>2, <2>3, <3>1 DEF Honest
    <2>4. ASSUME PowerLoss
          PROVE  Honest'
      BY <2>1, <2>4, PowerLossCalls DEF Honest
    <2>5. ASSUME UNCHANGED call
          PROVE  Honest'
      BY <1>2, <2>5 DEF Honest
    <2>. QED
      BY <1>2, <2>3, <2>4, <2>5 DEF Next, RemoveStaleLock, vars
  <1>. QED
    BY <1>1, <1>2, TypeCorrect, PTL DEF Spec

\* A caller that is told an error other than "indeterminate" knows that its call wrote nothing.
THEOREM DefiniteErrorsAreDefinite == Spec => []DefiniteErrorsWroteNothing
  <1>1. Honest => DefiniteErrorsWroteNothing
    BY DEF Honest, DefiniteErrorsWroteNothing
  <1>. QED
    BY <1>1, HonestCorrect, PTL


----------------------------------------------------------------------------
(* Streams                                                                 *)

LEMMA FrontOfConcat ==
    ASSUME NEW S, NEW s \in Seq(S), NEW t \in Seq(S), NEW m \in 1 .. Len(s) + 1,
           NEW n \in 0 .. Len(s)
    PROVE  SubSeq(s \o t, m, n) = SubSeq(s, m, n)
  OBVIOUS

LEMMA BackOfConcat ==
    ASSUME NEW S, NEW s \in Seq(S), NEW t \in Seq(S)
    PROVE  SubSeq(s \o t, Len(s) + 1, Len(s) + Len(t)) = t
  OBVIOUS

LEMMA AtConcat ==
    ASSUME NEW S, NEW s \in Seq(S), NEW t \in Seq(S)
    PROVE  /\ \A j \in 1 .. Len(s) : (s \o t)[j] = s[j]
           /\ \A j \in 1 .. Len(t) : (s \o t)[Len(s) + j] = t[j]
  OBVIOUS

\* What a longer stream holds up to the length of its prefix is what the prefix holds.
LEMMA InPrefix ==
    ASSUME NEW S, NEW s \in Seq(S), NEW t \in Seq(S), IsPrefix(s, t),
           NEW m \in 1 .. Len(s) + 1, NEW n \in 0 .. Len(s)
    PROVE  /\ SubSeq(t, m, n) = SubSeq(s, m, n)
           /\ \A i \in DOMAIN s : i \in DOMAIN t /\ t[i] = s[i]
  <1>1. Len(s) \in Nat /\ Len(t) \in Nat /\ Len(s) =< Len(t)
    BY DEF IsPrefix
  <1>2. \A i \in 1 .. Len(s) : SubSeq(s, 1, Len(s))[i] = s[i] /\ SubSeq(t, 1, Len(s))[i] = t[i]
    BY <1>1
  <1>3. \A i \in 1 .. Len(s) : s[i] = t[i]
    BY <1>2 DEF IsPrefix
  <1>. QED
    BY <1>1, <1>3

\* The middle part of a stream.
LEMMA PartOf ==
    ASSUME NEW S, NEW s \in Seq(S), NEW m \in Nat, NEW n \in Nat, m =< n, n =< Len(s)
    PROVE  /\ DOMAIN SubSeq(s, m + 1, n) = 1 .. n - m
           /\ Len(SubSeq(s, m + 1, n)) = n - m
           /\ \A i \in 1 .. n - m : SubSeq(s, m + 1, n)[i] = s[m + i]
           /\ SubSeq(s, m + 1, n) \in Seq(S)
  OBVIOUS

LEMMA OneOf ==
    ASSUME NEW S, NEW s \in Seq(S), NEW k \in 1 .. Len(s)
    PROVE  SubSeq(s, k, k) = <<s[k]>>
  <1> DEFINE t == SubSeq(s, k, k)
  <1>1. Len(s) \in Nat /\ k \in Int /\ k - k + 1 = 1
    OBVIOUS
  <1>2. t \in Seq(S) /\ Len(t) = 1 /\ t[1] = s[k]
    BY <1>1
  <1>. HIDE DEF t
  <1>3. t = <<s[k]>>
    BY <1>2
  <1>. QED
    BY <1>3 DEF t

\* Two streams that a third one holds in a row, at its beginning.
LEMMA PrefixOfParts ==
    ASSUME NEW S, NEW s \in Seq(S), NEW t \in Seq(S), NEW u \in Seq(S),
           Len(s) + Len(t) =< Len(u), SubSeq(u, 1, Len(s)) = s,
           SubSeq(u, Len(s) + 1, Len(s) + Len(t)) = t
    PROVE  IsPrefix(s \o t, u)
  <1> DEFINE v == s \o t
             n == Len(s)
             m == Len(t)
  <1>1. n \in Nat /\ m \in Nat /\ Len(u) \in Nat /\ n + m =< Len(u) /\ v \in Seq(S) /\ Len(v) = n + m
    OBVIOUS
  <1>2. (\A j \in 1 .. n : v[j] = s[j]) /\ (\A j \in 1 .. m : v[n + j] = t[j])
    BY AtConcat
  <1>3. \A j \in 1 .. n : SubSeq(u, 1, n)[j] = u[j]
    BY <1>1
  <1>4. \A j \in 1 .. m : SubSeq(u, n + 1, n + m)[j] = u[n + j]
    <2>1. n + m \in Nat /\ n =< n + m /\ (n + m) - n = m
      BY <1>1
    <2>2. \A j \in 1 .. (n + m) - n : SubSeq(u, n + 1, n + m)[j] = u[n + j]
      BY <1>1, <2>1, PartOf
    <2>. QED
      BY <2>1, <2>2
  <1>5. (\A j \in 1 .. n : s[j] = u[j]) /\ (\A j \in 1 .. m : t[j] = u[n + j])
    BY <1>3, <1>4
  <1>. HIDE DEF v, n, m
  <1>6. ASSUME NEW j \in 1 .. n + m
        PROVE  v[j] = u[j]
    <2>1. CASE j \in 1 .. n
      BY <1>2, <1>5, <2>1
    <2>2. CASE j \notin 1 .. n
      <3>1. j - n \in 1 .. m /\ n + (j - n) = j
        BY <1>1, <2>2
      <3>2. v[n + (j - n)] = u[n + (j - n)]
        BY <1>2, <1>5, <3>1
      <3>. QED
        BY <3>1, <3>2
    <2>. QED
      BY <2>1, <2>2
  <1>7. SubSeq(v, 1, Len(v)) = SubSeq(u, 1, Len(v))
    BY <1>1, <1>6
  <1>8. IsPrefix(v, u)
    BY <1>1, <1>7 DEF IsPrefix
  <1>. QED
    BY <1>8 DEF v

LEMMA PrefixReflexive ==
    ASSUME NEW S, NEW s \in Seq(S)
    PROVE  IsPrefix(s, s)
  BY DEF IsPrefix

LEMMA PrefixTransitive ==
    ASSUME NEW S, NEW s \in Seq(S), NEW t \in Seq(S), NEW u \in Seq(S),
           IsPrefix(s, t), IsPrefix(t, u)
    PROVE  IsPrefix(s, u)
  <1>1. /\ Len(s) \in Nat /\ Len(t) \in Nat /\ Len(u) \in Nat
        /\ Len(s) =< Len(t) /\ Len(t) =< Len(u)
    BY DEF IsPrefix
  <1>2. \A i \in 1 .. Len(s) : s[i] = t[i]
    BY InPrefix
  <1>3. \A i \in 1 .. Len(t) : t[i] = u[i]
    BY InPrefix
  <1>4. \A i \in 1 .. Len(s) : s[i] = u[i]
    BY <1>1, <1>2, <1>3
  <1>. QED
    BY <1>1, <1>4 DEF IsPrefix

LEMMA PrefixAntisymmetric ==
    ASSUME NEW S, NEW s \in Seq(S), NEW t \in Seq(S), IsPrefix(s, t), IsPrefix(t, s)
    PROVE  s = t
  <1>1. Len(s) \in Nat /\ Len(s) = Len(t)
    BY DEF IsPrefix
  <1>2. \A i \in 1 .. Len(s) : s[i] = t[i]
    BY InPrefix
  <1>. QED
    BY <1>1, <1>2

----------------------------------------------------------------------------
(* Admission records as intervals of the stream                            *)

\* Record a covers the events after the From(a)-th up to the To(a)-th.
From(a) == Len(a.base.events)
To(a) == From(a) + Len(a.ids)

\* Record a lies within the stream of e, bound to what precedes the events it lists.
TidyRecord(e, a) ==
    /\ a.ids # <<>>
    /\ To(a) =< Len(e.events)
    /\ a.base = Prefix(e, From(a))
    /\ a.ids = IdSeq(SubSeq(e.events, From(a) + 1, To(a)))
    /\ a.kind = "direct-event" => a.proposal = NoProposal

RecordsTidy(e) == \A i \in DOMAIN e.admissions : TidyRecord(e, e.admissions[i])

RecordsDisjoint(e) ==
    \A i, j \in DOMAIN e.admissions : i < j => To(e.admissions[i]) =< From(e.admissions[j])

EventsListed(e) ==
    \A k \in DOMAIN e.events :
        \E i \in DOMAIN e.admissions : k \in From(e.admissions[i]) + 1 .. To(e.admissions[i])

Tidy(e) == RecordsTidy(e) /\ RecordsDisjoint(e) /\ EventsListed(e)

\* A stored run file that is in order.
Content(e) == e \in Envelope /\ Readable(e) /\ Tidy(e)

LEMMA EnvelopeFields ==
    ASSUME NEW e \in Envelope
    PROVE  /\ e.contract \in Contracts
           /\ e.events \in Seq(Drafts) /\ Len(e.events) \in Nat
           /\ DOMAIN e.events = 1 .. Len(e.events)
           /\ e.admissions \in Seq(Record) /\ Len(e.admissions) \in Nat
           /\ DOMAIN e.admissions = 1 .. Len(e.admissions)
           /\ e.writer \in Writers
  BY DEF Envelope

LEMMA RecordFields ==
    ASSUME NEW a \in Record
    PROVE  /\ a.base \in Run /\ a.base.events \in Seq(Drafts) /\ From(a) \in Nat
           /\ a.ids \in Seq({d.id : d \in Drafts}) /\ Len(a.ids) \in Nat /\ To(a) \in Nat
           /\ a.kind \in {"direct-event", "model-proposal"}
           /\ a.proposal \in Proposals \cup {NoProposal}
           /\ a.decision \in Decisions /\ a.writer \in Writers
           /\ a = [kind |-> a.kind, base |-> a.base, ids |-> a.ids, proposal |-> a.proposal,
                   decision |-> a.decision, writer |-> a.writer]
  <1>1. /\ a.base \in Run /\ a.ids \in Seq({d.id : d \in Drafts})
        /\ a.kind \in {"direct-event", "model-proposal"}
        /\ a.proposal \in Proposals \cup {NoProposal}
        /\ a.decision \in Decisions /\ a.writer \in Writers
        /\ a = [kind |-> a.kind, base |-> a.base, ids |-> a.ids, proposal |-> a.proposal,
                decision |-> a.decision, writer |-> a.writer]
    BY DEF Record
  <1>2. a.base.events \in Seq(Drafts)
    BY <1>1 DEF Run
  <1>3. Len(a.base.events) \in Nat /\ Len(a.ids) \in Nat
    BY <1>1, <1>2
  <1>. QED
    BY <1>1, <1>2, <1>3 DEF From, To

LEMMA RecordSpan ==
    ASSUME NEW a \in Record
    PROVE  /\ From(a) \in Nat /\ Len(a.ids) \in Nat /\ To(a) \in Nat
           /\ To(a) = From(a) + Len(a.ids)
           /\ From(a) =< To(a)
  <1>1. From(a) \in Nat /\ Len(a.ids) \in Nat
    BY RecordFields
  <1>. QED
    BY <1>1 DEF To

LEMMA RecordIn ==
    ASSUME NEW e \in Envelope, NEW i \in DOMAIN e.admissions
    PROVE  e.admissions[i] \in Record
  BY DEF Envelope

\* The stream grown by some events and the one record that covers them.
Grown(e, es, rec) ==
    [contract |-> e.contract, events |-> e.events \o es,
     admissions |-> Append(e.admissions, rec), writer |-> rec.writer]

\* A tidy record stays tidy when the stream grows.
LEMMA TidyRecordKept ==
    ASSUME NEW e \in Envelope, NEW g \in Envelope, NEW a \in Record,
           g.contract = e.contract, IsPrefix(e.events, g.events), TidyRecord(e, a)
    PROVE  TidyRecord(g, a)
  <1>1. /\ Len(e.events) \in Nat /\ Len(g.events) \in Nat /\ Len(e.events) =< Len(g.events)
        /\ e.events \in Seq(Drafts) /\ g.events \in Seq(Drafts)
    BY EnvelopeFields DEF IsPrefix
  <1>2. From(a) \in Nat /\ To(a) \in Nat /\ From(a) =< To(a) /\ To(a) =< Len(e.events)
    BY RecordSpan DEF TidyRecord
  <1>3. /\ From(a) \in 0 .. Len(e.events) /\ To(a) \in 0 .. Len(e.events)
        /\ From(a) + 1 \in 1 .. Len(e.events) + 1 /\ 1 \in 1 .. Len(e.events) + 1
    BY <1>1, <1>2
  <1>4. SubSeq(g.events, 1, From(a)) = SubSeq(e.events, 1, From(a))
    BY <1>1, <1>3, InPrefix
  <1>5. SubSeq(g.events, From(a) + 1, To(a)) = SubSeq(e.events, From(a) + 1, To(a))
    BY <1>1, <1>3, InPrefix
  <1>6. Prefix(g, From(a)) = Prefix(e, From(a))
    BY <1>4 DEF Prefix
  <1>7. To(a) =< Len(g.events)
    BY <1>1, <1>2
  <1>. QED
    BY <1>5, <1>6, <1>7 DEF TidyRecord

LEMMA GrownTidy ==
    ASSUME NEW e \in Envelope, Tidy(e), NEW es \in Seq(Drafts), es # <<>>, NEW rec \in Record,
           rec.base = Prefix(e, Len(e.events)), rec.ids = IdSeq(es),
           rec.kind = "direct-event" => rec.proposal = NoProposal
    PROVE  Grown(e, es, rec) \in Envelope /\ Tidy(Grown(e, es, rec))
  <1> DEFINE g == Grown(e, es, rec)
             n == Len(e.events)
             m == Len(e.admissions)
  <1>1. /\ n \in Nat /\ m \in Nat /\ Len(es) \in Nat \ {0}
        /\ e.events \in Seq(Drafts) /\ e.admissions \in Seq(Record)
        /\ DOMAIN e.events = 1 .. n /\ DOMAIN e.admissions = 1 .. m
    BY EnvelopeFields
  <1>2. /\ g.contract = e.contract /\ g.writer = rec.writer
        /\ g.events = e.events \o es /\ g.admissions = Append(e.admissions, rec)
    BY DEF Grown
  <1>3. g \in Envelope
    <2>1. e.events \o es \in Seq(Drafts) /\ Append(e.admissions, rec) \in Seq(Record)
      BY <1>1
    <2>2. rec.writer \in Writers /\ e.contract \in Contracts
      BY RecordFields, EnvelopeFields
    <2>. QED
      BY <2>1, <2>2 DEF Grown, Envelope
  <1>. HIDE DEF g, n, m
  <1>4. /\ Len(g.events) = n + Len(es) /\ DOMAIN g.events = 1 .. n + Len(es)
        /\ DOMAIN g.admissions = 1 .. m + 1
        /\ \A i \in 1 .. m : g.admissions[i] = e.admissions[i]
        /\ g.admissions[m + 1] = rec
    BY <1>1, <1>2 DEF n, m
  <1>5. From(rec) = n /\ To(rec) = n + Len(es) /\ rec.ids # <<>>
    <2>1. rec.base.events = SubSeq(e.events, 1, n)
      BY DEF Prefix, n
    <2>2. Len(rec.ids) = Len(es)
      BY IdSeqType
    <2>. QED
      BY <1>1, <2>1, <2>2 DEF From, To
  <1>6. ASSUME NEW i \in 1 .. m
        PROVE  e.admissions[i] \in Record /\ TidyRecord(e, e.admissions[i])
    BY <1>1 DEF Tidy, RecordsTidy
  <1>7. RecordsTidy(g)
    <2>1. IsPrefix(e.events, g.events)
      BY <1>1, <1>2, PrefixOfAppend
    <2>2. ASSUME NEW i \in 1 .. m
          PROVE  TidyRecord(g, g.admissions[i])
      BY <1>2, <1>3, <1>4, <1>6, <2>1, TidyRecordKept
    <2>3. TidyRecord(g, rec)
      <3>1. SubSeq(g.events, n + 1, n + Len(es)) = es
        BY <1>1, <1>2, BackOfConcat DEF n
      <3>2. SubSeq(g.events, 1, n) = SubSeq(e.events, 1, n)
        BY <1>1, <1>2, FrontOfConcat DEF n
      <3>3. rec.base = Prefix(g, n)
        BY <1>2, <3>2 DEF Prefix, n
      <3>. QED
        <4>1. SubSeq(g.events, From(rec) + 1, To(rec)) = es
          BY <1>5, <3>1
        <4>2. To(rec) =< Len(g.events)
          BY <1>1, <1>4, <1>5
        <4>3. rec.base = Prefix(g, From(rec))
          BY <1>5, <3>3
        <4>. QED
          BY <1>5, <4>1, <4>2, <4>3 DEF TidyRecord
    <2>. QED
      BY <1>1, <1>4, <2>2, <2>3 DEF RecordsTidy
  <1>8. RecordsDisjoint(g)
    <2>1. ASSUME NEW i \in 1 .. m + 1, NEW j \in 1 .. m + 1, i < j
          PROVE  To(g.admissions[i]) =< From(g.admissions[j])
      <3>1. i \in 1 .. m
        BY <1>1, <2>1
      <3>2. CASE j \in 1 .. m
        BY <1>1, <1>4, <2>1, <3>1, <3>2 DEF Tidy, RecordsDisjoint
      <3>3. CASE j = m + 1
        BY <1>4, <1>5, <1>6, <3>1, <3>3 DEF TidyRecord, n
      <3>. QED
        BY <1>1, <3>2, <3>3
    <2>. QED
      BY <1>4, <2>1 DEF RecordsDisjoint
  <1>9. EventsListed(g)
    <2>1. ASSUME NEW k \in 1 .. n
          PROVE  \E i \in 1 .. m + 1 : k \in From(g.admissions[i]) + 1 .. To(g.admissions[i])
      <3>1. PICK i \in 1 .. m : k \in From(e.admissions[i]) + 1 .. To(e.admissions[i])
        BY <1>1 DEF Tidy, EventsListed
      <3>. QED
        BY <1>1, <1>4, <3>1
    <2>2. ASSUME NEW k \in n + 1 .. n + Len(es)
          PROVE  \E i \in 1 .. m + 1 : k \in From(g.admissions[i]) + 1 .. To(g.admissions[i])
      BY <1>1, <1>4, <1>5
    <2>3. \A k \in 1 .. n + Len(es) : k \in 1 .. n \/ k \in n + 1 .. n + Len(es)
      BY <1>1
    <2>. QED
      BY <1>4, <2>1, <2>2, <2>3 DEF EventsListed
  <1>. QED
    BY <1>3, <1>7, <1>8, <1>9 DEF Tidy, g

----------------------------------------------------------------------------
(* What a call writes is in order                                          *)

LEMMA GrownReadable ==
    ASSUME NEW e \in Envelope, NEW es \in Seq(Drafts), NEW rec \in Record,
           Grown(e, es, rec) \in Envelope, Covered(Grown(e, es, rec)),
           UniqueIds(e.events \o es), WithinLimits(e.events \o es)
    PROVE  Readable(Grown(e, es, rec))
  <1> DEFINE g == Grown(e, es, rec)
  <1>1. g.events = e.events \o es /\ g.admissions = Append(e.admissions, rec)
        /\ g.writer = rec.writer
    BY DEF Grown
  <1>2. e.admissions \in Seq(Record)
    BY EnvelopeFields
  <1>. HIDE DEF g
  <1>3. Last(g.admissions) = rec
    BY <1>1, <1>2 DEF Last
  <1>4. g # Torn
    BY StoreConstants DEF g
  <1>. QED
    BY <1>1, <1>3, <1>4 DEF Readable, g

LEMMA UniqueAppend ==
    ASSUME NEW e \in Envelope, UniqueIds(e.events), NEW d \in Drafts, ~IdTaken(e, d.id)
    PROVE  UniqueIds(e.events \o <<d>>)
  <1> DEFINE s == e.events
             t == s \o <<d>>
  <1>1. s \in Seq(Drafts) /\ Len(s) \in Nat /\ DOMAIN s = 1 .. Len(s)
    BY EnvelopeFields
  <1>2. /\ DOMAIN t = 1 .. Len(s) + 1
        /\ t[Len(s) + 1] = d
        /\ \A i \in 1 .. Len(s) : t[i] = s[i]
    BY <1>1
  <1>3. \A i \in 1 .. Len(s) : s[i].id # d.id
    BY <1>1 DEF IdTaken
  <1>4. \A i, j \in 1 .. Len(s) : s[i].id = s[j].id => i = j
    BY <1>1 DEF UniqueIds
  <1>. HIDE DEF s, t
  <1>5. ASSUME NEW i \in 1 .. Len(s) + 1, NEW j \in 1 .. Len(s) + 1, t[i].id = t[j].id
        PROVE  i = j
    <2>1. CASE i \in 1 .. Len(s) /\ j \in 1 .. Len(s)
      BY <1>2, <1>4, <1>5, <2>1
    <2>2. CASE i = Len(s) + 1 \/ j = Len(s) + 1
      <3>1. t[i].id = d.id /\ t[j].id = d.id
        BY <1>2, <1>5, <2>2
      <3>2. i \notin 1 .. Len(s) /\ j \notin 1 .. Len(s)
        BY <1>2, <1>3, <3>1
      <3>. QED
        BY <1>1, <3>2
    <2>. QED
      BY <1>1, <2>1, <2>2
  <1>. QED
    BY <1>2, <1>5 DEF UniqueIds, s, t

LEMMA DirectIsGrown ==
    ASSUME NEW e \in Envelope, NEW q \in AppendRequest, NEW p \in Writers
    PROVE  LET rec == DirectRecord(e, Len(e.events), q.draft.id, q.decision, p)
           IN /\ WithDirect(e, q, p) = Grown(e, <<q.draft>>, rec)
              /\ rec \in Record
              /\ <<q.draft>> \in Seq(Drafts) /\ <<q.draft>> # <<>>
              /\ rec.base = Prefix(e, Len(e.events))
              /\ rec.ids = IdSeq(<<q.draft>>)
              /\ rec.proposal = NoProposal /\ rec.kind = "direct-event"
              /\ Append(e.events, q.draft) = e.events \o <<q.draft>>
  <1> DEFINE rec == DirectRecord(e, Len(e.events), q.draft.id, q.decision, p)
  <1>1. e.events \in Seq(Drafts) /\ Len(e.events) \in Nat /\ q.draft \in Drafts
        /\ q.decision \in Decisions
    BY EnvelopeFields DEF AppendRequest
  <1>2. Append(e.events, q.draft) = e.events \o <<q.draft>>
    BY <1>1
  <1>3. rec \in Record
    <2>1. Prefix(e, Len(e.events)) \in Run
      BY <1>1, PrefixType
    <2>2. <<q.draft.id>> \in Seq({d.id : d \in Drafts})
      BY <1>1
    <2>. QED
      BY <1>1, <2>1, <2>2 DEF DirectRecord, Record
  <1>4. rec.ids = IdSeq(<<q.draft>>)
    BY DEF DirectRecord, IdSeq
  <1>5. rec.writer = p
    BY DEF DirectRecord
  <1>6. WithDirect(e, q, p) = Grown(e, <<q.draft>>, rec)
    BY <1>2, <1>5 DEF WithDirect, Grown
  <1>. QED
    BY <1>1, <1>2, <1>3, <1>4, <1>6 DEF DirectRecord

LEMMA BatchIsGrown ==
    ASSUME NEW e \in Envelope, NEW q \in AdmitRequest, NEW p \in Writers, BatchFits(e, q)
    PROVE  LET rec == BatchRecord(e, Len(q.base.events), q.proposal, q.decision, p)
               es == CompiledEvents[q.proposal]
           IN /\ WithBatch(e, q, p) = Grown(e, es, rec)
              /\ rec \in Record
              /\ es \in Seq(Drafts)
              /\ rec.base = Prefix(e, Len(e.events))
              /\ rec.ids = IdSeq(es)
              /\ rec.kind = "model-proposal"
              /\ q.base.events = e.events
  <1> DEFINE rec == BatchRecord(e, Len(q.base.events), q.proposal, q.decision, p)
             es == CompiledEvents[q.proposal]
  <1>1. q.base.events = e.events
    BY DEF BatchFits, RunDigest
  <1>2. e.events \in Seq(Drafts) /\ Len(e.events) \in Nat /\ q.proposal \in Proposals
        /\ q.decision \in Decisions
    BY EnvelopeFields DEF AdmitRequest
  <1>3. es \in Seq(Drafts)
    BY <1>2, RunConstants
  <1>4. rec \in Record
    <2>1. Prefix(e, Len(q.base.events)) \in Run
      BY <1>1, <1>2, PrefixType
    <2>2. IdSeq(es) \in Seq({d.id : d \in Drafts})
      BY <1>3, IdSeqType
    <2>. QED
      BY <1>2, <2>1, <2>2 DEF BatchRecord, Record
  <1>. QED
    BY <1>1, <1>3, <1>4 DEF BatchRecord, WithBatch, Grown

LEMMA DirectContent ==
    ASSUME NEW e, Content(e), NEW q \in AppendRequest, NEW p \in Writers, ~IdTaken(e, q.draft.id),
           WithinLimits(Append(e.events, q.draft)), Covered(WithDirect(e, q, p))
    PROVE  Content(WithDirect(e, q, p))
  <1> DEFINE rec == DirectRecord(e, Len(e.events), q.draft.id, q.decision, p)
             g == Grown(e, <<q.draft>>, rec)
  <1>1. e \in Envelope /\ Tidy(e) /\ UniqueIds(e.events)
    BY DEF Content, Readable
  <1>2. /\ WithDirect(e, q, p) = g
        /\ rec \in Record
        /\ <<q.draft>> \in Seq(Drafts) /\ <<q.draft>> # <<>>
        /\ rec.base = Prefix(e, Len(e.events))
        /\ rec.ids = IdSeq(<<q.draft>>)
        /\ rec.proposal = NoProposal
        /\ Append(e.events, q.draft) = e.events \o <<q.draft>>
    BY <1>1, DirectIsGrown
  <1>. HIDE DEF rec
  <1>3. g \in Envelope /\ Tidy(g)
    BY <1>1, <1>2, GrownTidy
  <1>4. UniqueIds(e.events \o <<q.draft>>)
    BY <1>1, UniqueAppend DEF AppendRequest
  <1>5. Readable(g)
    BY <1>1, <1>2, <1>3, <1>4, GrownReadable
  <1>. QED
    BY <1>2, <1>3, <1>5 DEF Content

LEMMA BatchContent ==
    ASSUME NEW e, Content(e), NEW q \in AdmitRequest, NEW p \in Writers, BatchFits(e, q),
           CompiledEvents[q.proposal] # <<>>,
           UniqueIds(q.base.events \o CompiledEvents[q.proposal]),
           WithinLimits(e.events \o CompiledEvents[q.proposal]), Covered(WithBatch(e, q, p))
    PROVE  Content(WithBatch(e, q, p))
  <1> DEFINE rec == BatchRecord(e, Len(q.base.events), q.proposal, q.decision, p)
             es == CompiledEvents[q.proposal]
             g == Grown(e, es, rec)
  <1>1. e \in Envelope /\ Tidy(e)
    BY DEF Content
  <1>2. /\ WithBatch(e, q, p) = g
        /\ rec \in Record
        /\ es \in Seq(Drafts)
        /\ rec.base = Prefix(e, Len(e.events))
        /\ rec.ids = IdSeq(es)
        /\ rec.kind = "model-proposal"
        /\ q.base.events = e.events
    BY <1>1, BatchIsGrown
  <1>. HIDE DEF rec, es
  <1>3. es # <<>> /\ UniqueIds(e.events \o es) /\ WithinLimits(e.events \o es)
    BY <1>2 DEF es
  <1>4. g \in Envelope /\ Tidy(g)
    BY <1>1, <1>2, <1>3, GrownTidy
  <1>5. Readable(g)
    BY <1>1, <1>2, <1>3, <1>4, GrownReadable
  <1>. QED
    BY <1>2, <1>4, <1>5 DEF Content

LEMMA EmptyContent ==
    ASSUME NEW k \in Contracts, NEW p \in Writers
    PROVE  Content(EmptyEnvelope(k, p))
  <1> DEFINE e == EmptyEnvelope(k, p)
  <1>1. e \in Envelope /\ e # Torn
    BY EmptyEnvelopeType, StoreConstants
  <1>2. e.events = <<>> /\ e.admissions = <<>>
    BY DEF EmptyEnvelope
  <1>. HIDE DEF e
  <1>3. Readable(e)
    BY <1>1, <1>2, RunConstants DEF Readable, UniqueIds, WithinLimits, Covered, CoveredTo
  <1>4. Tidy(e)
    BY <1>2 DEF Tidy, RecordsTidy, RecordsDisjoint, EventsListed
  <1>. QED
    BY <1>1, <1>3, <1>4 DEF Content, e

----------------------------------------------------------------------------
(* Every run file parses                                                   *)

\* Whatever a reader, or a restart after a power loss, finds.
FilesInOrder == \A r \in Runs : \A e \in survivors[r] \cup {file[r]} : e = NoRun \/ Content(e)

WritesInOrder == \A p \in Procs : call[p].pc \in {"write", "rename"} => Content(call[p].new)

\* An admission that has passed the preview: its batch repeats no event ID, not its own either.
Reviewed ==
    \A p \in Procs :
        call[p].pc \in {"lock", "load"} /\ Of(p).kind = "admit" =>
            UniqueIds(Of(p).base.events \o CompiledEvents[Of(p).proposal])

\* What becomes of the run files and of what a power loss may leave of them.
LEMMA FilesChange ==
    ASSUME NEW p \in Procs, Begin(p) \/ Step(p) \/ Failure(p)
    PROVE  \/ UNCHANGED <<file, survivors>>
           \/ RenameTemporary(p)
           \/ At(p, "dirsync") /\ UNCHANGED file /\ NamesOnDisk
  BY DEF Begin, Step, Failure, StartCreate, StartAppend, StartAdmit, StartRead, Start,
         Lstat, Open, TakeCatalogLock, TakeRunLock, LoadCreate, LoadAppend, LoadAdmit,
         WriteTemporary, SyncDirectory, ReleaseRunLock, ReleaseCatalogLock,
         Reply, TakeLockFails, LoadFails, PersistFails, CleanupFails, ReleaseFails, Crash

\* A call passes from its unlocked read to the lock only by its preview.
LEMMA OpenToLock ==
    ASSUME TypeOK, NEW p \in Procs, Step(p) \/ Failure(p), At(p, "open"), call'[p].pc = "lock"
    PROVE  UniqueIds(Of(p).base.events \o CompiledEvents[Of(p).proposal])
  <1>1. Open(p) \/ Crash(p)
    BY DEF Step, Failure, At, Lstat, TakeCatalogLock, TakeRunLock, LoadCreate, LoadAppend,
           LoadAdmit, WriteTemporary, RenameTemporary, SyncDirectory, ReleaseRunLock,
           ReleaseCatalogLock, Reply, TakeLockFails, LoadFails, PersistFails, CleanupFails,
           ReleaseFails
  <1>2. ~Crash(p)
    BY DEF Crash, Idle, TypeOK
  <1> DEFINE q == Of(p)
             readable == file[q.run] = call[p].cur /\ Readable(file[q.run])
             status == IF ~readable THEN "corrupt"
                       ELSE IF q.kind = "read" THEN "found"
                       ELSE PreviewStatus(file[q.run], q)
  <1>3. Finish(p, IF status = "none" THEN "lock" ELSE "reply", status)
    BY <1>1, <1>2 DEF Open
  <1>4. status = "none"
    <2>. HIDE DEF status
    <2>. QED
      BY <1>3, FinishCall
  <1>5. PreviewStatus(file[q.run], q) = "none"
    <2>. HIDE DEF readable
    <2>. QED
      BY <1>4
  <1>. QED
    BY <1>5 DEF PreviewStatus

\* An admission starts with its unlocked read.
LEMMA BeginAdmit ==
    ASSUME TypeOK, NEW p \in Procs, Begin(p), call'[p].req.kind = "admit"
    PROVE  call'[p].pc = "lstat"
  <1>1. {"catalog", "lock", "lstat"} \subseteq Pc
    BY DEF Pc
  <1>2. CASE StartCreate(p)
    <2>1. PICK q \in CreateRequest : Start(p, "catalog", q)
      BY <1>2 DEF StartCreate
    <2>2. q \in Request /\ q.kind # "admit"
      BY DEF Request, CreateRequest
    <2>. QED
      BY <1>1, <2>1, <2>2, StartCall
  <1>3. CASE StartAppend(p)
    <2>1. PICK r \in Runs, d \in Drafts, a \in Decisions, b \in Run :
            Start(p, "lock", [kind |-> "append", run |-> r, draft |-> d, base |-> b,
                              decision |-> a])
      BY <1>3, BasesType DEF StartAppend
    <2> DEFINE q == [kind |-> "append", run |-> r, draft |-> d, base |-> b, decision |-> a]
    <2>2. q \in Request /\ q.kind = "append"
      BY <2>1 DEF Request, AppendRequest
    <2>. HIDE DEF q
    <2>3. Start(p, "lock", q)
      BY <2>1 DEF q
    <2>. QED
      BY <1>1, <2>2, <2>3, StartCall
  <1>4. CASE StartAdmit(p)
    <2>1. PICK r \in Runs, m \in Proposals, n \in Proposals, a \in Decisions, b \in Run :
            Start(p, "lstat", [kind |-> "admit", run |-> r, proposal |-> m, reviewed |-> n,
                               base |-> b, decision |-> a])
      BY <1>4, BasesType DEF StartAdmit
    <2> DEFINE q == [kind |-> "admit", run |-> r, proposal |-> m, reviewed |-> n, base |-> b,
                     decision |-> a]
    <2>2. q \in Request
      BY <2>1 DEF Request, AdmitRequest
    <2>. HIDE DEF q
    <2>3. Start(p, "lstat", q)
      BY <2>1 DEF q
    <2>. QED
      BY <1>1, <2>2, <2>3, StartCall
  <1>5. CASE StartRead(p)
    <2>1. PICK q \in ReadRequest : Start(p, "lstat", q)
      BY <1>5 DEF StartRead
    <2>. QED
      BY <1>1, <2>1, StartCall DEF Start, Request, ReadRequest
  <1>. QED
    BY <1>2, <1>3, <1>4, <1>5 DEF Begin

\* From where a call comes to the lock of its run, and to the load under it.
LEMMA ToLoad ==
    ASSUME TypeOK, NEW p \in Procs, Step(p) \/ Failure(p), Hop(p), call'[p].pc \in {"lock", "load"}
    PROVE  \/ call[p].pc \in {"open", "catalog"} /\ call'[p].pc = "lock"
           \/ call[p].pc = "lock" /\ call'[p].pc = "load"
  <1>1. CASE call[p].pc \in HoldingRun
    <2>1. \/ LoadCreate(p) \/ LoadAppend(p) \/ LoadAdmit(p) \/ WriteTemporary(p)
          \/ RenameTemporary(p) \/ SyncDirectory(p) \/ ReleaseRunLock(p)
          \/ LoadFails(p) \/ PersistFails(p) \/ CleanupFails(p) \/ ReleaseFails(p) \/ Crash(p)
      BY <1>1 DEF Step, Failure, HoldingRun, At, Lstat, Open, TakeCatalogLock, TakeRunLock,
                  ReleaseCatalogLock, Reply, TakeLockFails
    <2>2. AfterRunLock(p) \in Pc /\ AfterRunLock(p) \in {"releaseCatalog", "reply"}
      BY DEF Pc, AfterRunLock
    <2>3. CASE WriteTemporary(p) \/ RenameTemporary(p) \/ Crash(p)
      BY <2>3 DEF WriteTemporary, RenameTemporary, Crash, Idle, TypeOK, Call
    <2>4. CASE LoadCreate(p) \/ LoadAppend(p) \/ LoadAdmit(p)
      BY <2>4, LoadExtends
    <2>5. CASE \/ SyncDirectory(p) \/ ReleaseRunLock(p) \/ LoadFails(p) \/ PersistFails(p)
               \/ CleanupFails(p) \/ ReleaseFails(p)
      BY <2>2, <2>5, FinishCall, GotoCall
      DEF SyncDirectory, ReleaseRunLock, LoadFails, PersistFails, CleanupFails, ReleaseFails, Answer
    <2>. QED
      BY <2>1, <2>3, <2>4, <2>5
  <1>2. CASE call[p].pc \notin HoldingRun
    BY <1>2 DEF Hop, AfterRunLock
  <1>. QED
    BY <1>1, <1>2

LEMMA ReviewedCorrect == Spec => []Reviewed
  <1>1. Init => Reviewed
    BY DEF Init, Reviewed, Idle
  <1>2. ASSUME TypeOK, Paths, Reviewed, [Next]_vars
        PROVE  Reviewed'
    <2>1. ASSUME NEW p \in Procs, Begin(p) \/ Step(p) \/ Failure(p)
          PROVE  Reviewed'
      <3>1. \A q \in Procs \ {p} : call'[q] = call[q]
        BY <1>2, <2>1, OthersCalls
      <3>2. call'[p].pc \in {"lock", "load"} /\ call'[p].req.kind = "admit" =>
              UniqueIds(call'[p].req.base.events \o CompiledEvents[call'[p].req.proposal])
        <4>1. CASE Begin(p)
          BY <1>2, <4>1, BeginAdmit, BeginPath
        <4>2. CASE Hop(p) /\ (Step(p) \/ Failure(p))
          <5>1. CASE call[p].pc = "open" /\ call'[p].pc = "lock"
            BY <1>2, <4>2, <5>1, OpenToLock DEF Hop, Of, At
          <5>2. CASE call[p].pc = "catalog" /\ call'[p].pc = "lock"
            BY <1>2, <4>2, <5>2 DEF Hop, Paths, Creating, Of
          <5>3. CASE call[p].pc = "lock" /\ call'[p].pc = "load"
            BY <1>2, <4>2, <5>3 DEF Hop, Reviewed, Of
          <5>. QED
            BY <1>2, <4>2, <5>1, <5>2, <5>3, ToLoad
        <4>3. CASE call'[p] = Idle
          BY <4>3 DEF Idle
        <4>. QED
          BY <1>2, <2>1, <4>1, <4>2, <4>3, StepPath
      <3>. QED
        BY <1>2, <3>1, <3>2 DEF Reviewed, Of
    <2>2. ASSUME PowerLoss
          PROVE  Reviewed'
      BY <2>2, PowerLossCalls DEF Reviewed, Idle
    <2>3. ASSUME UNCHANGED call
          PROVE  Reviewed'
      BY <1>2, <2>3 DEF Reviewed, Of
    <2>. QED
      BY <1>2, <2>1, <2>2, <2>3 DEF Next, RemoveStaleLock, vars
  <1>. QED
    BY <1>1, <1>2, TypeCorrect, PathsCorrect, PTL DEF Spec

----------------------------------------------------------------------------
(* What an effect is, and what keeps it                                    *)

\* Two tidy records that list one event ID are the same record, so the search for the record
\* of an ID finds the one that covers its event.
LEMMA AdmissionAt ==
    ASSUME NEW e, Content(e), NEW k \in DOMAIN e.events, NEW i \in DOMAIN e.admissions,
           k \in From(e.admissions[i]) + 1 .. To(e.admissions[i])
    PROVE  AdmissionOf(e, e.events[k].id) = e.admissions[i]
  <1> DEFINE id == e.events[k].id
             lists(j) == id \in Range(e.admissions[j].ids)
  <1>1. /\ e \in Envelope /\ UniqueIds(e.events) /\ RecordsTidy(e) /\ RecordsDisjoint(e)
        /\ Len(e.events) \in Nat /\ DOMAIN e.events = 1 .. Len(e.events)
        /\ Len(e.admissions) \in Nat /\ DOMAIN e.admissions = 1 .. Len(e.admissions)
        /\ e.events \in Seq(Drafts)
    BY EnvelopeFields DEF Content, Readable, Tidy
  <1>2. ASSUME NEW j \in DOMAIN e.admissions
        PROVE  lists(j) <=> k \in From(e.admissions[j]) + 1 .. To(e.admissions[j])
    <2> DEFINE a == e.admissions[j]
    <2>1. a \in Record /\ TidyRecord(e, a)
      BY <1>1, RecordIn DEF RecordsTidy
    <2>2. /\ From(a) \in Nat /\ Len(a.ids) \in Nat /\ To(a) \in Nat
          /\ To(a) = From(a) + Len(a.ids) /\ To(a) =< Len(e.events)
      BY <2>1, RecordSpan DEF TidyRecord
    <2>3. a.ids = IdSeq(SubSeq(e.events, From(a) + 1, To(a))) /\ a.ids \in Seq({d.id : d \in Drafts})
      BY <2>1, RecordFields DEF TidyRecord
    <2>. HIDE DEF a
    <2>4. /\ DOMAIN a.ids = 1 .. Len(a.ids)
          /\ \A n \in 1 .. Len(a.ids) : From(a) + n \in DOMAIN e.events
      BY <1>1, <2>2, <2>3
    <2>5. From(a) =< To(a) /\ To(a) - From(a) = Len(a.ids)
      BY <2>2
    <2>6. \A n \in 1 .. Len(a.ids) : a.ids[n] = e.events[From(a) + n].id
      <3> DEFINE s == SubSeq(e.events, From(a) + 1, To(a))
      <3>1. DOMAIN s = 1 .. Len(a.ids) /\ \A n \in 1 .. Len(a.ids) : s[n] = e.events[From(a) + n]
        <4> DEFINE m == From(a)
                   n == To(a)
        <4>1. e.events \in Seq(Drafts) /\ m \in Nat /\ n \in Nat /\ m =< n /\ n =< Len(e.events)
          BY <1>1, <2>2, <2>5
        <4>2. n - m = Len(a.ids)
          BY <2>5
        <4>. HIDE DEF m, n
        <4>3. /\ DOMAIN SubSeq(e.events, m + 1, n) = 1 .. n - m
              /\ \A x \in 1 .. n - m : SubSeq(e.events, m + 1, n)[x] = e.events[m + x]
          BY <4>1, PartOf
        <4>. QED
          BY <4>2, <4>3 DEF m, n
      <3>. HIDE DEF s
      <3>2. IdSeq(s) = a.ids
        BY <2>3 DEF s
      <3>. QED
        BY <3>1, <3>2 DEF IdSeq
    <2>7. id \in Range(a.ids) <=> \E n \in 1 .. Len(a.ids) : a.ids[n] = id
      BY <2>4 DEF Range
    <2>8. \A n \in 1 .. Len(a.ids) : a.ids[n] = id <=> From(a) + n = k
      BY <1>1, <2>4, <2>6 DEF UniqueIds
    <2>9. (\E n \in 1 .. Len(a.ids) : From(a) + n = k) <=> k \in From(a) + 1 .. To(a)
      <3>1. k \in Nat
        BY <1>1
      <3>2. ASSUME k \in From(a) + 1 .. To(a)
            PROVE  \E n \in 1 .. Len(a.ids) : From(a) + n = k
        <4>1. k - From(a) \in 1 .. Len(a.ids) /\ From(a) + (k - From(a)) = k
          BY <2>2, <3>1, <3>2
        <4>. QED
          BY <4>1
      <3>. QED
        BY <2>2, <3>1, <3>2
    <2>. QED
      BY <2>7, <2>8, <2>9 DEF a
  <1>3. ASSUME NEW j \in DOMAIN e.admissions, lists(j)
        PROVE  j = i
    <2>1. k \in From(e.admissions[j]) + 1 .. To(e.admissions[j])
      BY <1>2, <1>3
    <2>2. From(e.admissions[i]) \in Nat /\ To(e.admissions[i]) \in Nat
      BY <1>1, RecordIn, RecordSpan
    <2>3. From(e.admissions[j]) \in Nat /\ To(e.admissions[j]) \in Nat
      BY <1>1, RecordIn, RecordSpan
    <2>4. ~(i < j) /\ ~(j < i)
      BY <1>1, <2>1, <2>2, <2>3 DEF RecordsDisjoint
    <2>. QED
      BY <1>1, <2>4
  <1>4. lists(i)
    BY <1>2
  <1>. HIDE DEF lists
  <1>5. \A j \in 1 .. i - 1 : ~lists(j)
    BY <1>1, <1>3
  <1>6. (CHOOSE j \in DOMAIN e.admissions : lists(j) /\ \A n \in 1 .. j - 1 : ~lists(n)) = i
    BY <1>3, <1>4, <1>5
  <1>. QED
    BY <1>6 DEF AdmissionOf, lists

\* The effect of a request stays in a run that grows.
LEMMA EffectKept ==
    ASSUME NEW e, Content(e), NEW g \in Envelope, Extends(e, g), NEW q, Effect(e, q)
    PROVE  Effect(g, q)
  <1>1. /\ e \in Envelope /\ e # NoRun /\ g \notin {NoRun, Torn}
        /\ RecordsTidy(e)
    BY StoreConstants DEF Content, Tidy
  <1>2. /\ g.contract = e.contract
        /\ IsPrefix(e.events, g.events) /\ IsPrefix(e.admissions, g.admissions)
    BY <1>1 DEF Extends
  <1>3. /\ e.events \in Seq(Drafts) /\ Len(e.events) \in Nat /\ g.events \in Seq(Drafts)
        /\ e.admissions \in Seq(Record) /\ g.admissions \in Seq(Record)
    BY <1>1, EnvelopeFields
  <1>4. CASE q.kind = "create" /\ e.contract = q.contract
    BY <1>1, <1>2, <1>4 DEF Effect
  <1>5. CASE q.kind \in {"append", "admit"}
    <2>1. PICK i \in DOMAIN e.admissions :
            LET a == e.admissions[i]
                n == Len(a.base.events)
            IN /\ Records(a, q)
               /\ a.base = Prefix(e, n)
               /\ SubSeq(e.events, n + 1, n + Len(a.ids)) = Asked(q)
      BY <1>5 DEF Effect
    <2> DEFINE a == e.admissions[i]
    <2>2. i \in DOMAIN g.admissions /\ g.admissions[i] = a
      <3>1. \A j \in DOMAIN e.admissions :
              j \in DOMAIN g.admissions /\ g.admissions[j] = e.admissions[j]
        <4>1. 1 \in 1 .. Len(e.admissions) + 1 /\ 0 \in 0 .. Len(e.admissions)
          BY <1>3
        <4>. QED
          BY <1>2, <1>3, <4>1, InPrefix
      <3>. QED
        BY <3>1
    <2>3. a \in Record /\ TidyRecord(e, a)
      BY <1>1, RecordIn DEF RecordsTidy
    <2>4. From(a) = Len(a.base.events) /\ To(a) = From(a) + Len(a.ids)
      BY DEF From, To
    <2>5. /\ Records(a, q) /\ a.base = Prefix(e, From(a))
          /\ SubSeq(e.events, From(a) + 1, To(a)) = Asked(q)
      BY <2>1, <2>4
    <2>. HIDE DEF a
    <2>6. TidyRecord(g, a)
      BY <1>1, <1>2, <2>3, TidyRecordKept
    <2>7. SubSeq(g.events, From(a) + 1, To(a)) = SubSeq(e.events, From(a) + 1, To(a))
      <3>1. From(a) + 1 \in 1 .. Len(e.events) + 1 /\ To(a) \in 0 .. Len(e.events)
        <4>1. From(a) \in Nat /\ To(a) \in Nat /\ From(a) =< To(a) /\ To(a) =< Len(e.events)
          BY <2>3, RecordSpan DEF TidyRecord
        <4>. QED
          BY <1>3, <4>1
      <3>2. \A m \in 1 .. Len(e.events) + 1, n \in 0 .. Len(e.events) :
              SubSeq(g.events, m, n) = SubSeq(e.events, m, n)
        BY <1>2, <1>3, InPrefix
      <3>. QED
        BY <3>1, <3>2
    <2>8. a.base = Prefix(g, From(a))
      BY <2>6 DEF TidyRecord
    <2>9. /\ Records(g.admissions[i], q)
          /\ g.admissions[i].base = Prefix(g, Len(g.admissions[i].base.events))
          /\ SubSeq(g.events, Len(g.admissions[i].base.events) + 1,
                    Len(g.admissions[i].base.events) + Len(g.admissions[i].ids)) = Asked(q)
      BY <2>2, <2>4, <2>5, <2>7, <2>8
    <2>. QED
      BY <1>1, <1>5, <2>2, <2>9 DEF Effect
  <1>. QED
    BY <1>4, <1>5 DEF Effect

\* A stream and the one record that a request adds to it hold the request's effect.
LEMMA GrownEffect ==
    ASSUME NEW e \in Envelope, NEW q, q.kind \in {"append", "admit"}, Asked(q) \in Seq(Drafts),
           NEW rec \in Record, rec.base = Prefix(e, Len(e.events)), rec.ids = IdSeq(Asked(q)),
           Records(rec, q), Grown(e, Asked(q), rec) \in Envelope
    PROVE  Effect(Grown(e, Asked(q), rec), q)
  <1> DEFINE es == Asked(q)
             g == Grown(e, es, rec)
             n == Len(e.events)
             m == Len(e.admissions)
  <1>1. /\ n \in Nat /\ m \in Nat /\ e.events \in Seq(Drafts) /\ e.admissions \in Seq(Record)
        /\ es \in Seq(Drafts) /\ Len(rec.ids) = Len(es)
    BY EnvelopeFields, IdSeqType
  <1>2. /\ g.events = e.events \o es /\ g.admissions = Append(e.admissions, rec)
        /\ g.contract = e.contract
    BY DEF Grown
  <1>3. g \notin {NoRun, Torn}
    BY StoreConstants
  <1>. HIDE DEF g, es
  <1>4. m + 1 \in DOMAIN g.admissions /\ g.admissions[m + 1] = rec
    BY <1>1, <1>2
  <1>5. Len(rec.base.events) = n
    <2>1. rec.base.events = SubSeq(e.events, 1, n)
      BY DEF Prefix
    <2>. QED
      BY <1>1, <2>1
  <1>6. rec.base = Prefix(g, n)
    <2>1. SubSeq(g.events, 1, n) = SubSeq(e.events, 1, n)
      <3>1. 1 \in 1 .. Len(e.events) + 1 /\ n \in 0 .. Len(e.events)
        BY <1>1
      <3>. QED
        BY <1>1, <1>2, <3>1, FrontOfConcat
    <2>. QED
      BY <1>2, <2>1 DEF Prefix
  <1>7. SubSeq(g.events, n + 1, n + Len(rec.ids)) = Asked(q)
    <2>1. SubSeq(e.events \o es, n + 1, n + Len(es)) = es
      BY <1>1, BackOfConcat
    <2>. QED
      BY <1>1, <1>2, <2>1 DEF es
  <1>. HIDE DEF n, m
  <1>8. Effect(g, q)
    BY <1>3, <1>4, <1>5, <1>6, <1>7 DEF Effect
  <1>. QED
    BY <1>8 DEF g, es

----------------------------------------------------------------------------
(* The retry tests find exactly the effects                                *)

\* A record of a readable file that says what q asked, and the events it covers.
EffectAt(e, q, i) ==
    LET a == e.admissions[i]
    IN /\ Records(a, q)
       /\ a.base = Prefix(e, From(a))
       /\ SubSeq(e.events, From(a) + 1, To(a)) = Asked(q)

LEMMA EffectByRecord ==
    ASSUME NEW e, e \notin {NoRun, Torn}, NEW q, q.kind \in {"append", "admit"}
    PROVE  Effect(e, q) <=> \E i \in DOMAIN e.admissions : EffectAt(e, q, i)
  BY DEF Effect, EffectAt, From, To

\* Where a record covers an event, it is the one the retry tests look up.
LEMMA RecordAt ==
    ASSUME NEW e, Content(e), NEW i \in DOMAIN e.admissions
    PROVE  LET a == e.admissions[i]
               k == From(a) + 1
           IN /\ a \in Record /\ TidyRecord(e, a)
              /\ k \in DOMAIN e.events /\ k - 1 = From(a)
              /\ AdmissionOf(e, e.events[k].id) = a
  <1> DEFINE a == e.admissions[i]
             k == From(a) + 1
  <1>1. e \in Envelope /\ RecordsTidy(e)
    BY DEF Content, Tidy
  <1>2. a \in Record /\ TidyRecord(e, a)
    BY <1>1, RecordIn DEF RecordsTidy
  <1>3. From(a) \in Nat /\ Len(a.ids) \in Nat \ {0} /\ To(a) = From(a) + Len(a.ids)
    <2>1. a.ids # <<>> /\ a.ids \in Seq({d.id : d \in Drafts})
      BY <1>2, RecordFields DEF TidyRecord
    <2>. QED
      BY <1>2, <2>1, RecordSpan
  <1>4. To(a) =< Len(e.events) /\ Len(e.events) \in Nat /\ DOMAIN e.events = 1 .. Len(e.events)
    BY <1>1, <1>2, EnvelopeFields DEF TidyRecord
  <1>5. k \in DOMAIN e.events /\ k \in From(a) + 1 .. To(a) /\ k - 1 = From(a)
    BY <1>3, <1>4
  <1>6. AdmissionOf(e, e.events[k].id) = a
    BY <1>5, AdmissionAt
  <1>. QED
    BY <1>2, <1>5, <1>6

\* The record of an event is one of the run's records, and covers the event.
LEMMA AdmissionFound ==
    ASSUME NEW e, Content(e), NEW k \in DOMAIN e.events
    PROVE  \E i \in DOMAIN e.admissions :
              /\ AdmissionOf(e, e.events[k].id) = e.admissions[i]
              /\ k \in From(e.admissions[i]) + 1 .. To(e.admissions[i])
  <1>1. PICK i \in DOMAIN e.admissions : k \in From(e.admissions[i]) + 1 .. To(e.admissions[i])
    BY DEF Content, Tidy, EventsListed
  <1>. QED
    BY <1>1, AdmissionAt

LEMMA PrefixLength ==
    ASSUME NEW e \in Envelope, NEW n \in 0 .. Len(e.events)
    PROVE  /\ Len(Prefix(e, n).events) = n
           /\ Prefix(e, n).contract = e.contract
           /\ Prefix(e, n).events = SubSeq(e.events, 1, n)
  <1>1. e.events \in Seq(Drafts) /\ Len(e.events) \in Nat
    BY EnvelopeFields
  <1>. QED
    BY <1>1 DEF Prefix

\* What append() takes for an exact retry has its effect in the run.
LEMMA DirectRetryTrue ==
    ASSUME NEW e, Content(e), NEW q \in AppendRequest, DirectRetry(e, q)
    PROVE  Effect(e, q)
  <1>1. /\ e \in Envelope /\ e \notin {NoRun, Torn} /\ e.events \in Seq(Drafts)
        /\ Len(e.events) \in Nat /\ DOMAIN e.events = 1 .. Len(e.events)
        /\ q.kind = "append"
    BY EnvelopeFields, StoreConstants DEF Content, AppendRequest
  <1>2. PICK k \in DOMAIN e.events :
          LET a == AdmissionOf(e, q.draft.id)
          IN /\ e.events[k] = q.draft
             /\ a = DirectRecord(e, k - 1, q.draft.id, q.decision, a.writer)
    BY DEF DirectRetry
  <1>3. PICK i \in DOMAIN e.admissions : AdmissionOf(e, e.events[k].id) = e.admissions[i]
    BY AdmissionFound
  <1> DEFINE a == e.admissions[i]
  <1>4. a = DirectRecord(e, k - 1, q.draft.id, q.decision, a.writer) /\ e.events[k] = q.draft
    BY <1>2, <1>3
  <1>. HIDE DEF a
  <1>5. k - 1 \in 0 .. Len(e.events) /\ k \in Nat
    BY <1>1
  <1>6. /\ a.base = Prefix(e, k - 1) /\ a.ids = <<q.draft.id>>
        /\ a.kind = "direct-event" /\ a.decision = q.decision
    BY <1>4 DEF DirectRecord
  <1>7. From(a) = k - 1 /\ To(a) = k
    <2>1. From(a) = k - 1 /\ Len(a.ids) = 1
      BY <1>1, <1>5, <1>6, PrefixLength DEF From
    <2>. QED
      BY <1>5, <2>1 DEF To
  <1>8. SubSeq(e.events, k, k) = <<q.draft>>
    BY <1>1, <1>4, OneOf
  <1>9. SubSeq(e.events, From(a) + 1, To(a)) = Asked(q)
    <2>1. From(a) + 1 = k
      BY <1>5, <1>7
    <2>. QED
      BY <1>1, <1>7, <1>8, <2>1 DEF Asked
  <1>10. Records(a, q)
    BY <1>1, <1>6 DEF Records
  <1>11. EffectAt(e, q, i)
    BY <1>6, <1>7, <1>9, <1>10 DEF EffectAt, a
  <1>. QED
    BY <1>1, <1>11, EffectByRecord

\* What admitVerifiedModelProposal() takes for an exact retry has its effect in the run.
LEMMA BatchRetryTrue ==
    ASSUME NEW e, Content(e), NEW q \in AdmitRequest, BatchRetry(e, q)
    PROVE  Effect(e, q)
  <1> DEFINE es == CompiledEvents[q.proposal]
             n == Len(q.base.events)
  <1>1. /\ e \in Envelope /\ e \notin {NoRun, Torn} /\ e.events \in Seq(Drafts)
        /\ Len(e.events) \in Nat /\ DOMAIN e.events = 1 .. Len(e.events)
        /\ q.kind = "admit" /\ q.proposal \in Proposals /\ q.base \in Run
    BY EnvelopeFields, StoreConstants DEF Content, AdmitRequest
  <1>2. es \in Seq(Drafts) /\ q.base.events \in Seq(Drafts) /\ n \in Nat /\ Len(es) \in Nat
    BY <1>1, RunConstants DEF Run
  <1>3. /\ es # <<>> /\ q.base.contract = e.contract
        /\ IsPrefix(q.base.events, e.events) /\ IsPrefix(q.base.events \o es, e.events)
        /\ LET a == AdmissionOf(e, es[1].id)
           IN a = BatchRecord(e, n, q.proposal, q.decision, a.writer)
    BY DEF BatchRetry, Bound
  <1>. HIDE DEF es, n
  <1>4. Len(es) >= 1 /\ n + Len(es) =< Len(e.events)
    <2>1. Len(q.base.events \o es) =< Len(e.events) /\ Len(q.base.events \o es) = n + Len(es)
      BY <1>2, <1>3 DEF IsPrefix, n
    <2>. QED
      BY <1>2, <1>3, <2>1
  <1>5. n + 1 \in DOMAIN e.events /\ n \in 0 .. Len(e.events)
    BY <1>1, <1>2, <1>4
  <1>6. SubSeq(e.events, n + 1, n + Len(es)) = es
    <2> DEFINE t == q.base.events \o es
    <2>1. t \in Seq(Drafts) /\ Len(t) = n + Len(es)
      BY <1>2 DEF n
    <2>2. SubSeq(t, n + 1, n + Len(es)) = es
      BY <1>2, BackOfConcat DEF n
    <2>3. IsPrefix(t, e.events)
      BY <1>3
    <2>. HIDE DEF t
    <2>4. n + 1 \in 1 .. Len(t) + 1 /\ n + Len(es) \in 0 .. Len(t)
      BY <1>2, <2>1
    <2>5. SubSeq(e.events, n + 1, n + Len(es)) = SubSeq(t, n + 1, n + Len(es))
      BY <1>1, <2>1, <2>3, <2>4, InPrefix
    <2>. QED
      BY <2>2, <2>5
  <1>7. e.events[n + 1] = es[1]
    <2> DEFINE s == SubSeq(e.events, n + 1, n + Len(es))
    <2>1. n + Len(es) \in Nat /\ n =< n + Len(es) /\ 1 \in 1 .. (n + Len(es)) - n
      BY <1>2, <1>4
    <2>2. s[1] = e.events[n + 1]
      BY <1>1, <1>2, <1>4, <2>1, PartOf
    <2>. QED
      BY <1>6, <2>2
  <1>8. q.base = Prefix(e, n)
    <2>1. q.base.events = SubSeq(e.events, 1, n)
      <3>1. SubSeq(q.base.events, 1, n) = q.base.events
        BY <1>2 DEF n
      <3>. QED
        BY <1>3, <3>1 DEF IsPrefix, n
    <2>2. q.base = [contract |-> q.base.contract, events |-> q.base.events]
      BY <1>1 DEF Run
    <2>. QED
      BY <1>3, <2>1, <2>2 DEF Prefix
  <1>9. PICK i \in DOMAIN e.admissions : AdmissionOf(e, e.events[n + 1].id) = e.admissions[i]
    BY <1>5, AdmissionFound
  <1> DEFINE a == e.admissions[i]
  <1>10. a = BatchRecord(e, n, q.proposal, q.decision, a.writer)
    BY <1>3, <1>7, <1>9
  <1>. HIDE DEF a
  <1>11. /\ a.base = Prefix(e, n) /\ a.ids = IdSeq(es) /\ a.kind = "model-proposal"
         /\ a.proposal = q.proposal /\ a.decision = q.decision
    BY <1>10 DEF BatchRecord, es
  <1>12. From(a) = n /\ To(a) = n + Len(es)
    <2>1. From(a) = n
      BY <1>1, <1>5, <1>11, PrefixLength DEF From
    <2>2. Len(a.ids) = Len(es)
      BY <1>2, <1>11, IdSeqType
    <2>. QED
      BY <2>1, <2>2 DEF To
  <1>13. Records(a, q)
    BY <1>1, <1>8, <1>11 DEF Records, es
  <1>14. SubSeq(e.events, From(a) + 1, To(a)) = Asked(q)
    BY <1>1, <1>6, <1>12 DEF Asked, es
  <1>15. EffectAt(e, q, i)
    BY <1>11, <1>12, <1>13, <1>14 DEF EffectAt, a
  <1>. QED
    BY <1>1, <1>15, EffectByRecord

\* append() takes for an exact retry whatever has its effect in the run.
LEMMA DirectRetryFound ==
    ASSUME NEW e, Content(e), NEW q \in AppendRequest, Effect(e, q)
    PROVE  IdTaken(e, q.draft.id) /\ DirectRetry(e, q)
  <1>1. /\ e \in Envelope /\ e \notin {NoRun, Torn} /\ e.events \in Seq(Drafts)
        /\ Len(e.events) \in Nat /\ DOMAIN e.events = 1 .. Len(e.events)
        /\ q.kind = "append"
    BY EnvelopeFields, StoreConstants DEF Content, AppendRequest
  <1>2. PICK i \in DOMAIN e.admissions : EffectAt(e, q, i)
    BY <1>1, EffectByRecord
  <1> DEFINE a == e.admissions[i]
             k == From(a) + 1
  <1>3. /\ a \in Record /\ TidyRecord(e, a)
        /\ k \in DOMAIN e.events /\ k - 1 = From(a)
        /\ AdmissionOf(e, e.events[k].id) = a
    BY RecordAt
  <1>4. /\ Records(a, q) /\ a.base = Prefix(e, From(a))
        /\ SubSeq(e.events, From(a) + 1, To(a)) = Asked(q)
    BY <1>2 DEF EffectAt
  <1>. HIDE DEF a
  <1>5. /\ a.decision = q.decision /\ a.kind = "direct-event" /\ a.ids = <<q.draft.id>>
        /\ a.proposal = NoProposal
    BY <1>1, <1>3, <1>4 DEF Records, TidyRecord
  <1>6. To(a) = k
    BY <1>5 DEF To
  <1>7. SubSeq(e.events, k, k) = <<e.events[k]>> /\ Asked(q) = <<q.draft>>
    BY <1>1, <1>3, OneOf DEF Asked
  <1>8. e.events[k] = q.draft
    BY <1>4, <1>6, <1>7
  <1>9. a = [kind |-> a.kind, base |-> a.base, ids |-> a.ids, proposal |-> a.proposal,
             decision |-> a.decision, writer |-> a.writer]
    BY <1>3, RecordFields
  <1>10. a.base = Prefix(e, k - 1)
    BY <1>3, <1>4
  <1>. HIDE DEF k
  <1>11. a = DirectRecord(e, k - 1, q.draft.id, q.decision, a.writer)
    BY <1>5, <1>9, <1>10 DEF DirectRecord
  <1>12. AdmissionOf(e, q.draft.id) = a
    BY <1>3, <1>8
  <1>. QED
    BY <1>3, <1>8, <1>11, <1>12 DEF DirectRetry, IdTaken

\* admitVerifiedModelProposal() takes for an exact retry whatever has its effect in the run.
LEMMA BatchRetryFound ==
    ASSUME NEW e, Content(e), NEW q \in AdmitRequest, Effect(e, q)
    PROVE  BatchRetry(e, q)
  <1> DEFINE es == CompiledEvents[q.proposal]
             n == Len(q.base.events)
  <1>1. /\ e \in Envelope /\ e \notin {NoRun, Torn} /\ e.events \in Seq(Drafts)
        /\ Len(e.events) \in Nat /\ DOMAIN e.events = 1 .. Len(e.events)
        /\ q.kind = "admit" /\ q.proposal \in Proposals /\ q.base \in Run
    BY EnvelopeFields, StoreConstants DEF Content, AdmitRequest
  <1>2. es \in Seq(Drafts) /\ q.base.events \in Seq(Drafts) /\ n \in Nat /\ Len(es) \in Nat
    BY <1>1, RunConstants DEF Run
  <1>3. PICK i \in DOMAIN e.admissions : EffectAt(e, q, i)
    BY <1>1, EffectByRecord
  <1> DEFINE a == e.admissions[i]
             k == From(a) + 1
  <1>4. /\ a \in Record /\ TidyRecord(e, a)
        /\ k \in DOMAIN e.events /\ k - 1 = From(a)
        /\ AdmissionOf(e, e.events[k].id) = a
    BY RecordAt
  <1>5. /\ Records(a, q) /\ a.base = Prefix(e, From(a))
        /\ SubSeq(e.events, From(a) + 1, To(a)) = Asked(q)
    BY <1>3 DEF EffectAt
  <1>. HIDE DEF a
  <1>6. /\ a.decision = q.decision /\ a.kind = "model-proposal" /\ a.ids = IdSeq(es)
        /\ a.proposal = q.proposal /\ a.base = q.base /\ Asked(q) = es
    BY <1>1, <1>5 DEF Records, Asked
  <1>7. From(a) = n /\ To(a) = n + Len(es)
    <2>1. Len(a.ids) = Len(es)
      BY <1>2, <1>6, IdSeqType
    <2>. QED
      BY <1>6, <2>1 DEF From, To
  <1>. HIDE DEF es, n
  <1>8. es # <<>>
    <2>1. a.ids # <<>> /\ a.ids \in Seq({d.id : d \in Drafts})
      BY <1>4, RecordFields DEF TidyRecord
    <2>2. Len(a.ids) # 0 /\ Len(a.ids) = Len(es)
      BY <1>2, <1>6, <2>1, IdSeqType
    <2>. QED
      BY <1>2, <2>2
  <1>9. n =< n + Len(es) /\ n + Len(es) =< Len(e.events) /\ n \in 0 .. Len(e.events)
    <2>1. n + Len(es) =< Len(e.events)
      BY <1>4, <1>7 DEF TidyRecord
    <2>2. n \in Nat /\ Len(es) \in Nat /\ Len(e.events) \in Nat
      BY <1>1, <1>2
    <2>. QED
      BY <2>1, <2>2
  <1>10. q.base.contract = e.contract /\ q.base.events = SubSeq(e.events, 1, n)
    <2>1. q.base = Prefix(e, n)
      BY <1>5, <1>6, <1>7
    <2>2. Prefix(e, n).contract = e.contract /\ Prefix(e, n).events = SubSeq(e.events, 1, n)
      BY <1>1, <1>9, PrefixLength
    <2>. QED
      BY <2>1, <2>2
  <1>11. SubSeq(e.events, n + 1, n + Len(es)) = es
    BY <1>5, <1>6, <1>7
  <1>12. IsPrefix(q.base.events, e.events)
    BY <1>2, <1>9, <1>10 DEF IsPrefix, n
  <1>13. IsPrefix(q.base.events \o es, e.events)
    <2>1. Len(q.base.events) = n
      BY DEF n
    <2>2. /\ Len(q.base.events) + Len(es) =< Len(e.events)
          /\ SubSeq(e.events, 1, Len(q.base.events)) = q.base.events
          /\ SubSeq(e.events, Len(q.base.events) + 1, Len(q.base.events) + Len(es)) = es
      BY <1>9, <1>10, <1>11, <2>1
    <2>. QED
      BY <1>1, <1>2, <2>2, PrefixOfParts
  <1>14. e.events[k].id = es[1].id
    <2>1. /\ n + Len(es) \in Nat /\ (n + Len(es)) - n = Len(es) /\ 1 \in 1 .. Len(es)
          /\ k = n + 1
      BY <1>2, <1>7, <1>8
    <2>2. SubSeq(e.events, n + 1, n + Len(es))[1] = e.events[n + 1]
      BY <1>1, <1>2, <1>9, <2>1, PartOf
    <2>. QED
      BY <1>11, <2>1, <2>2
  <1>15. a = [kind |-> a.kind, base |-> a.base, ids |-> a.ids, proposal |-> a.proposal,
              decision |-> a.decision, writer |-> a.writer]
    BY <1>4, RecordFields
  <1>16. a.base = Prefix(e, n)
    BY <1>5, <1>7
  <1>17. a = BatchRecord(e, n, q.proposal, q.decision, a.writer)
    BY <1>6, <1>15, <1>16 DEF BatchRecord, es
  <1>18. AdmissionOf(e, es[1].id) = a
    BY <1>4, <1>14
  <1>19. Bound(e, q.base)
    BY <1>10, <1>12 DEF Bound
  <1>. QED
    BY <1>8, <1>13, <1>17, <1>18, <1>19 DEF BatchRetry, es, n

----------------------------------------------------------------------------
(* What a call under the run lock decides                                  *)

\* n begins the run, or adds to it one record and the events it covers, at the tip.
Growth(e, n) ==
    \/ e = NoRun /\ n.events = <<>> /\ n.admissions = <<>>
    \/ /\ e \in Envelope
       /\ \E es \in Seq(Drafts), rec \in Record :
             /\ es # <<>> /\ rec.base = Prefix(e, Len(e.events)) /\ rec.ids = IdSeq(es)
             /\ n = Grown(e, es, rec)

\* c is call q after its load of e: it is about to write what it asked for, or has answered.
Decided(c, q, e) ==
    /\ c.req = q
    /\ \/ /\ c.pc = "write" /\ c.cur = e /\ c.status = "written"
          /\ Content(c.new) /\ Effect(c.new, q) /\ Growth(e, c.new)
          /\ q.kind = "create" => e = NoRun /\ HasRoom
          /\ q.kind # "create" => e # NoRun
       \/ /\ c.pc = "release" /\ c.status # "written"
          /\ c.status = "already" => Effect(e, q)

LEMMA AnswerDecides ==
    ASSUME TypeOK, NEW p \in Procs, NEW status, status # "written", Answer(p, status),
           status = "already" => Effect(file[Of(p).run], Of(p))
    PROVE  Decided(call'[p], Of(p), file[Of(p).run])
  BY FinishCall DEF Answer, Decided, Of

LEMMA PrepareDecides ==
    ASSUME TypeOK, NEW p \in Procs, NEW n, Prepare(p, n), Covered(n) => Content(n),
           Effect(n, Of(p)), Growth(file[Of(p).run], n),
           Creating(p) => file[Of(p).run] = NoRun /\ HasRoom,
           ~Creating(p) => file[Of(p).run] # NoRun
    PROVE  Decided(call'[p], Of(p), file[Of(p).run])
  <1>1. CASE Answer(p, "corrupt")
    BY <1>1, AnswerDecides
  <1>2. CASE ~Answer(p, "corrupt")
    <2>1. /\ Covered(n)
          /\ call'[p].pc = "write" /\ call'[p].req = call[p].req
          /\ call'[p].cur = file[call[p].req.run] /\ call'[p].new = n
          /\ call'[p].status = "written"
      BY <1>2, PrepareCall
    <2>. QED
      BY <2>1 DEF Decided, Of, Creating
  <1>. QED
    BY <1>1, <1>2

LEMMA CreateDecides ==
    ASSUME TypeOK, FilesInOrder, NEW p \in Procs, LoadCreate(p)
    PROVE  Decided(call'[p], Of(p), file[Of(p).run])
  <1> DEFINE q == Of(p)
             e == file[q.run]
             n == EmptyEnvelope(q.contract, p)
  <1>1. ~At(p, "idle") /\ p \in Writers /\ q.kind = "create"
    BY StoreConstants DEF LoadCreate, At
  <1>2. q \in CreateRequest /\ q.run \in Runs /\ q.contract \in Contracts
    BY <1>1, RequestOf DEF CreateRequest
  <1>3. e = NoRun \/ Content(e)
    BY <1>2 DEF FilesInOrder
  <1>4. CASE e = NoRun /\ HasRoom /\ Prepare(p, n)
    <2>1. Content(n) /\ n.events = <<>> /\ n.admissions = <<>> /\ n.contract = q.contract
      BY <1>1, <1>2, EmptyContent DEF EmptyEnvelope
    <2>2. n \notin {NoRun, Torn}
      BY <2>1, StoreConstants DEF Content
    <2>3. Effect(n, q)
      BY <1>1, <2>1, <2>2 DEF Effect
    <2>4. Growth(e, n)
      BY <1>4, <2>1 DEF Growth
    <2>. HIDE DEF n
    <2>. QED
      BY <1>1, <1>4, <2>1, <2>3, <2>4, PrepareDecides DEF Creating
  <1>5. CASE e = NoRun /\ ~HasRoom /\ Answer(p, "limit")
    BY <1>5, AnswerDecides
  <1>6. CASE /\ e # NoRun
             /\ Answer(p, IF ~Readable(e) THEN "corrupt"
                          ELSE IF e.contract # q.contract THEN "conflict"
                          ELSE "already")
    <2>1. e.contract = q.contract => Effect(e, q)
      BY <1>1, <1>3, <1>6, StoreConstants DEF Effect, Content
    <2>. QED
      BY <1>6, <2>1, AnswerDecides
  <1>. QED
    BY <1>4, <1>5, <1>6 DEF LoadCreate

LEMMA AppendDecides ==
    ASSUME TypeOK, FilesInOrder, NEW p \in Procs, LoadAppend(p)
    PROVE  Decided(call'[p], Of(p), file[Of(p).run])
  <1> DEFINE q == Of(p)
             e == file[q.run]
             n == WithDirect(e, q, p)
             rec == DirectRecord(e, Len(e.events), q.draft.id, q.decision, p)
  <1>1. ~At(p, "idle") /\ p \in Writers /\ q.kind = "append"
    BY StoreConstants DEF LoadAppend, At
  <1>2. q \in AppendRequest /\ q.run \in Runs
    BY <1>1, RequestOf
  <1>3. e = NoRun \/ Content(e)
    BY <1>2 DEF FilesInOrder
  <1>4. CASE /\ e # NoRun /\ ~IdTaken(e, q.draft.id)
             /\ WithinLimits(Append(e.events, q.draft)) /\ Prepare(p, n)
    <2>1. Content(e) /\ e \in Envelope
      BY <1>3, <1>4 DEF Content
    <2>2. Covered(n) => Content(n)
      BY <1>1, <1>2, <1>4, <2>1, DirectContent
    <2>3. /\ n = Grown(e, <<q.draft>>, rec)
          /\ rec \in Record
          /\ <<q.draft>> \in Seq(Drafts) /\ <<q.draft>> # <<>>
          /\ rec.base = Prefix(e, Len(e.events))
          /\ rec.ids = IdSeq(<<q.draft>>)
          /\ rec.kind = "direct-event"
      BY <1>1, <1>2, <2>1, DirectIsGrown
    <2>4. n \in Envelope
      BY <1>1, <1>2, <2>1, WithDirectType
    <2>5. rec.ids = <<q.draft.id>> /\ rec.decision = q.decision
      BY DEF DirectRecord
    <2>. HIDE DEF n, rec
    <2>6. Growth(e, n)
      BY <2>1, <2>3 DEF Growth
    <2>7. Asked(q) = <<q.draft>> /\ Records(rec, q)
      BY <1>1, <2>3, <2>5 DEF Asked, Records
    <2>8. Effect(n, q)
      <3>1. /\ n = Grown(e, Asked(q), rec) /\ Asked(q) \in Seq(Drafts)
            /\ rec.ids = IdSeq(Asked(q)) /\ q.kind \in {"append", "admit"}
            /\ rec \in Record /\ rec.base = Prefix(e, Len(e.events)) /\ Records(rec, q)
        BY <1>1, <2>3, <2>7
      <3>2. Grown(e, Asked(q), rec) \in Envelope
        BY <2>4, <3>1
      <3>3. Effect(Grown(e, Asked(q), rec), q)
        BY <2>1, <3>1, <3>2, GrownEffect
      <3>. QED
        BY <3>1, <3>3
    <2>. QED
      BY <1>1, <1>4, <2>2, <2>6, <2>8, PrepareDecides DEF Creating
  <1>5. CASE \E status \in {"not-found", "corrupt", "conflict", "limit"} : Answer(p, status)
    BY <1>5, AnswerDecides
  <1>6. CASE e # NoRun /\ DirectRetry(e, q) /\ Answer(p, "already")
    BY <1>2, <1>3, <1>6, DirectRetryTrue, AnswerDecides
  <1>. QED
    BY <1>4, <1>5, <1>6 DEF LoadAppend

LEMMA AdmitDecides ==
    ASSUME TypeOK, FilesInOrder, Reviewed, NEW p \in Procs, LoadAdmit(p)
    PROVE  Decided(call'[p], Of(p), file[Of(p).run])
  <1> DEFINE q == Of(p)
             e == file[q.run]
             es == CompiledEvents[q.proposal]
             n == WithBatch(e, q, p)
             rec == BatchRecord(e, Len(q.base.events), q.proposal, q.decision, p)
  <1>1. ~At(p, "idle") /\ p \in Writers /\ q.kind = "admit" /\ call[p].pc = "load"
    BY StoreConstants DEF LoadAdmit, At
  <1>2. q \in AdmitRequest /\ q.run \in Runs
    BY <1>1, RequestOf
  <1>3. e = NoRun \/ Content(e)
    BY <1>2 DEF FilesInOrder
  <1>4. CASE /\ e # NoRun /\ es # <<>> /\ BatchFits(e, q)
             /\ WithinLimits(e.events \o es) /\ Prepare(p, n)
    <2>1. Content(e) /\ e \in Envelope
      BY <1>3, <1>4 DEF Content
    <2>2. UniqueIds(q.base.events \o es)
      BY <1>1 DEF Reviewed
    <2>3. Covered(n) => Content(n)
      BY <1>1, <1>2, <1>4, <2>1, <2>2, BatchContent
    <2>4. /\ n = Grown(e, es, rec)
          /\ rec \in Record
          /\ es \in Seq(Drafts)
          /\ rec.base = Prefix(e, Len(e.events))
          /\ rec.ids = IdSeq(es)
          /\ rec.kind = "model-proposal"
          /\ q.base.events = e.events
      BY <1>1, <1>2, <1>4, <2>1, BatchIsGrown
    <2>5. n \in Envelope
      <3>1. Len(q.base.events) \in 0 .. Len(e.events)
        BY <2>1, <2>4, EnvelopeFields
      <3>. QED
        BY <1>1, <1>2, <2>1, <3>1, WithBatchType
    <2>6. rec.proposal = q.proposal /\ rec.decision = q.decision
      BY DEF BatchRecord
    <2>7. rec.base = q.base
      <3>1. q.base = [contract |-> e.contract, events |-> e.events]
        BY <1>4 DEF BatchFits, RunDigest
      <3>2. SubSeq(e.events, 1, Len(e.events)) = e.events
        <4>1. e.events \in Seq(Drafts)
          BY <2>1, EnvelopeFields
        <4>. QED
          BY <4>1
      <3>. QED
        BY <2>4, <3>1, <3>2 DEF Prefix
    <2>. HIDE DEF n, rec, es
    <2>8. Growth(e, n)
      BY <1>4, <2>1, <2>4 DEF Growth
    <2>9. Asked(q) = es /\ Records(rec, q)
      BY <1>1, <2>4, <2>6, <2>7 DEF Asked, Records, es
    <2>10. Effect(n, q)
      BY <1>1, <2>1, <2>4, <2>5, <2>9, GrownEffect
    <2>. QED
      BY <1>1, <1>4, <2>3, <2>8, <2>10, PrepareDecides DEF Creating
  <1>5. CASE \E status \in {"not-found", "corrupt", "conflict", "limit", "empty"} :
               Answer(p, status)
    BY <1>5, AnswerDecides
  <1>6. CASE e # NoRun /\ BatchRetry(e, q) /\ Answer(p, "already")
    BY <1>2, <1>3, <1>6, BatchRetryTrue, AnswerDecides
  <1>. QED
    BY <1>4, <1>5, <1>6 DEF LoadAdmit

LEMMA LoadDecides ==
    ASSUME TypeOK, FilesInOrder, Reviewed, NEW p \in Procs,
           LoadCreate(p) \/ LoadAppend(p) \/ LoadAdmit(p)
    PROVE  Decided(call'[p], Of(p), file[Of(p).run])
  BY CreateDecides, AppendDecides, AdmitDecides

----------------------------------------------------------------------------
(* Every file that a reader or a restart can find parses                   *)

\* A rename replaces a run file by what its call prepared, whose bytes are on disk.
LEMMA RenameEffect ==
    ASSUME TypeOK, Prepared, WritesInOrder, NEW p \in Procs, RenameTemporary(p)
    PROVE  /\ Of(p).run \in Runs
           /\ Content(call[p].new) /\ Extends(file[Of(p).run], call[p].new)
           /\ \A r \in Runs \ {Of(p).run} : file'[r] = file[r] /\ survivors'[r] = survivors[r]
           /\ file'[Of(p).run] = call[p].new
           /\ survivors'[Of(p).run] = survivors[Of(p).run] \cup {call[p].new}
  <1>1. Of(p).run \in Runs
    BY RequestOf DEF RenameTemporary, At
  <1>2. call[p].synced /\ Content(call[p].new) /\ Extends(file[Of(p).run], call[p].new)
    BY DEF RenameTemporary, At, Prepared, WritesInOrder
  <1>. QED
    BY <1>1, <1>2 DEF RenameTemporary, TypeOK

LEMMA InOrderCorrect == Spec => [](FilesInOrder /\ WritesInOrder)
  <1>1. Init => FilesInOrder /\ WritesInOrder
    BY DEF Init, FilesInOrder, WritesInOrder, Idle
  <1>2. ASSUME TypeOK, Prepared, Reviewed, FilesInOrder, WritesInOrder, [Next]_vars
        PROVE  FilesInOrder' /\ WritesInOrder'
    <2>1. ASSUME UNCHANGED <<file, survivors>>
          PROVE  FilesInOrder'
      BY <1>2, <2>1 DEF FilesInOrder
    <2>2. ASSUME NEW p \in Procs, RenameTemporary(p)
          PROVE  FilesInOrder'
      BY <1>2, <2>2, RenameEffect DEF FilesInOrder
    <2>3. ASSUME UNCHANGED file, NamesOnDisk
          PROVE  FilesInOrder'
      BY <1>2, <2>3 DEF FilesInOrder, NamesOnDisk
    <2>4. ASSUME PowerLoss
          PROVE  FilesInOrder' /\ WritesInOrder'
      <3>1. WritesInOrder'
        BY <2>4, PowerLossCalls DEF WritesInOrder, Idle
      <3>2. \A r \in Runs : file'[r] \in survivors[r] /\ survivors'[r] = {file'[r]}
        BY <2>4 DEF PowerLoss
      <3>. QED
        BY <1>2, <3>1, <3>2 DEF FilesInOrder
    <2>5. ASSUME NEW p \in Procs, Begin(p) \/ Step(p) \/ Failure(p)
          PROVE  FilesInOrder' /\ WritesInOrder'
      <3>1. FilesInOrder'
        BY <2>1, <2>2, <2>3, <2>5, FilesChange
      <3>2. ASSUME call'[p].pc \in {"write", "rename"}
            PROVE  Content(call'[p].new)
        <4>1. CASE LoadCreate(p) \/ LoadAppend(p) \/ LoadAdmit(p)
          BY <1>2, <3>2, <4>1, LoadDecides DEF Decided
        <4>2. CASE WriteTemporary(p)
          <5>1. call'[p].new = call[p].new /\ call[p].pc = "write"
            BY <1>2, <4>2 DEF WriteTemporary, At, TypeOK, Call
          <5>. QED
            BY <1>2, <5>1 DEF WritesInOrder
        <4>. QED
          BY <1>2, <2>5, <3>2, <4>1, <4>2, WritePath
      <3>3. \A q \in Procs \ {p} : call'[q] = call[q]
        BY <1>2, <2>5, OthersCalls
      <3>. QED
        BY <1>2, <3>1, <3>2, <3>3 DEF WritesInOrder
    <2>6. ASSUME UNCHANGED <<call, file, survivors>>
          PROVE  FilesInOrder' /\ WritesInOrder'
      BY <1>2, <2>1, <2>6 DEF WritesInOrder
    <2>. QED
      BY <1>2, <2>4, <2>5, <2>6 DEF Next, RemoveStaleLock, vars
  <1>. QED
    BY <1>1, <1>2, TypeCorrect, PreparedCorrect, ReviewedCorrect, PTL DEF Spec

\* Whatever a reader, or a restart after a power loss, finds under a run's name, it parses.
THEOREM StoreParses == Spec => []StoreReadable
  <1>1. FilesInOrder => StoreReadable
    BY DEF FilesInOrder, StoreReadable, Content
  <1>. QED
    BY <1>1, InOrderCorrect, PTL

----------------------------------------------------------------------------
(* Acknowledged writes and retries                                         *)

\* The effect of q is in every file of its run that may be found, now or after a power loss.
Kept(q) == \A e \in survivors[q.run] \cup {file[q.run]} : Effect(e, q)

\* What a call carries from its load to its reply.
Carries(c) ==
    /\ c.pc \in {"write", "rename"} => c.status = "written" /\ Effect(c.new, c.req)
    /\ c.pc = "dirsync" => c.status = "written" /\ Effect(file[c.req.run], c.req)
    /\ c.pc = "release" /\ c.status = "already" => Effect(file[c.req.run], c.req)
    /\ c.pc \in {"release", "releaseCatalog", "reply"} /\ c.status = "written" => Kept(c.req)

Truthful ==
    /\ \A p \in Procs : Carries(call[p])
    /\ \A q \in acked : Kept(q)

LEMMA EffectInFile ==
    ASSUME TypeOK, FilesInOrder, NEW q \in Request, NEW e \in survivors[q.run] \cup {file[q.run]},
           Effect(e, q)
    PROVE  Content(e)
  <1>1. q.run \in Runs
    BY DEF Request, CreateRequest, AppendRequest, AdmitRequest, ReadRequest
  <1>. QED
    BY <1>1 DEF FilesInOrder, Effect

\* What a run file holds stays in it, whoever moves, and what all files hold stays in all.
LEMMA EffectsStay ==
    ASSUME TypeOK, Prepared, FilesInOrder, WritesInOrder, NEW q \in Request,
           NEW p \in Procs, Begin(p) \/ Step(p) \/ Failure(p)
    PROVE  /\ Effect(file[q.run], q) => Effect(file'[q.run], q)
           /\ Kept(q) => Kept(q)'
  <1>1. q.run \in Runs
    BY DEF Request, CreateRequest, AppendRequest, AdmitRequest, ReadRequest
  <1>2. CASE UNCHANGED <<file, survivors>>
    BY <1>2 DEF Kept
  <1>3. CASE RenameTemporary(p)
    <2> DEFINE g == call[p].new
    <2>1. /\ Content(g) /\ Extends(file[Of(p).run], g)
          /\ \A r \in Runs \ {Of(p).run} : file'[r] = file[r] /\ survivors'[r] = survivors[r]
          /\ file'[Of(p).run] = g
          /\ survivors'[Of(p).run] = survivors[Of(p).run] \cup {g}
      BY <1>3, RenameEffect
    <2>2. ASSUME q.run = Of(p).run, Effect(file[q.run], q)
          PROVE  Effect(g, q)
      <3>1. Content(file[q.run])
        BY <2>2, EffectInFile
      <3>2. g \in Envelope
        BY <2>1 DEF Content
      <3>. QED
        BY <2>1, <2>2, <3>1, <3>2, EffectKept
    <2>. HIDE DEF g
    <2>3. Effect(file[q.run], q) => Effect(file'[q.run], q)
      BY <1>1, <2>1, <2>2
    <2>4. ASSUME Kept(q)
          PROVE  Kept(q)'
      <3>1. Effect(file[q.run], q)
        BY <2>4 DEF Kept
      <3>2. survivors'[q.run] \cup {file'[q.run]} \subseteq survivors[q.run] \cup {file[q.run], file'[q.run]}
        BY <1>1, <2>1
      <3>. QED
        BY <2>3, <2>4, <3>1, <3>2 DEF Kept
    <2>. QED
      BY <2>3, <2>4
  <1>4. CASE UNCHANGED file /\ NamesOnDisk
    BY <1>1, <1>4 DEF Kept, NamesOnDisk
  <1>. QED
    BY <1>2, <1>3, <1>4, FilesChange

\* A directory sync leaves only the file that readers see.
LEMMA SyncKeeps ==
    ASSUME TypeOK, FilesInOrder, NEW q \in Request, Effect(file[q.run], q), UNCHANGED file,
           NamesOnDisk
    PROVE  Kept(q)'
  <1>1. q.run \in Runs
    BY DEF Request, CreateRequest, AppendRequest, AdmitRequest, ReadRequest
  <1>2. Torn \notin survivors[q.run]
    BY <1>1, StoreConstants DEF FilesInOrder, Content
  <1>. QED
    BY <1>1, <1>2 DEF Kept, NamesOnDisk

\* Where the answers of a call come from.
LEMMA AnswerPath ==
    ASSUME TypeOK, NEW p \in Procs, Begin(p) \/ Step(p) \/ Failure(p)
    PROVE  LET c == call'[p]
           IN /\ c.pc = "dirsync" => RenameTemporary(p)
              /\ c.pc = "release" /\ c.status \in {"already", "written"} =>
                    LoadCreate(p) \/ LoadAppend(p) \/ LoadAdmit(p) \/ SyncDirectory(p)
              /\ c.pc \in {"releaseCatalog", "reply"} /\ c.status = "written" =>
                    /\ UNCHANGED <<file, survivors>>
                    /\ call[p].pc \in {"release", "releaseCatalog"}
                    /\ call[p].status = "written" /\ c.req = call[p].req
  <1>1. {"lock", "load", "reply"} \subseteq Pc /\ AfterRunLock(p) \in Pc
    BY DEF Pc, HoldingRun, AfterRunLock
  <1>2. CASE Begin(p)
    BY <1>2, BeginPath
  <1>3. CASE Lstat(p)
    <2>1. CASE Finish(p, "reply", "not-found")
      BY <2>1, FinishCall
    <2>2. CASE call' = [call EXCEPT ![p].pc = "open", ![p].cur = file[Of(p).run]]
      BY <2>2 DEF TypeOK, Call
    <2>. QED
      BY <1>3, <2>1, <2>2 DEF Lstat
  <1>4. CASE Open(p)
    <2>1. PICK pc \in {"lock", "reply"}, status \in {"corrupt", "found", "conflict",
                                                     "invalid", "none"} :
            Finish(p, pc, status)
      BY <1>4 DEF Open, PreviewStatus
    <2>. QED
      BY <2>1, FinishCall
  <1>5. CASE TakeCatalogLock(p) \/ TakeRunLock(p) \/ TakeLockFails(p) \/ LoadFails(p)
             \/ PersistFails(p) \/ CleanupFails(p)
    BY <1>1, <1>5, FinishCall, GotoCall
    DEF TakeCatalogLock, TakeRunLock, TakeLockFails, LoadFails, PersistFails, CleanupFails,
        Answer, AfterRunLock, PersistenceError
  <1>6. CASE ReleaseRunLock(p) \/ ReleaseCatalogLock(p)
    BY <1>1, <1>6, GotoCall DEF ReleaseRunLock, ReleaseCatalogLock, AfterRunLock, At
  <1>7. CASE ReleaseFails(p)
    BY <1>7, FinishCall DEF ReleaseFails, AfterRunLock, Answers
  <1>8. CASE WriteTemporary(p) \/ RenameTemporary(p) \/ Reply(p) \/ Crash(p)
    BY <1>8 DEF WriteTemporary, RenameTemporary, Reply, Crash, Idle, TypeOK, Call
  <1>9. CASE SyncDirectory(p)
    BY <1>9, FinishCall DEF SyncDirectory, Answer
  <1>10. CASE LoadCreate(p) \/ LoadAppend(p) \/ LoadAdmit(p)
    BY <1>10, LoadExtends
  <1>. QED
    BY <1>2, <1>3, <1>4, <1>5, <1>6, <1>7, <1>8, <1>9, <1>10 DEF Step, Failure

LEMMA TruthfulCorrect == Spec => []Truthful
  <1>1. Init => Truthful
    BY DEF Init, Truthful, Carries, Idle
  <1>2. ASSUME TypeOK, Prepared, Reviewed, FilesInOrder, WritesInOrder, Truthful, [Next]_vars
        PROVE  Truthful'
    <2>1. Carries(Idle)'
      BY DEF Carries, Idle
    <2>2. ASSUME NEW p \in Procs, Begin(p) \/ Step(p) \/ Failure(p)
          PROVE  Truthful'
      <3>1. ASSUME NEW q \in Request
            PROVE  /\ Effect(file[q.run], q) => Effect(file'[q.run], q)
                   /\ Kept(q) => Kept(q)'
        BY <1>2, <2>2, <3>1, EffectsStay
      <3>2. ASSUME NEW q \in Procs \ {p}
            PROVE  Carries(call[q])'
        <4>1. call'[q] = call[q] /\ Carries(call[q])
          BY <1>2, <2>2, OthersCalls DEF Truthful
        <4>2. CASE At(q, "idle")
          BY <4>1, <4>2 DEF Carries, At
        <4>3. CASE ~At(q, "idle")
          <5>1. call[q].req \in Request
            BY <1>2, <4>3, RequestOf DEF Of
          <5>. QED
            BY <3>1, <4>1, <5>1 DEF Carries
        <4>. QED
          BY <4>2, <4>3
      <3>3. Carries(call[p])'
        <4> DEFINE c == call'[p]
        <4>1. Carries(call[p])
          BY <1>2 DEF Truthful
        <4>2. ASSUME c.pc \in {"write", "rename"}
              PROVE  c.status = "written" /\ Effect(c.new, c.req)
          <5>1. CASE LoadCreate(p) \/ LoadAppend(p) \/ LoadAdmit(p)
            BY <1>2, <4>2, <5>1, LoadDecides DEF Decided
          <5>2. CASE WriteTemporary(p)
            <6>1. /\ c.new = call[p].new /\ call[p].pc = "write" /\ c.req = call[p].req
                  /\ c.status = call[p].status
              BY <1>2, <5>2 DEF WriteTemporary, At, TypeOK, Call
            <6>. QED
              BY <4>1, <6>1 DEF Carries
          <5>. QED
            BY <1>2, <2>2, <4>2, <5>1, <5>2, WritePath
        <4>3. ASSUME c.pc = "dirsync"
              PROVE  c.status = "written" /\ Effect(file'[c.req.run], c.req)
          <5>1. RenameTemporary(p)
            BY <1>2, <2>2, <4>3, AnswerPath
          <5>2. call[p].pc = "rename" /\ c.req = Of(p) /\ c.status = call[p].status
            BY <1>2, <5>1 DEF RenameTemporary, At, TypeOK, Of
          <5>3. file'[Of(p).run] = call[p].new
            BY <1>2, <5>1, RenameEffect
          <5>. QED
            BY <4>1, <5>2, <5>3 DEF Carries, Of
        <4>4. ASSUME c.pc = "release", c.status = "already"
              PROVE  Effect(file'[c.req.run], c.req)
          <5>1. CASE LoadCreate(p) \/ LoadAppend(p) \/ LoadAdmit(p)
            <6>1. UNCHANGED file /\ Decided(c, Of(p), file[Of(p).run])
              BY <1>2, <5>1, LoadDecides, LoadExtends
            <6>. QED
              BY <4>4, <6>1 DEF Decided
          <5>2. CASE SyncDirectory(p)
            BY <1>2, <4>1, <4>4, <5>2, FinishCall DEF SyncDirectory, Answer, At, Carries
          <5>. QED
            BY <1>2, <2>2, <4>4, <5>1, <5>2, AnswerPath
        <4>5. ASSUME c.pc = "release", c.status = "written"
              PROVE  Kept(call[p].req)'
          <5>1. CASE LoadCreate(p) \/ LoadAppend(p) \/ LoadAdmit(p)
            BY <1>2, <4>5, <5>1, LoadDecides DEF Decided
          <5>2. CASE SyncDirectory(p)
            <6>1. c.req = call[p].req /\ call[p].pc = "dirsync" /\ UNCHANGED file /\ NamesOnDisk
              BY <1>2, <5>2, FinishCall DEF SyncDirectory, Answer, At
            <6>2. call[p].req \in Request
              BY <1>2, <6>1, RequestOf DEF At, Of
            <6>3. Effect(file[call[p].req.run], call[p].req)
              BY <4>1, <6>1 DEF Carries
            <6>. QED
              <7>1. \A q \in Request : Effect(file[q.run], q) => Kept(q)'
                BY <1>2, <6>1, SyncKeeps
              <7>. QED
                BY <6>1, <6>2, <6>3, <7>1 DEF Kept
          <5>. QED
            BY <1>2, <2>2, <4>5, <5>1, <5>2, AnswerPath
        <4>6. ASSUME c.pc \in {"releaseCatalog", "reply"}, c.status = "written"
              PROVE  Kept(call[p].req)'
          <5>1. /\ call[p].pc \in {"release", "releaseCatalog"}
                /\ call[p].status = "written" /\ c.req = call[p].req
                /\ UNCHANGED <<file, survivors>>
            BY <1>2, <2>2, <4>6, AnswerPath
          <5>2. Kept(call[p].req)
            BY <4>1, <5>1 DEF Carries
          <5>. QED
            BY <5>1, <5>2 DEF Kept
        <4>. QED
          BY <4>2, <4>3, <4>4, <4>5, <4>6 DEF Carries
      <3>4. ASSUME NEW q \in acked'
            PROVE  Kept(q)'
        <4>1. CASE q \in acked
          BY <1>2, <3>1, <4>1 DEF Truthful, TypeOK
        <4>2. CASE q \notin acked
          <5>1. Reply(p) /\ q = Of(p) /\ call[p].status = "written"
            BY <2>2, <3>4, <4>2
            DEF Begin, Step, Failure, StartCreate, StartAppend, StartAdmit, StartRead, Start,
                Lstat, Open, TakeCatalogLock, TakeRunLock, LoadCreate, LoadAppend, LoadAdmit,
                WriteTemporary, RenameTemporary, SyncDirectory, ReleaseRunLock,
                ReleaseCatalogLock, Reply, TakeLockFails, LoadFails, PersistFails, CleanupFails,
                ReleaseFails, Crash
          <5>2. call[p].pc = "reply" /\ Of(p) \in Request
            BY <1>2, <5>1, RequestOf DEF Reply, At
          <5>3. Kept(Of(p))
            BY <1>2, <5>1, <5>2 DEF Truthful, Carries, Of
          <5>. QED
            BY <3>1, <5>1, <5>2, <5>3
        <4>. QED
          BY <4>1, <4>2
      <3>. QED
        BY <3>2, <3>3, <3>4 DEF Truthful
    <2>3. ASSUME PowerLoss
          PROVE  Truthful'
      <3>1. \A p \in Procs : Carries(call[p])'
        BY <2>1, <2>3, PowerLossCalls DEF Carries
      <3>2. acked' = acked /\ \A r \in Runs : file'[r] \in survivors[r] /\ survivors'[r] = {file'[r]}
        BY <2>3 DEF PowerLoss
      <3>3. \A q \in acked : q.run \in Runs
        BY <1>2 DEF TypeOK, Request, CreateRequest, AppendRequest, AdmitRequest, ReadRequest
      <3>4. \A q \in acked : Kept(q)'
        BY <1>2, <3>2, <3>3 DEF Truthful, Kept
      <3>. QED
        BY <3>1, <3>2, <3>4 DEF Truthful
    <2>4. ASSUME UNCHANGED <<call, file, survivors, acked>>
          PROVE  Truthful'
      BY <1>2, <2>4 DEF Truthful, Carries, Kept
    <2>. QED
      BY <1>2, <2>2, <2>3, <2>4 DEF Next, RemoveStaleLock, vars
  <1>. QED
    BY <1>1, <1>2, TypeCorrect, PreparedCorrect, ReviewedCorrect, InOrderCorrect, PTL DEF Spec

\* A new write that was acknowledged is in every file that may be found from then on, with its
\* admission record unchanged, whatever is appended, crashes or loses power.
THEOREM AcknowledgedWritesSurvive == Spec => []AcknowledgedSurvive
  <1>1. Truthful => AcknowledgedSurvive
    BY DEF Truthful, Kept, AcknowledgedSurvive
  <1>. QED
    BY <1>1, TruthfulCorrect, PTL

\* "already" is said only of a request whose effect is in the run.
THEOREM AlreadyIsAlready == Spec => []AlreadyIsTrue
  <1>1. Truthful => AlreadyIsTrue
    BY DEF Truthful, Carries, AlreadyIsTrue, At, Of
  <1>. QED
    BY <1>1, TruthfulCorrect, PTL

\* An exact retry of an acknowledged write is told that it was already done: the tests under the
\* run lock find every effect that an acknowledgement rests on.
THEOREM RetriesAreRecognised == Spec => RetriesRecognised
  <1>1. ASSUME TypeOK, FilesInOrder, Truthful, NEW p \in Procs,
               LoadCreate(p) \/ LoadAppend(p) \/ LoadAdmit(p),
               NEW b \in acked, SameRequest(b, Of(p))
        PROVE  call'[p].status = "already"
    <2> DEFINE q == Of(p)
               e == file[q.run]
    <2>1. ~At(p, "idle") /\ q.run \in Runs /\ q \in Request
      BY <1>1, RequestOf DEF LoadCreate, LoadAppend, LoadAdmit, At
    <2>2. Effect(e, b) /\ b.run = q.run /\ b.kind = q.kind
      BY <1>1 DEF Truthful, Kept, SameRequest
    <2>3. Content(e) /\ e # NoRun /\ Readable(e)
      BY <1>1, <2>1, <2>2 DEF FilesInOrder, Effect, Content
    <2>4. ASSUME Answer(p, "already")
          PROVE  call'[p].status = "already"
      BY <1>1, <2>4, FinishCall DEF Answer
    <2>5. CASE LoadCreate(p)
      <3>1. e.contract = q.contract
        BY <1>1, <2>2, <2>5 DEF LoadCreate, Effect, SameRequest
      <3>. QED
        BY <2>3, <2>4, <2>5, <3>1 DEF LoadCreate
    <2>6. CASE LoadAppend(p)
      <3>1. q.kind = "append" /\ q \in AppendRequest
        BY <1>1, <2>1, <2>6, RequestOf DEF LoadAppend
      <3>2. b.draft = q.draft /\ b.decision = q.decision
        BY <1>1, <3>1 DEF SameRequest
      <3>3. Effect(e, q)
        <4>1. \A a : Records(a, b) => Records(a, q)
          BY <2>2, <3>1, <3>2 DEF Records
        <4>2. Asked(b) = Asked(q)
          BY <2>2, <3>1, <3>2 DEF Asked
        <4>. QED
          BY <2>2, <3>1, <4>1, <4>2 DEF Effect
      <3>4. IdTaken(e, q.draft.id) /\ DirectRetry(e, q)
        BY <2>3, <3>1, <3>3, DirectRetryFound
      <3>. QED
        BY <2>3, <2>4, <2>6, <3>4 DEF LoadAppend
    <2>7. CASE LoadAdmit(p)
      <3>1. q.kind = "admit" /\ q \in AdmitRequest
        BY <1>1, <2>1, <2>7, RequestOf DEF LoadAdmit
      <3>2. b.proposal = q.proposal /\ b.base = q.base /\ b.decision = q.decision
        BY <1>1, <3>1 DEF SameRequest
      <3>3. Effect(e, q)
        <4>1. \A a : Records(a, b) => Records(a, q)
          BY <2>2, <3>1, <3>2 DEF Records
        <4>2. Asked(b) = Asked(q)
          BY <2>2, <3>1, <3>2 DEF Asked
        <4>. QED
          BY <2>2, <3>1, <4>1, <4>2 DEF Effect
      <3>4. BatchRetry(e, q)
        BY <2>3, <3>1, <3>3, BatchRetryFound
      <3>5. CompiledEvents[q.proposal] # <<>> /\ Bound(e, q.base)
        BY <3>4 DEF BatchRetry
      <3>. QED
        BY <2>3, <2>4, <2>7, <3>4, <3>5 DEF LoadAdmit
    <2>. QED
      BY <1>1, <2>5, <2>6, <2>7
  <1> DEFINE Told ==
               \A p \in Procs :
                  /\ LoadCreate(p) \/ LoadAppend(p) \/ LoadAdmit(p)
                  /\ \E a \in acked : SameRequest(a, Of(p))
                  => call'[p].status = "already"
  <1>2. TypeOK /\ FilesInOrder /\ Truthful => [Told]_vars
    BY <1>1
  <1>3. Spec => [][Told]_vars
    <2>. HIDE DEF Told
    <2>. QED
      BY <1>2, TypeCorrect, InOrderCorrect, TruthfulCorrect, PTL
  <1>. QED
    BY <1>3 DEF RetriesRecognised

----------------------------------------------------------------------------
(* The number of runs                                                      *)

\* A create that is about to write has room for its run, which is not there yet; an append or
\* an admission replaces a run file. A run that is not there was never there for the disk.
Room ==
    /\ IsFiniteSet(Stored) /\ Cardinality(Stored) =< MaxRuns
    /\ \A p \in Procs : call[p].pc \in {"write", "rename"} =>
          IF Creating(p) THEN Cardinality(Stored) < MaxRuns ELSE call[p].cur # NoRun
    /\ \A r \in Runs : file[r] = NoRun => survivors[r] \subseteq {NoRun}

\* A create holds the catalog lock from its count of the runs to its rename.
LEMMA OneCreate ==
    ASSUME TypeOK, LockExclusion, NEW p \in Procs, NEW q \in Procs,
           call[p].pc \in HoldingRun, call[q].pc \in HoldingRun, Creating(p), Creating(q)
    PROVE  p = q
  <1>1. Holds(p, Catalog) /\ Holds(q, Catalog) /\ Catalog \in LockNames
    BY DEF Holds, LockNames
  <1>. QED
    BY <1>1 DEF LockExclusion

LEMMA RoomCorrect == Spec => []Room
  <1>1. Init => Room
    <2>1. Init => Stored = {}
      BY DEF Init, Stored
    <2>. QED
      BY <2>1, FS_EmptySet, StoreConstants DEF Init, Room, Idle
  <1>2. ASSUME TypeOK, LockExclusion, Prepared, Reviewed, FilesInOrder, WritesInOrder, Room,
               [Next]_vars
        PROVE  Room'
    <2>1. ASSUME NEW p \in Procs, Begin(p) \/ Step(p) \/ Failure(p), UNCHANGED file,
                 \A r \in Runs : survivors'[r] \subseteq survivors[r]
          PROVE  Room'
      <3>1. Stored' = Stored
        BY <2>1 DEF Stored
      <3>2. ASSUME call'[p].pc \in {"write", "rename"}
            PROVE  IF call'[p].req.kind = "create"
                   THEN Cardinality(Stored) < MaxRuns ELSE call'[p].cur # NoRun
        <4>1. CASE LoadCreate(p) \/ LoadAppend(p) \/ LoadAdmit(p)
          BY <1>2, <3>2, <4>1, LoadDecides DEF Decided, HasRoom
        <4>2. CASE WriteTemporary(p)
          <5>1. /\ call'[p].cur = call[p].cur /\ call[p].pc = "write"
                /\ call'[p].req = call[p].req
            BY <1>2, <4>2 DEF WriteTemporary, At, TypeOK, Call
          <5>. QED
            BY <1>2, <5>1 DEF Room, Creating, Of
        <4>. QED
          BY <1>2, <2>1, <3>2, <4>1, <4>2, WritePath
      <3>3. \A q \in Procs \ {p} : call'[q] = call[q]
        BY <1>2, <2>1, OthersCalls
      <3>. QED
        BY <1>2, <2>1, <3>1, <3>2, <3>3 DEF Room, Creating, Of
    <2>2. ASSUME NEW p \in Procs, RenameTemporary(p)
          PROVE  Room'
      <3> DEFINE r == Of(p).run
      <3>1. /\ r \in Runs
            /\ \A s \in Runs \ {r} : file'[s] = file[s] /\ survivors'[s] = survivors[s]
            /\ file'[r] # NoRun
        BY <1>2, <2>2, RenameEffect, StoreConstants DEF Content
      <3>2. /\ call[p].pc = "rename" /\ call'[p].pc = "dirsync"
            /\ \A q \in Procs \ {p} : call'[q] = call[q]
            /\ call[p].cur = file[r]
        BY <1>2, <2>2, OthersCalls DEF RenameTemporary, At, TypeOK, Step, Prepared
      <3>. HIDE DEF r
      <3>3. \A s \in Runs : file'[s] = NoRun => survivors'[s] \subseteq {NoRun}
        BY <1>2, <3>1 DEF Room
      <3>4. CASE Creating(p)
        <4>1. Cardinality(Stored) < MaxRuns
          BY <1>2, <3>2, <3>4 DEF Room
        <4>2. Stored' = Stored \cup {r}
          BY <3>1 DEF Stored
        <4>3. /\ IsFiniteSet(Stored') /\ Cardinality(Stored') \in Nat
              /\ Cardinality(Stored) \in Nat /\ Cardinality(Stored') =< Cardinality(Stored) + 1
          <5>1. IsFiniteSet(Stored)
            BY <1>2 DEF Room
          <5>2. /\ IsFiniteSet(Stored \cup {r})
                /\ \/ Cardinality(Stored \cup {r}) = Cardinality(Stored)
                   \/ Cardinality(Stored \cup {r}) = Cardinality(Stored) + 1
            BY <5>1, FS_AddElement
          <5>3. Cardinality(Stored) \in Nat
            BY <5>1, FS_CardinalityType
          <5>. QED
            BY <4>2, <5>2, <5>3
        <4>4. Cardinality(Stored') =< MaxRuns
          BY <4>1, <4>3, StoreConstants
        <4>5. ASSUME NEW q \in Procs, call'[q].pc \in {"write", "rename"}
              PROVE  call'[q].req.kind # "create" /\ call'[q].cur # NoRun
          <5>1. q # p /\ call'[q] = call[q]
            BY <3>2, <4>5
          <5>2. ~Creating(q)
            BY <1>2, <3>2, <3>4, <4>5, <5>1, OneCreate DEF HoldingRun
          <5>. QED
            BY <1>2, <4>5, <5>1, <5>2 DEF Room, Creating, Of
        <4>. QED
          BY <3>3, <4>3, <4>4, <4>5 DEF Room, Creating, Of
      <3>5. CASE ~Creating(p)
        <4>1. r \in Stored
          BY <1>2, <3>1, <3>2, <3>5 DEF Room, Stored
        <4>2. Stored' = Stored
          BY <3>1, <4>1 DEF Stored
        <4>. QED
          BY <1>2, <3>2, <3>3, <4>2 DEF Room, Creating, Of
      <3>. QED
        BY <3>4, <3>5
    <2>3. ASSUME PowerLoss
          PROVE  Room'
      <3>1. \A r \in Runs : file'[r] \in survivors[r] /\ survivors'[r] = {file'[r]}
        BY <2>3 DEF PowerLoss
      <3>2. Stored' \subseteq Stored
        BY <1>2, <3>1 DEF Stored, Room
      <3>3. /\ IsFiniteSet(Stored') /\ Cardinality(Stored') \in Nat /\ Cardinality(Stored) \in Nat
            /\ Cardinality(Stored') =< Cardinality(Stored)
        BY <1>2, <3>2, FS_Subset, FS_CardinalityType DEF Room
      <3>4. Cardinality(Stored') =< MaxRuns
        BY <1>2, <3>3, StoreConstants DEF Room
      <3>. QED
        BY <2>3, <3>1, <3>3, <3>4, PowerLossCalls DEF Room, Idle
    <2>4. ASSUME UNCHANGED <<call, file, survivors>>
          PROVE  Room'
      BY <1>2, <2>4 DEF Room, Stored, Creating, Of
    <2>5. ASSUME NEW p \in Procs, Begin(p) \/ Step(p) \/ Failure(p)
          PROVE  Room'
      <3>1. CASE UNCHANGED <<file, survivors>>
        BY <2>1, <2>5, <3>1
      <3>2. CASE UNCHANGED file /\ NamesOnDisk
        BY <2>1, <2>5, <3>2 DEF NamesOnDisk
      <3>. QED
        BY <2>2, <2>5, <3>1, <3>2, FilesChange
    <2>. QED
      BY <1>2, <2>3, <2>4, <2>5 DEF Next, RemoveStaleLock, vars
  <1>. QED
    BY <1>1, <1>2, TypeCorrect, Exclusion, PreparedCorrect, ReviewedCorrect, InOrderCorrect, PTL
    DEF Spec

\* The store never holds more runs than its limit, however creates interleave: the catalog lock
\* makes the count and the rename one step for every other create.
THEOREM RunsAreLimited == Spec => []RunLimit
  <1>1. Room => RunLimit
    BY DEF Room, RunLimit
  <1>. QED
    BY <1>1, RoomCorrect, PTL

----------------------------------------------------------------------------
(* The store implements RunLog                                             *)

LEMMA ExtendsReflexive ==
    ASSUME NEW e, e = NoRun \/ Content(e)
    PROVE  Extends(e, e)
  <1>1. CASE e # NoRun
    <2>1. e \in Envelope /\ e # Torn
      BY <1>1, StoreConstants DEF Content
    <2>2. IsPrefix(e.events, e.events) /\ IsPrefix(e.admissions, e.admissions)
      BY <2>1, EnvelopeFields, PrefixReflexive
    <2>. QED
      BY <1>1, <2>1, <2>2 DEF Extends
  <1>. QED
    BY <1>1 DEF Extends

LEMMA ExtendsTransitive ==
    ASSUME NEW e, e = NoRun \/ Content(e), NEW f, f = NoRun \/ Content(f),
           NEW g, g = NoRun \/ Content(g), Extends(e, f), Extends(f, g)
    PROVE  Extends(e, g)
  <1>1. CASE e # NoRun
    <2>1. f # NoRun /\ g # NoRun /\ e # Torn /\ g # Torn
      BY <1>1, StoreConstants DEF Extends
    <2>2. e \in Envelope /\ f \in Envelope /\ g \in Envelope
      BY <1>1, <2>1 DEF Content
    <2>3. /\ IsPrefix(e.events, f.events) /\ IsPrefix(f.events, g.events)
          /\ IsPrefix(e.admissions, f.admissions) /\ IsPrefix(f.admissions, g.admissions)
          /\ g.contract = e.contract
      BY <1>1, <2>1 DEF Extends
    <2>4. IsPrefix(e.events, g.events)
      BY <2>2, <2>3, EnvelopeFields, PrefixTransitive
    <2>5. IsPrefix(e.admissions, g.admissions)
      BY <2>2, <2>3, EnvelopeFields, PrefixTransitive
    <2>. QED
      BY <1>1, <2>1, <2>3, <2>4, <2>5 DEF Extends
  <1>. QED
    BY <1>1 DEF Extends

\* Two files that extend each other are the same run, whoever wrote them.
LEMMA ExtendsAntisymmetric ==
    ASSUME NEW e, e = NoRun \/ Content(e), NEW g, g = NoRun \/ Content(g),
           Extends(e, g), Extends(g, e)
    PROVE  View(e) = View(g)
  <1>1. CASE e = NoRun \/ g = NoRun
    BY <1>1 DEF Extends, View
  <1>2. CASE e # NoRun /\ g # NoRun
    <2>1. e \in Envelope /\ g \in Envelope
      BY <1>2 DEF Content
    <2>2. /\ g.contract = e.contract
          /\ IsPrefix(e.events, g.events) /\ IsPrefix(g.events, e.events)
          /\ IsPrefix(e.admissions, g.admissions) /\ IsPrefix(g.admissions, e.admissions)
      BY <1>2 DEF Extends
    <2>3. e.events = g.events
      BY <2>1, <2>2, EnvelopeFields, PrefixAntisymmetric
    <2>4. e.admissions = g.admissions
      BY <2>1, <2>2, EnvelopeFields, PrefixAntisymmetric
    <2>. QED
      BY <1>2, <2>2, <2>3, <2>4 DEF View
  <1>. QED
    BY <1>1, <1>2

\* The fields of an abstract run.
LEMMA ViewFields ==
    ASSUME NEW e \in Envelope
    PROVE  /\ View(e) # NoRun
           /\ View(e).contract = e.contract /\ View(e).events = e.events
           /\ View(e).admissions = e.admissions
  <1>1. e # NoRun
    BY StoreConstants
  <1>2. View(e) = [contract |-> e.contract, events |-> e.events, admissions |-> e.admissions]
    BY <1>1 DEF View
  <1>3. View(e) \in [contract : Contracts, events : Seq(Drafts), admissions : Seq(Record)]
    BY <1>2, EnvelopeFields
  <1>. QED
    BY <1>2, <1>3, NoRunIsNoView

\* The files that a power loss may leave are a chain: the run file as it is now extends every
\* one of them, and one of them is extended by all.
Least(S, e) == e \in S /\ \A g \in S : Extends(e, g)

Chain ==
    \A r \in Runs :
        /\ file[r] \in survivors[r]
        /\ \A e \in survivors[r] : Extends(e, file[r])
        /\ \E e \in survivors[r] : Least(survivors[r], e)

\* What a call is about to write grows the run by one record.
GrowsByOne ==
    \A p \in Procs : call[p].pc \in {"write", "rename"} => Growth(file[Of(p).run], call[p].new)

LEMMA ShortestLeast ==
    ASSUME NEW S, \E e \in S : Least(S, e)
    PROVE  Least(S, Shortest(S))
  BY DEF Least, Shortest

\* A rename keeps the chain, and its least element.
LEMMA ChainRename ==
    ASSUME FilesInOrder, Chain, NEW r \in Runs, NEW g, Content(g), Extends(file[r], g)
    PROVE  LET S == survivors[r] \cup {g}
           IN /\ \A e \in S : Extends(e, g)
              /\ \A e : Least(survivors[r], e) => Least(S, e)
  <1>1. \A e \in survivors[r] : e = NoRun \/ Content(e)
    BY DEF FilesInOrder
  <1>2. file[r] \in survivors[r] /\ \A e \in survivors[r] : Extends(e, file[r])
    BY DEF Chain
  <1>3. \A e \in survivors[r] : Extends(e, g)
    BY <1>1, <1>2, ExtendsTransitive
  <1>4. Extends(g, g)
    BY ExtendsReflexive
  <1>. QED
    BY <1>3, <1>4 DEF Least

LEMMA ChainCorrect == Spec => [](Chain /\ GrowsByOne)
  <1>1. Init => Chain /\ GrowsByOne
    BY DEF Init, Chain, Least, GrowsByOne, Extends, Idle
  <1>2. ASSUME TypeOK, Prepared, Reviewed, FilesInOrder, WritesInOrder, VisibleMaySurvive,
               VisibleMaySurvive', FilesInOrder', Prepared', Chain, GrowsByOne, [Next]_vars
        PROVE  Chain' /\ GrowsByOne'
    <2>1. ASSUME UNCHANGED <<file, survivors>>
          PROVE  Chain'
      BY <1>2, <2>1 DEF Chain
    <2>2. ASSUME NEW p \in Procs, RenameTemporary(p)
          PROVE  Chain'
      <3> DEFINE s == Of(p).run
                 g == call[p].new
      <3>1. /\ s \in Runs /\ Content(g) /\ Extends(file[s], g)
            /\ \A r \in Runs \ {s} : file'[r] = file[r] /\ survivors'[r] = survivors[r]
            /\ file'[s] = g /\ survivors'[s] = survivors[s] \cup {g}
        BY <1>2, <2>2, RenameEffect
      <3>. HIDE DEF s, g
      <3>2. /\ \A e \in survivors'[s] : Extends(e, file'[s])
            /\ \A e : Least(survivors[s], e) => Least(survivors'[s], e)
        BY <1>2, <3>1, ChainRename
      <3>3. \E e \in survivors'[s] : Least(survivors'[s], e)
        BY <1>2, <3>1, <3>2 DEF Chain, Least
      <3>4. file'[s] \in survivors'[s]
        BY <3>1
      <3>. QED
        BY <1>2, <3>1, <3>2, <3>3, <3>4 DEF Chain
    <2>3. ASSUME \A r \in Runs : survivors'[r] = {file'[r]}
          PROVE  Chain'
      <3>1. \A r \in Runs : Extends(file'[r], file'[r])
        BY <1>2, <2>3, ExtendsReflexive DEF FilesInOrder
      <3>. QED
        BY <2>3, <3>1 DEF Chain, Least
    <2>4. ASSUME UNCHANGED file, NamesOnDisk
          PROVE  Chain'
      <3>1. \A r \in Runs : Torn \notin survivors[r]
        BY <1>2, StoreConstants DEF FilesInOrder, Content
      <3>2. \A r \in Runs : survivors'[r] = {file'[r]}
        BY <1>2, <2>4, <3>1 DEF NamesOnDisk, VisibleMaySurvive
      <3>. QED
        BY <2>3, <3>2
    <2>5. ASSUME NEW p \in Procs, Begin(p) \/ Step(p) \/ Failure(p)
          PROVE  Chain' /\ GrowsByOne'
      <3>1. Chain'
        BY <2>1, <2>2, <2>4, <2>5, FilesChange
      <3>2. ASSUME call'[p].pc \in {"write", "rename"}
            PROVE  Growth(call'[p].cur, call'[p].new)
        <4>1. CASE LoadCreate(p) \/ LoadAppend(p) \/ LoadAdmit(p)
          BY <1>2, <3>2, <4>1, LoadDecides DEF Decided
        <4>2. CASE WriteTemporary(p)
          <5>1. /\ call'[p].cur = call[p].cur /\ call'[p].new = call[p].new
                /\ call[p].pc = "write"
            BY <1>2, <4>2 DEF WriteTemporary, At, TypeOK, Call
          <5>. QED
            BY <1>2, <5>1 DEF GrowsByOne, Prepared
        <4>. QED
          BY <1>2, <2>5, <3>2, <4>1, <4>2, WritePath
      <3>3. ASSUME NEW q \in Procs \ {p}, call'[q].pc \in {"write", "rename"}
            PROVE  Growth(call'[q].cur, call'[q].new)
        <4>1. call'[q] = call[q]
          BY <1>2, <2>5, OthersCalls
        <4>. QED
          BY <1>2, <3>3, <4>1 DEF GrowsByOne, Prepared
      <3>4. \A q \in Procs : call'[q].pc \in {"write", "rename"} =>
                               call'[q].cur = file'[call'[q].req.run]
        BY <1>2 DEF Prepared, Of
      <3>5. GrowsByOne'
        BY <3>2, <3>3, <3>4 DEF GrowsByOne, Of
      <3>. QED
        BY <3>1, <3>5
    <2>6. ASSUME PowerLoss
          PROVE  Chain' /\ GrowsByOne'
      <3>1. \A r \in Runs : survivors'[r] = {file'[r]}
        BY <2>6 DEF PowerLoss
      <3>2. GrowsByOne'
        BY <2>6, PowerLossCalls DEF GrowsByOne, Idle
      <3>. QED
        BY <2>3, <3>1, <3>2
    <2>7. ASSUME UNCHANGED <<call, file, survivors>>
          PROVE  Chain' /\ GrowsByOne'
      BY <1>2, <2>1, <2>7 DEF GrowsByOne, Of
    <2>. QED
      BY <1>2, <2>5, <2>6, <2>7 DEF Next, RemoveStaleLock, vars
  <1>. QED
    BY <1>1, <1>2, TypeCorrect, PreparedCorrect, ReviewedCorrect, InOrderCorrect, VisibleCorrect,
       PTL
    DEF Spec

\* A growth by one record, as RunLog describes it.
GrowsAbstractly(old, new) ==
    LET n == Len(old.events)
        rec == Last(new.admissions)
    IN /\ new.contract = old.contract
       /\ Len(new.admissions) = Len(old.admissions) + 1
       /\ new.admissions = Append(old.admissions, rec)
       /\ rec.base = [contract |-> old.contract, events |-> old.events]
       /\ rec.ids # <<>>
       /\ new.events = old.events \o SubSeq(new.events, n + 1, n + Len(rec.ids))
       /\ Len(new.events) = n + Len(rec.ids)
       /\ \A i \in 1 .. Len(rec.ids) :
             /\ new.events[n + i].id = rec.ids[i]
             /\ \A j \in 1 .. n + i - 1 : new.events[j].id # rec.ids[i]

LEMMA GrowthIsAbstract ==
    ASSUME NEW e, Content(e), NEW g, Content(g), Growth(e, g)
    PROVE  GrowsAbstractly(e, g)
  <1>1. e \in Envelope /\ e # NoRun /\ UniqueIds(g.events)
    BY StoreConstants DEF Content, Readable
  <1>2. PICK es \in Seq(Drafts), rec \in Record :
          /\ es # <<>> /\ rec.base = Prefix(e, Len(e.events)) /\ rec.ids = IdSeq(es)
          /\ g = Grown(e, es, rec)
    BY <1>1 DEF Growth
  <1> DEFINE n == Len(e.events)
  <1>3. /\ e.events \in Seq(Drafts) /\ n \in Nat
        /\ e.admissions \in Seq(Record) /\ Len(e.admissions) \in Nat /\ Len(es) \in Nat \ {0}
    BY <1>1, <1>2, EnvelopeFields
  <1>4. /\ g.contract = e.contract /\ g.events = e.events \o es
        /\ g.admissions = Append(e.admissions, rec)
    BY <1>2 DEF Grown
  <1>5. Last(g.admissions) = rec /\ Len(g.admissions) = Len(e.admissions) + 1
    BY <1>3, <1>4 DEF Last
  <1>6. Len(rec.ids) = Len(es) /\ rec.ids # <<>>
    <2>1. Len(rec.ids) = Len(es)
      BY <1>2, IdSeqType
    <2>. QED
      BY <1>3, <2>1
  <1>7. rec.base = [contract |-> e.contract, events |-> e.events]
    <2>1. SubSeq(e.events, 1, Len(e.events)) = e.events
      BY <1>3
    <2>. QED
      BY <1>2, <2>1 DEF Prefix
  <1>8. g.events = e.events \o SubSeq(g.events, n + 1, n + Len(rec.ids))
    <2>1. SubSeq(e.events \o es, n + 1, n + Len(es)) = es
      BY <1>3, BackOfConcat
    <2>. QED
      BY <1>4, <1>6, <2>1
  <1>9. Len(g.events) = n + Len(es) /\ DOMAIN g.events = 1 .. n + Len(es)
    BY <1>3, <1>4
  <1>10. ASSUME NEW i \in 1 .. Len(es)
         PROVE  /\ g.events[n + i].id = rec.ids[i]
                /\ \A j \in 1 .. n + i - 1 : g.events[j].id # rec.ids[i]
    <2>1. (e.events \o es)[n + i] = es[i]
      BY <1>3, AtConcat
    <2>2. rec.ids[i] = es[i].id
      <3>1. DOMAIN es = 1 .. Len(es)
        OBVIOUS
      <3>. QED
        BY <1>2, <3>1 DEF IdSeq
    <2>3. g.events[n + i].id = rec.ids[i]
      BY <1>4, <2>1, <2>2
    <2>4. ASSUME NEW j \in 1 .. n + i - 1
          PROVE  g.events[j].id # rec.ids[i]
      <3>1. j \in 1 .. n + Len(es) /\ n + i \in 1 .. n + Len(es) /\ j # n + i
        BY <1>3
      <3>. QED
        BY <1>9, <1>1, <2>3, <3>1 DEF UniqueIds
    <2>. QED
      BY <2>3, <2>4
  <1>. QED
    BY <1>4, <1>5, <1>6, <1>7, <1>8, <1>9, <1>10 DEF GrowsAbstractly

LEMMA ExtendsIsPast ==
    ASSUME NEW e, e = NoRun \/ Content(e), NEW g, g = NoRun \/ Content(g), Extends(e, g)
    PROVE  Log!IsPast(View(e), View(g))
  <1>1. CASE e = NoRun
    BY <1>1 DEF View, Log!IsPast
  <1>2. CASE e # NoRun
    <2>1. g # NoRun /\ e \in Envelope /\ g \in Envelope
      BY <1>2 DEF Extends, Content
    <2>2. /\ g.contract = e.contract
          /\ IsPrefix(e.events, g.events) /\ IsPrefix(e.admissions, g.admissions)
      BY <1>2, <2>1 DEF Extends
    <2>. QED
      BY <2>1, <2>2, ViewFields DEF Log!IsPast, Log!IsPrefix, IsPrefix
  <1>. QED
    BY <1>1, <1>2

\* A rename leaves what is certain to survive as it is.
LEMMA StableKept ==
    ASSUME FilesInOrder, FilesInOrder', Chain, Chain', NEW s \in Runs, NEW g, Content(g),
           Extends(file[s], g), survivors'[s] = survivors[s] \cup {g}
    PROVE  View(Shortest(survivors'[s])) = View(Shortest(survivors[s]))
  <1> DEFINE x == Shortest(survivors[s])
             y == Shortest(survivors'[s])
  <1>1. Least(survivors[s], x) /\ Least(survivors'[s], y)
    <2>1. (\E e \in survivors[s] : Least(survivors[s], e)) /\ (\E e \in survivors'[s] : Least(survivors'[s], e))
      BY DEF Chain
    <2>. QED
      BY <2>1, ShortestLeast
  <1>. HIDE DEF x, y
  <1>2. Least(survivors'[s], x)
    <2>1. \A e : Least(survivors[s], e) => Least(survivors[s] \cup {g}, e)
      BY ChainRename
    <2>. QED
      BY <1>1, <2>1
  <1>3. /\ Extends(x, y) /\ Extends(y, x)
        /\ x \in survivors'[s] /\ y \in survivors'[s]
    BY <1>1, <1>2 DEF Least
  <1>4. \A e \in survivors'[s] : e = NoRun \/ Content(e)
    BY DEF FilesInOrder
  <1>5. View(x) = View(y)
    BY <1>3, <1>4, ExtendsAntisymmetric
  <1>. QED
    BY <1>5 DEF x, y

\* A rename is a write of the abstract log: the run begins, or grows by one record.
LEMMA RenameWrites ==
    ASSUME TypeOK, Prepared, FilesInOrder, FilesInOrder', WritesInOrder, Chain, Chain',
           GrowsByOne, NEW p \in Procs, RenameTemporary(p)
    PROVE  Log!Write(Of(p).run)
  <1> DEFINE s == Of(p).run
             e == file[s]
             g == call[p].new
             L == [r \in Runs |-> View(file[r])]
             M == [r \in Runs |-> View(file'[r])]
  <1>1. /\ s \in Runs /\ Content(g) /\ Extends(e, g)
        /\ \A r \in Runs \ {s} : file'[r] = file[r] /\ survivors'[r] = survivors[r]
        /\ file'[s] = g /\ survivors'[s] = survivors[s] \cup {g}
    BY RenameEffect
  <1>2. Growth(e, g) /\ (e = NoRun \/ Content(e))
    BY <1>1 DEF GrowsByOne, RenameTemporary, At, FilesInOrder
  <1>3. View(Shortest(survivors'[s])) = View(Shortest(survivors[s]))
    BY <1>1, StableKept
  <1>. HIDE DEF s, e, g
  <1>4. \A r \in Runs \ {s} : M[r] = L[r]
    BY <1>1
  <1>5. [r \in Runs |-> View(Shortest(survivors'[r]))] = [r \in Runs |-> View(Shortest(survivors[r]))]
    BY <1>1, <1>3
  <1>6. L[s] = View(e) /\ M[s] = View(g)
    BY <1>1 DEF e
  <1>7. /\ View(g) # NoRun /\ View(g).contract = g.contract /\ View(g).events = g.events
        /\ View(g).admissions = g.admissions
    BY <1>1, ViewFields DEF Content
  <1>. HIDE DEF L, M
  <1>8. \/ L[s] = NoRun /\ M[s] # NoRun /\ M[s].events = <<>> /\ M[s].admissions = <<>>
        \/ L[s] # NoRun /\ M[s] # NoRun /\ GrowsAbstractly(L[s], M[s])
    <2>1. CASE e = NoRun
      <3>1. g.events = <<>> /\ g.admissions = <<>>
        BY <1>2, <2>1, StoreConstants DEF Growth
      <3>. QED
        BY <1>6, <1>7, <2>1, <3>1 DEF View
    <2>2. CASE e # NoRun
      <3>1. /\ View(e) # NoRun /\ View(e).contract = e.contract /\ View(e).events = e.events
            /\ View(e).admissions = e.admissions
        BY <1>2, <2>2, ViewFields DEF Content
      <3>2. GrowsAbstractly(e, g)
        BY <1>1, <1>2, <2>2, GrowthIsAbstract
      <3>3. GrowsAbstractly(View(e), View(g))
        BY <1>7, <3>1, <3>2 DEF GrowsAbstractly
      <3>. QED
        BY <1>6, <1>7, <3>1, <3>3
    <2>. QED
      BY <2>1, <2>2
  <1>9. Log!Begins(s) \/ Log!Grows(s)
    BY <1>8 DEF GrowsAbstractly, Log!Begins, Log!Grows, Log!Last, Last, L, M, View
  <1>10. /\ \A r \in Runs \ {s} : [x \in Runs |-> View(file[x])]'[r] = [x \in Runs |-> View(file[x])][r]
         /\ UNCHANGED [r \in Runs |-> View(Oldest(r))]
    BY <1>4, <1>5 DEF L, M, Oldest, View
  <1>11. Log!Write(s)
    BY <1>9, <1>10 DEF Log!Write
  <1>. QED
    BY <1>11 DEF s

\* When every run file is the only one that may survive, the whole log is stable.
LEMMA AllStable ==
    ASSUME FilesInOrder', \A r \in Runs : survivors'[r] = {file'[r]}
    PROVE  \A r \in Runs : Shortest(survivors'[r]) = file'[r]
  <1>1. ASSUME NEW r \in Runs
        PROVE  Shortest(survivors'[r]) = file'[r]
    <2>1. file'[r] = NoRun \/ Content(file'[r])
      BY DEF FilesInOrder
    <2>2. Least(survivors'[r], file'[r])
      BY <2>1, ExtendsReflexive DEF Least
    <2>3. Least(survivors'[r], Shortest(survivors'[r]))
      BY <2>2, ShortestLeast
    <2>. QED
      BY <2>3 DEF Least
  <1>. QED
    BY <1>1

\* The store implements the abstract log: a rename is one write of it, a directory sync makes it
\* stable, a power loss takes it back no further than what was stable, and no other step shows.
THEOREM StoreImplementsLog == Spec => ImplementsRunLog
  <1>1. Init => Log!Init
    <2>1. ASSUME Init
          PROVE  Log!Init
      <3>1. \A r \in Runs : file[r] = NoRun /\ survivors[r] = {NoRun}
        BY <2>1 DEF Init
      <3>2. Shortest({NoRun}) = NoRun
        BY DEF Shortest, Extends
      <3>3. View(NoRun) = NoRun
        BY DEF View
      <3>4. \A r \in Runs : View(file[r]) = NoRun /\ View(Oldest(r)) = NoRun
        BY <3>1, <3>2, <3>3 DEF Oldest
      <3>. QED
        BY <3>4 DEF Log!Init
    <2>. QED
      BY <2>1
  <1>2. ASSUME TypeOK, Prepared, FilesInOrder, FilesInOrder', WritesInOrder, Chain, Chain',
               GrowsByOne, [Next]_vars
        PROVE  [Log!Next]_(Log!vars)
    <2>1. ASSUME UNCHANGED <<file, survivors>>
          PROVE  UNCHANGED Log!vars
      BY <2>1 DEF Log!vars, Oldest
    <2>2. ASSUME NEW p \in Procs, RenameTemporary(p)
          PROVE  Log!Next
      <3>1. Of(p).run \in Runs
        BY <1>2, <2>2, RenameEffect
      <3>2. Log!Write(Of(p).run)
        BY <1>2, <2>2, RenameWrites
      <3>. QED
        BY <3>1, <3>2 DEF Log!Next
    <2>3. ASSUME UNCHANGED file, NamesOnDisk
          PROVE  Log!Next
      <3>1. \A r \in Runs : Torn \notin survivors[r]
        BY <1>2, StoreConstants DEF FilesInOrder, Content
      <3>2. \A r \in Runs : survivors'[r] = {file'[r]}
        BY <1>2, <2>3, <3>1 DEF NamesOnDisk, Chain
      <3>3. \A r \in Runs : Shortest(survivors'[r]) = file[r]
        BY <1>2, <2>3, <3>2, AllStable
      <3>4. Log!Stabilise
        BY <2>3, <3>3 DEF Log!Stabilise, Oldest
      <3>. QED
        BY <3>4 DEF Log!Next
    <2>4. ASSUME PowerLoss
          PROVE  Log!Next
      <3>1. \A r \in Runs : file'[r] \in survivors[r] /\ survivors'[r] = {file'[r]}
        BY <2>4 DEF PowerLoss
      <3>2. \A r \in Runs : Shortest(survivors'[r]) = file'[r]
        BY <1>2, <3>1, AllStable
      <3>3. ASSUME NEW r \in Runs
            PROVE  /\ Log!IsPast(View(Shortest(survivors[r])), View(file'[r]))
                   /\ Log!IsPast(View(file'[r]), View(file[r]))
        <4>1. Least(survivors[r], Shortest(survivors[r]))
          BY <1>2, ShortestLeast DEF Chain
        <4>2. /\ Shortest(survivors[r]) \in survivors[r]
              /\ Extends(Shortest(survivors[r]), file'[r])
              /\ Extends(file'[r], file[r])
          BY <1>2, <3>1, <4>1 DEF Least, Chain
        <4>3. \A e \in survivors[r] \cup {file[r]} : e = NoRun \/ Content(e)
          BY <1>2 DEF FilesInOrder
        <4>. QED
          BY <3>1, <4>2, <4>3, ExtendsIsPast
      <3>4. Log!PowerLoss
        BY <3>2, <3>3 DEF Log!PowerLoss, Oldest
      <3>. QED
        BY <3>4 DEF Log!Next
    <2>5. ASSUME NEW p \in Procs, Begin(p) \/ Step(p) \/ Failure(p)
          PROVE  [Log!Next]_(Log!vars)
      BY <2>1, <2>2, <2>3, <2>5, FilesChange
    <2>. QED
      BY <1>2, <2>1, <2>4, <2>5 DEF Next, RemoveStaleLock, vars
  <1>. QED
    BY <1>1, <1>2, TypeCorrect, PreparedCorrect, InOrderCorrect, ChainCorrect, PTL
    DEF Spec, ImplementsRunLog, Log!Spec

============================================================================
