---------------------------- MODULE InterfaceEval ----------------------------
(***************************************************************************)
(* The interface benchmark: scripts/run-model-interface-eval.mjs asks a    *)
(* model for an answer, for an answer and a memory, or for events and a    *)
(* query; scripts/score-model-interface-eval.mjs reads the file and        *)
(* reproduces what it can before it counts anything.                       *)
(*                                                                         *)
(* One case, one repeat and one arm.  A delta is a sequence of events with *)
(* the evidence each one cites; the size of a state is its number of       *)
(* events beyond the setup.                                                *)
(***************************************************************************)
EXTENDS ModelProposal

CONSTANTS
    Arms,               \* of "direct", "narrative-memory", "structured-extraction", "timeline"
    SetupEvents,        \* the run the case starts from
    GoldDeltas,         \* GoldDeltas[k]: what should be recorded at cut k
    CutOf,              \* CutOf[e]: the cut that brings evidence e
    InterfaceAnswers,   \* what an adapter may do with a request
    MaxDelta,           \* MAX_TIMELINE_EVENTS_PER_RESPONSE
    StateBudget,        \* the continuity budget
    Overflows(_, _)     \* whether a query leaves the exact numbers of the kernel on a run

DeltaCodes ==
    {"event.delta-limit", "event.duplicate-claim", "event.declaration-not-allowed",
     "evidence.not-visible", "event.evidence-order"}

\* A JSON array.
IsList(s) == Len(s) \in Nat /\ s = [i \in 1..Len(s) |-> s[i]]

\* What an adapter's line is known by.
InterfaceAnswer(a) ==
    /\ a.kind \in {"process", "error", "junk", "answer", "memory", "delta"}
    /\ a.kind = "memory" => a.memory # Null /\ a.fits \in BOOLEAN
    /\ a.kind = "delta" => a.delta # Null /\ IsList(a.delta)

ASSUME InterfaceConstants ==
    /\ {MaxDelta, StateBudget} \subseteq Nat
    /\ Arms \subseteq {"direct", "narrative-memory", "structured-extraction", "timeline"}
    /\ IsList(SetupEvents) /\ IsList(GoldDeltas)
    /\ Null \notin InterfaceAnswers /\ \A a \in InterfaceAnswers : InterfaceAnswer(a)
    /\ Null \notin BOOLEAN
    /\ Null \notin DeltaCodes \cup {"adapter", "protocol", "admission", "query", "reasoning",
                                   "memory", "state.over-budget"}

VARIABLES
    arm,        \* the arm of the behaviour
    forced,     \* whether priorStateMode is "teacher-forced"
    carried,    \* what the runner carries to the next cut: memory, events, cuts
    records,    \* the results file
    verdict     \* "running", "aborted", "published", "scored", "refused"

interfaceVars == <<arm, forced, carried, records, verdict>>

LastCut == Len(GoldDeltas)
EventsOf(delta) == [i \in DOMAIN delta |-> delta[i].event]
HasRun == arm \in {"structured-extraction", "timeline"}

----------------------------------------------------------------------------
(* What both programs use: scripts/model-interface-eval.mjs                *)

\* visibleEvidence, currentEvidence
EvidenceFor(k) == {e \in Evidence : IF arm = "structured-extraction" THEN CutOf[e] =< k ELSE CutOf[e] = k}

\* modelEventFingerprint: everything but the identifier.
Fingerprint(item) ==
    <<[f \in DOMAIN item.event \ {"id"} |-> item.event[f]], item.refs>>

Latest(refs) == CHOOSE k \in 1..LastCut : (\E e \in refs : CutOf[e] = k)
                                          /\ \A e \in refs : CutOf[e] =< k

\* assertModelTimelineDelta, the checks of declarations and of evidence, and
\* assertStructuredEventOrder: the code of the first failure, or Null.
DeltaError(delta, k) ==
    LET declared(i) == delta[i].event.type \in {"point", "interval"}
        unseen(i) == ~(delta[i].refs \subseteq EvidenceFor(k))
        bad == {i \in DOMAIN delta : declared(i) \/ unseen(i)}
    IN IF Len(delta) > MaxDelta THEN "event.delta-limit"
       ELSE IF \E i, j \in DOMAIN delta : i < j /\ Fingerprint(delta[i]) = Fingerprint(delta[j])
       THEN "event.duplicate-claim"
       ELSE IF bad # {}
       THEN IF declared(CHOOSE i \in bad : \A j \in bad : i =< j)
            THEN "event.declaration-not-allowed" ELSE "evidence.not-visible"
       ELSE IF /\ arm = "structured-extraction"
               /\ \E i, j \in DOMAIN delta :
                      /\ i < j /\ delta[i].refs # {} /\ delta[j].refs # {}
                      /\ Latest(delta[j].refs) < Latest(delta[i].refs)
       THEN "event.evidence-order"
       ELSE Null

\* parseRunDocumentV0Alpha3, on a run that was valid before the delta.
RunParses(prior, delta) == RunFits(prior, prior \o EventsOf(delta))

\* parseQueryV0Alpha3
QueryParses(run, query) == query.cut =< Len(run) /\ QueryFits(run, query.target, query.cut)

\* continuityStateBytes
StateSize(run) == Len(run) - Len(SetupEvents)

\* validateAdapterResponse: an envelope, or the fields of the arm.
ResponseValid(a) ==
    \/ a.kind = "error"
    \/ a.kind = "answer" /\ arm = "direct"
    \/ a.kind = "memory" /\ arm = "narrative-memory"
    \/ a.kind = "delta" /\ HasRun

----------------------------------------------------------------------------
(* The runner                                                              *)

NextCutIndex == Len(records) + 1

\* goldPriorState
GoldPrior(k) ==
    [memory |-> "", events |-> SetupEvents \o FlattenSeq(SubSeq(GoldDeltas, 1, k - 1)),
     cuts |-> [j \in 1..k - 1 |->
                  Len(SetupEvents) + Len(FlattenSeq(SubSeq(GoldDeltas, 1, j)))]]

\* The events of the corpus before a cut are a run.
ASSUME GoldRuns == \A k \in 1..LastCut : IsList(GoldPrior(k).events)

\* What the request of a cut carries: structured extraction starts from the setup.
PriorAt(k, state) ==
    IF arm = "structured-extraction" THEN [memory |-> "", events |-> SetupEvents, cuts |-> <<>>]
    ELSE IF forced THEN GoldPrior(k) ELSE state

Unanswered(k, prior) ==
    [cut |-> k, prior |-> prior, answer |-> Null, stage |-> Null, code |-> Null,
     answered |-> FALSE, memory |-> Null, delta |-> Null, query |-> Null,
     admitted |-> Null, size |-> Null, message |-> Null]

Fails(r, stage, code) ==
    [r EXCEPT !.stage = stage, !.code = code,
              !.admitted = IF HasRun /\ @ = Null THEN FALSE ELSE @]

\* boundedErrorMessage, for a message of 1 to 480 characters: half of a surrogate pair is
\* replaced.
Bounded(message) == IF message = "unpaired" THEN "replaced" ELSE message

\* The structured arms, once the answer is valid.  The proof of an answer verifies: this
\* is checked of the kernel itself.
Admit(r, k, prior) ==
    LET run == prior.events \o EventsOf(r.delta)
        sized == [r EXCEPT !.size = StateSize(run)]
        admitted == [sized EXCEPT !.admitted = TRUE]
    IN IF DeltaError(r.delta, k) # Null THEN Fails(r, "admission", DeltaError(r.delta, k))
       ELSE IF ~RunParses(prior.events, r.delta) THEN Fails(r, "admission", "run.rejected")
       ELSE IF StateSize(run) > StateBudget THEN Fails(sized, "admission", "state.over-budget")
       ELSE IF ~QueryParses(run, r.query) THEN Fails(admitted, "query", "query.rejected")
       ELSE IF Overflows(run, r.query) THEN Fails(admitted, "reasoning", "reasoning.failed")
       ELSE [admitted EXCEPT !.answered = TRUE]

\* One request: validateAdapterResponse, then what the arm does with the answer.
Ask(k, prior, a) ==
    LET r == Unanswered(k, prior)
        read == [r EXCEPT !.answer = a]
    IN CASE a.kind = "process" -> Fails(r, "adapter", a.code)
         [] a.kind # "process" /\ ~ResponseValid(a) -> Fails(read, "protocol", "response.invalid")
         [] a.kind = "error" ->
                Fails([read EXCEPT !.message = Bounded(a.message)], "adapter", a.code)
         [] a.kind = "answer" /\ ResponseValid(a) -> [read EXCEPT !.answered = TRUE]
         [] a.kind = "memory" /\ ResponseValid(a) ->
                LET kept == [read EXCEPT !.answered = TRUE, !.memory = a.memory]
                IN IF a.fits THEN kept ELSE Fails(kept, "memory", "memory.over-budget")
         [] a.kind = "delta" /\ ResponseValid(a) ->
                Admit([read EXCEPT !.delta = a.delta, !.query = a.query], k, prior)

\* Mutation of Carries: events are kept only when the query was answered, too.
CarriesAnswered(state, r) ==
    LET kept == IF r.stage = Null /\ arm = "timeline"
                THEN state.events \o EventsOf(r.delta) ELSE state.events
    IN [memory |-> IF arm = "narrative-memory" /\ r.stage = Null THEN r.memory ELSE state.memory,
        events |-> kept, cuts |-> Append(state.cuts, Len(kept))]

\* What the next cut starts from: a memory that was in budget, events that were
\* admitted, even if their query was not.
Carries(state, r) ==
    LET kept == IF r.admitted = TRUE /\ arm = "timeline"
                THEN state.events \o EventsOf(r.delta) ELSE state.events
    IN [memory |-> IF arm = "narrative-memory" /\ r.stage = Null THEN r.memory ELSE state.memory,
        events |-> kept, cuts |-> Append(state.cuts, Len(kept))]

RunEnds(a) ==
    \/ a.kind = "process" /\ a.code = "adapter.start"
    \/ a.kind = "error" /\ a.scope = "run"

RecordResult(a) ==
    /\ verdict = "running" /\ NextCutIndex =< LastCut
    /\ IF RunEnds(a)
       THEN verdict' = "aborted" /\ records' = <<>> /\ UNCHANGED carried
       ELSE LET r == Ask(NextCutIndex, PriorAt(NextCutIndex, carried), a)
            IN /\ records' = Append(records, r)
               /\ carried' = IF forced THEN carried ELSE Carries(carried, r)
               /\ UNCHANGED verdict
    /\ UNCHANGED <<arm, forced>>

PublishRecords ==
    /\ verdict = "running" /\ NextCutIndex > LastCut
    /\ verdict' = "published"
    /\ UNCHANGED <<arm, forced, carried, records>>

\* Between the programs: the file loses a line.
LoseRecord(n) ==
    /\ verdict = "published" /\ Len(records) = LastCut
    /\ records' = SubSeq(records, 1, n - 1) \o SubSeq(records, n + 1, LastCut)
    /\ UNCHANGED <<arm, forced, carried, verdict>>

----------------------------------------------------------------------------
(* The scorer                                                              *)

\* validateStoredDelta
StoredDeltaError(r) == IF r.delta = Null THEN Null ELSE DeltaError(r.delta, r.cut)

\* validateResult
ResultValid(r) ==
    /\ ~HasRun => r.delta = Null /\ r.admitted = Null /\ r.size = Null
    /\ arm # "narrative-memory" => r.memory = Null
    /\ r.stage = Null =>
           /\ r.answered
           /\ arm = "narrative-memory" => r.memory # Null
           /\ HasRun => r.admitted = TRUE /\ r.delta # Null /\ r.size # Null
    /\ HasRun /\ r.size # Null /\ r.size > StateBudget =>
           r.admitted = FALSE /\ r.stage = "admission" /\ r.code = "state.over-budget"
    /\ HasRun /\ r.code = "state.over-budget" => r.size # Null /\ r.size > StateBudget
    /\ HasRun /\ StoredDeltaError(r) # Null =>
           /\ r.admitted = FALSE /\ r.stage = "admission" /\ r.code = StoredDeltaError(r)
           /\ r.size = Null

\* validateRawResponse
RawResponseHolds(r) ==
    LET a == r.answer
    IN IF a = Null THEN r.stage \in {"adapter", "protocol"}
       ELSE IF ~ResponseValid(a) THEN r.stage = "protocol"
       ELSE /\ r.stage # "protocol"
            /\ CASE a.kind = "error" ->
                        r.stage = "adapter" /\ r.code = a.code /\ r.message = a.message
                 [] a.kind = "answer" -> r.stage = Null /\ r.answered
                 [] a.kind = "memory" ->
                        /\ r.answered /\ r.memory = a.memory
                        /\ IF a.fits THEN r.stage = Null
                           ELSE r.stage = "memory" /\ r.code = "memory.over-budget"
                 [] a.kind = "delta" -> r.delta = a.delta /\ r.query = a.query

\* assertTimelineFailure
FailedAs(r, stage, code) == r.stage = stage /\ r.code = code /\ ~r.answered

\* reproduceTimelineResult
Reproduces(r, prior) ==
    IF r.delta = Null THEN r.stage # Null /\ r.admitted = FALSE /\ r.size = Null
    ELSE IF DeltaError(r.delta, r.cut) # Null
    THEN FailedAs(r, "admission", DeltaError(r.delta, r.cut)) /\ r.admitted = FALSE /\ r.size = Null
    ELSE IF ~RunParses(prior, r.delta)
    THEN FailedAs(r, "admission", "run.rejected") /\ r.admitted = FALSE /\ r.size = Null
    ELSE LET run == prior \o EventsOf(r.delta)
         IN /\ r.size = StateSize(run)
            /\ IF r.size > StateBudget
               THEN FailedAs(r, "admission", "state.over-budget") /\ r.admitted = FALSE
               ELSE /\ r.admitted = TRUE
                    /\ IF ~QueryParses(run, r.query) THEN FailedAs(r, "query", "query.rejected")
                       ELSE IF Overflows(run, r.query)
                       THEN FailedAs(r, "reasoning", "reasoning.failed")
                       ELSE r.stage = Null /\ r.answered

\* inferStructuredKnowledgeCuts reads events until one whose evidence no cut up to the
\* record's brings, and the evidence of one that is no retraction from its assertion:
\* there is none in a declaration.
CutsInferred(r) ==
    r.delta = Null \/
    \A i \in DOMAIN r.delta :
        r.delta[i].event.type \in {"point", "interval"} =>
            \E j \in 1..i - 1 : ~(r.delta[j].refs \subseteq EvidenceFor(r.cut))

\* The queries of projectedStateSignature: the consistency of each context, and the
\* relations of two points or of two intervals of the setup.
SignatureQueries(run) ==
    LET About(type, left, right) ==
            [type |-> type, target |-> [type |-> type, left |-> left, right |-> right],
             cut |-> Len(run)]
        pairs == {p \in (DOMAIN SetupEvents) \X (DOMAIN SetupEvents) : p[1] < p[2]}
        Both(kind) == {p \in pairs : /\ {SetupEvents[p[1]].type, SetupEvents[p[2]].type} = {kind}
                                     /\ SetupEvents[p[1]].context = SetupEvents[p[2]].context}
        points == {p \in Both("point") : SetupEvents[p[1]].axis = SetupEvents[p[2]].axis}
    IN {About("context", c, Null) : c \in Contexts}
       \cup {About(type, SetupEvents[p[1]].id, SetupEvents[p[2]].id) :
                 type \in {"difference", "point-relation"}, p \in points}
       \cup {About("interval-relation", SetupEvents[p[1]].id, SetupEvents[p[2]].id) :
                 p \in Both("interval")}

\* projectedStateSignature returns.
HasSignature(run) ==
    \A query \in SignatureQueries(run) : QueryParses(run, query) /\ ~Overflows(run, query)

\* An admitted record is compared with what should be recorded by the signatures of
\* both runs.
Compared(r, prior) ==
    r.admitted = TRUE =>
        HasSignature(prior \o EventsOf(r.delta)) /\ HasSignature(GoldPrior(r.cut + 1).events)

\* The replayed state after a record and before a cut, attachTimelineDiagnostics
\* and validateNarrativeContinuity.
Replay(state, r) ==
    LET next == IF arm = "timeline" /\ r.admitted = TRUE
                THEN state.events \o EventsOf(r.delta) ELSE state.events
    IN [memory |-> IF arm = "narrative-memory" /\ r.stage = Null THEN r.memory ELSE state.memory,
        events |-> next, cuts |-> Append(state.cuts, Len(next))]

Replayed(k) ==
    LET state[n \in 0..Len(records)] ==
            IF n = 0 THEN [memory |-> "", events |-> SetupEvents, cuts |-> <<>>]
            ELSE IF records[n].cut < k THEN Replay(state[n - 1], records[n])
            ELSE state[n - 1]
    IN state[Len(records)]

\* A cut is missing before one that is not.
Gap == \E n \in DOMAIN records : records[n].cut # n

\* attachTimelineDiagnostics, attachStructuredExtractionDiagnostics and
\* validateNarrativeContinuity, for a record.
ContinuityHolds(r) ==
    CASE arm = "direct" -> TRUE
      [] arm = "narrative-memory" -> ~Gap /\ r.prior.memory = Replayed(r.cut).memory
      [] arm = "structured-extraction" ->
            CutsInferred(r) /\ Reproduces(r, SetupEvents) /\ Compared(r, SetupEvents)
      [] arm = "timeline" ->
            /\ ~Gap
            /\ LET prior == PriorAt(r.cut, Replayed(r.cut))
               IN /\ r.prior.events = prior.events /\ r.prior.cuts = prior.cuts
                  /\ Reproduces(r, prior.events) /\ Compared(r, prior.events)

RecordHolds(r) == ResultValid(r) /\ RawResponseHolds(r) /\ ContinuityHolds(r)

ScoreRecords ==
    /\ verdict = "published" /\ records # <<>>
    /\ verdict' = IF \A n \in DOMAIN records : RecordHolds(records[n]) THEN "scored" ELSE "refused"
    /\ UNCHANGED <<arm, forced, carried, records>>

InterfaceInit ==
    /\ arm \in Arms
    /\ forced \in BOOLEAN /\ (forced => arm = "timeline")
    /\ carried = [memory |-> "", events |-> SetupEvents, cuts |-> <<>>]
    /\ records = <<>> /\ verdict = "running"

InterfaceNext ==
    \/ \E a \in InterfaceAnswers : RecordResult(a)
    \/ PublishRecords
    \/ \E n \in DOMAIN records : LoseRecord(n)
    \/ ScoreRecords

InterfaceSpec == InterfaceInit /\ [][InterfaceNext]_interfaceVars

----------------------------------------------------------------------------
(* Properties                                                              *)

\* The adapter of a structured arm reported a failure with the code that the scorer
\* keeps for a state over its budget.
ReservedCode(r) == HasRun /\ r.stage = "adapter" /\ r.code = "state.over-budget"

\* The runner did not keep the message of an error as it was.
AlteredRecord(r) ==
    /\ r.stage = "adapter" /\ r.answer # Null /\ r.answer.kind = "error"
    /\ r.message # r.answer.message

\* A file is turned away exactly when structured extraction declared something before any
\* evidence that is yet to come, when an arm that carries state has a gap before a later
\* cut, when an adapter reported a reserved code or a message that is not kept, or when a
\* query that nobody asked overflows: one of the signature of an admitted run or of the run
\* it is compared with.  Everything else the runner writes, the scorer reproduces.
TurnedAwayExactly ==
    verdict \in {"scored", "refused"} =>
        (verdict = "refused" <=>
            \/ arm = "structured-extraction" /\ \E n \in DOMAIN records : ~CutsInferred(records[n])
            \/ arm \in {"timeline", "narrative-memory"} /\ Gap
            \/ \E n \in DOMAIN records :
                   \/ ReservedCode(records[n]) \/ AlteredRecord(records[n])
                   \/ HasRun /\ ~Compared(records[n], records[n].prior.events))

Claims(r) ==
    {[r EXCEPT !.stage = s, !.code = c, !.admitted = d, !.answered = b, !.size = z] :
        s \in {Null, "adapter", "protocol", "admission", "query", "reasoning", "memory"},
        c \in {Null, r.code, "run.rejected", "state.over-budget", "query.rejected",
               "reasoning.failed"},
        d \in {TRUE, FALSE, Null}, b \in {TRUE, FALSE}, z \in {Null, r.size, 1}}

InterfaceForgeries(r) == {f \in Claims(r) : f.stage = Null <=> f.code = Null}

\* What a record claims came of the answer: a failure counts no answer, even if the
\* record holds one.
Claim(r) ==
    <<r.stage = Null /\ r.answered, r.admitted, r.size, r.stage,
      IF r.answer = Null \/ r.stage = "protocol" THEN Null ELSE r.code>>

\* Of all records of a cut with the same answer, the scorer takes those that claim
\* what the runner claims: admission, size and failure are reproduced, not read.
OnlyReproducedScores ==
    verdict = "running" /\ NextCutIndex =< LastCut =>
        \A a \in InterfaceAnswers :
            LET prior == PriorAt(NextCutIndex, carried)
                r == Ask(NextCutIndex, prior, a)
            IN /\ ~RunEnds(a) /\ a.kind # "process"
               /\ arm = "structured-extraction" => CutsInferred(r)
               => \A f \in InterfaceForgeries(r) :
                     Claim(f) # Claim(r) =>
                         ~/\ ResultValid(f) /\ RawResponseHolds(f)
                          /\ HasRun => Reproduces(f, prior.events)
=============================================================================
