---------------------------- MODULE ProposalEval ----------------------------
(***************************************************************************)
(* The proposal benchmark: scripts/run-model-proposal-eval.mjs asks an     *)
(* adapter at every cut of a case and records what came back and what      *)
(* became of it; scripts/score-model-proposal-eval.mjs reads the file and  *)
(* does everything again before it counts anything.                        *)
(*                                                                         *)
(* One case and one repeat.  A line holds its request as the trajectory it *)
(* was made from, and the answer of the adapter as what it is: a failure   *)
(* of the process, text, a JSON value, an error envelope or a proposal.    *)
(***************************************************************************)
EXTENDS ProposalBoundary

CONSTANTS
    Answers,            \* what an adapter may do with a request
    ContinuityLimit,    \* active assertions that still fit the continuity state
    MaxDamage           \* lines of a published file that get lost or repeated

\* What a line of the adapter is known by.
Answer(a) ==
    /\ a.kind \in {"process", "text", "value", "error", "proposal"}
    /\ a.kind = "error" =>
           /\ {a.exact, a.request, a.formed} \subseteq BOOLEAN
           /\ a.scope \in {"run", "observation"}

ASSUME EvalConstants ==
    /\ ContinuityLimit \in Nat /\ MaxDamage \in Nat
    /\ Null \notin Answers /\ \A a \in Answers : Answer(a)
    /\ Null \notin BOOLEAN
    /\ Null \notin {"bad", "adapter", "protocol", "response-schema", "compilation", "application"}

VARIABLES
    lines,      \* the results file
    phase,      \* "running", "published", "aborted", "scoring", "scored", "refused"
    damage,     \* lines lost or repeated so far
    score       \* the scorer: cut, trajectory, continuity, cuts that count

evalVars == <<boundaryVars, lines, phase, damage, score>>

----------------------------------------------------------------------------
(* The runner                                                              *)

Aborted(a) ==
    \/ a.kind = "process" /\ a.code = "adapter.start"
    \/ /\ a.kind = "error" /\ a.usage # "bad"
       /\ a.exact /\ a.request /\ a.formed /\ a.scope = "run"

\* createResult
Blank(t, a) ==
    [request |-> t, answer |-> IF a.kind = "process" THEN Null ELSE a, usage |-> Null,
     stage |-> Null, code |-> Null, proposal |-> Null, valid |-> Null, compiled |-> Null,
     applied |-> Null, message |-> Null]

\* boundedErrorMessage, for a message of 1 to 480 characters: a control character or half
\* of a surrogate pair is replaced.
Sanitized(message) == IF message \in {"control", "unpaired"} THEN "replaced" ELSE message

\* The message of a failure is kept where the scorer compares it with the answer.
Failed(line, stage, code) == [line EXCEPT !.stage = stage, !.code = code]

ProposalFits(t, proposal) == proposal # Null /\ InSchema(ObservationAt(t), proposal)

\* evaluateBoundaryProposal: the visible state is too large.
TooLarge(t) == Cardinality(Active(t.events)) > ContinuityLimit

Judged(t, line, proposal) ==
    IF ~ProposalFits(t, proposal)
    THEN Failed([line EXCEPT !.valid = FALSE], "response-schema", "proposal.schema")
    ELSE LET read == [line EXCEPT !.valid = TRUE, !.proposal = proposal]
         IN IF ~Compiles(ObservationAt(t), proposal)
            THEN Failed([read EXCEPT !.compiled = FALSE], "compilation", "proposal.compile")
            ELSE IF TooLarge(Staged(t, proposal))
            THEN Failed([read EXCEPT !.compiled = TRUE, !.applied = FALSE], "application",
                        "proposal.continuity-limit")
            ELSE [read EXCEPT !.compiled = TRUE, !.applied = TRUE]

\* Mutation of Observe: a failure the adapter reports loses its usage.
ObserveNoUsage(t, a) ==
    LET line == Blank(t, a)
    IN CASE a.kind = "process" -> Failed(line, "adapter", a.code)
         [] a.kind = "text" -> Failed(line, "protocol", "response.invalid-json")
         [] a.kind = "value" -> Failed(line, "protocol", "response.invalid")
         [] a.kind = "error" /\ ~(a.exact /\ a.request /\ a.formed) ->
                Failed(line, "protocol", "response.invalid")
         [] a.kind = "error" /\ a.exact /\ a.request /\ a.formed ->
                Failed([line EXCEPT !.message = Sanitized(a.message)], "adapter", a.code)
         [] OTHER -> Judged(t, line, a.proposal)

\* validateAdapterError: only a mismatched request keeps its usage in a failure of
\* the protocol.
Reported(line, kept, a) ==
    IF a.exact /\ ~a.request THEN Failed(kept, "protocol", "response.request-id")
    ELSE IF ~(a.exact /\ a.formed) THEN Failed(line, "protocol", "response.invalid")
    ELSE Failed([kept EXCEPT !.message = Sanitized(a.message)], "adapter", a.code)

\* parseAdapterLine, parseAdapterResponse and what follows: the usage is judged
\* before the rest.
Observe(t, a) ==
    LET line == Blank(t, a)
        used == IF a.kind \in {"error", "proposal"} /\ a.usage # "absent" THEN a.usage ELSE Null
        kept == [line EXCEPT !.usage = used]
    IN CASE a.kind = "process" -> Failed(line, "adapter", a.code)
         [] a.kind = "text" -> Failed(line, "protocol", "response.invalid-json")
         [] a.kind = "value" -> Failed(line, "protocol", "response.invalid")
         [] used = "bad" -> Failed(line, "protocol", "response.usage")
         [] a.kind = "error" /\ used # "bad" -> Reported(line, kept, a)
         [] a.kind = "proposal" /\ used # "bad" -> Judged(t, kept, a.proposal)

After(t, line) == IF line.applied = TRUE THEN Completed(Staged(t, line.proposal)) ELSE Completed(t)

RecordLine(a) ==
    /\ phase = "running" /\ MoreCuts(Trajectory) /\ ~Aborted(a)
    /\ LET line == Observe(Trajectory, a)
       IN lines' = Append(lines, line) /\ Becomes(After(Trajectory, line))
    /\ UNCHANGED <<phase, damage, score>>

Abort(a) ==
    /\ phase = "running" /\ MoreCuts(Trajectory) /\ Aborted(a)
    /\ phase' = "aborted" /\ lines' = <<>>
    /\ UNCHANGED <<boundaryVars, damage, score>>

PublishResults ==
    /\ phase = "running" /\ ~MoreCuts(Trajectory)
    /\ phase' = "published"
    /\ UNCHANGED <<boundaryVars, lines, damage, score>>

\* Between the programs: the file loses a line, or holds one twice.
LoseLine(n) ==
    /\ phase = "published" /\ damage < MaxDamage /\ Len(lines) > 1
    /\ damage' = damage + 1
    /\ lines' = SubSeq(lines, 1, n - 1) \o SubSeq(lines, n + 1, Len(lines))
    /\ UNCHANGED <<boundaryVars, phase, score>>

RepeatLine(n) ==
    /\ phase = "published" /\ damage < MaxDamage
    /\ damage' = damage + 1
    /\ lines' = Append(lines, lines[n])
    /\ UNCHANGED <<boundaryVars, phase, score>>

----------------------------------------------------------------------------
(* The scorer                                                              *)

\* result.schema.json
InResultSchema(r) ==
    /\ r.stage = Null => r.answer # Null /\ r.valid = TRUE /\ r.compiled = TRUE /\ r.applied = TRUE
    /\ r.valid = TRUE => r.proposal # Null
    /\ r.valid = FALSE => r.proposal = Null /\ r.compiled = Null /\ r.applied = Null
    /\ r.compiled = TRUE => r.valid = TRUE
    /\ r.compiled = FALSE => r.applied = Null
    /\ r.applied = TRUE => r.compiled = TRUE
    /\ r.answer = Null => r.valid = Null /\ r.compiled = Null /\ r.applied = Null

\* validatePipelineShape
PipelineShape(r) ==
    CASE r.stage = Null -> TRUE
      [] r.stage \in {"adapter", "protocol"} ->
            r.proposal = Null /\ r.valid = Null /\ r.compiled = Null /\ r.applied = Null
      [] r.stage = "response-schema" -> r.valid = FALSE
      [] r.stage = "compilation" -> r.valid = TRUE /\ r.compiled = FALSE
      [] r.stage = "application" -> r.valid = TRUE /\ r.compiled = TRUE /\ r.applied = FALSE

\* validateAdapterErrorResponse: the message is compared as the adapter sent it.
ErrorMatches(r) ==
    /\ r.answer.exact /\ r.answer.request /\ r.answer.formed
    /\ r.answer.scope = "observation"
    /\ r.stage = "adapter" /\ r.code = r.answer.code /\ r.message = r.answer.message
    /\ r.usage = IF r.answer.usage = "absent" THEN Null ELSE r.answer.usage

UsageMatches(r) == r.usage = IF r.answer.usage = "absent" THEN Null ELSE r.answer.usage

\* validateSafeResponseIntegrity
ResponseIntact(r) ==
    CASE r.answer = Null -> TRUE
      [] r.answer # Null /\ r.answer.kind \in {"text", "value"} -> r.stage = "protocol"
      [] r.answer # Null /\ r.answer.kind = "error" -> ErrorMatches(r)
      [] r.answer # Null /\ r.answer.kind = "proposal" ->
            UsageMatches(r) /\ (r.valid = TRUE => r.proposal = r.answer.proposal)

\* validateStoredResponse
ResponseHolds(t, r) ==
    CASE r.answer = Null -> r.stage \in {"adapter", "protocol"}
      [] r.answer # Null /\ r.answer.kind \in {"text", "value", "error"} -> ResponseIntact(r)
      [] r.answer # Null /\ r.answer.kind = "proposal" ->
            /\ UsageMatches(r)
            /\ r.valid = ProposalFits(t, r.answer.proposal)
            /\ IF r.valid THEN r.proposal = r.answer.proposal
               ELSE /\ r.stage = "response-schema" /\ r.code = "proposal.schema"
                    /\ r.proposal = Null

\* Mutation of PipelineReplays: an outcome is believed.
PipelineReplaysBelieved(t, r) ==
    r.valid = TRUE /\ ~Compiles(ObservationAt(t), r.proposal) =>
        r.stage = "compilation" /\ r.compiled = FALSE

\* replayPipeline
PipelineReplays(t, r) ==
    r.valid = TRUE =>
        IF Compiles(ObservationAt(t), r.proposal)
        THEN /\ r.compiled = TRUE
             /\ r.applied = ~TooLarge(Staged(t, r.proposal))
             /\ IF r.applied THEN r.stage = Null
                ELSE r.stage = "application" /\ r.code = "proposal.continuity-limit"
        ELSE r.stage = "compilation" /\ r.compiled = FALSE /\ r.code = "proposal.compile"

\* A line by itself (validateResults), and against the replayed trajectory
\* (validateStoredRequest and the two above).
LineValid(r) == InResultSchema(r) /\ PipelineShape(r) /\ ResponseIntact(r)

LineReplays(t, r) == r.request = t /\ ResponseHolds(t, r) /\ PipelineReplays(t, r)

\* indexResults: the lines of a cut.
EntriesOf(k) == {n \in DOMAIN lines : Len(lines[n].request.cuts) + 1 = k}

ScoreStarts ==
    /\ phase = "published"
    /\ phase' = IF \A n \in DOMAIN lines : LineValid(lines[n]) THEN "scoring" ELSE "refused"
    /\ UNCHANGED <<boundaryVars, lines, damage, score>>

\* After a cut with no line or several, the trajectory is unknown.
Continues(entries) == score.continuous /\ \E n \in entries : entries = {n}

\* replayResults, for the next cut.
ScoreCut ==
    LET entries == EntriesOf(score.cut)
    IN /\ phase = "scoring" /\ score.cut =< MaxCuts
       /\ IF score.continuous /\ \E n \in entries : ~LineReplays(score.at, lines[n])
          THEN phase' = "refused" /\ UNCHANGED score
          ELSE /\ UNCHANGED phase
               /\ score' = [cut |-> score.cut + 1,
                            at |-> IF Continues(entries)
                                   THEN After(score.at, lines[CHOOSE n \in entries : TRUE])
                                   ELSE score.at,
                            continuous |-> Continues(entries),
                            counted |-> score.counted \cup
                                        {k \in {score.cut} : Continues(entries)}]
       /\ UNCHANGED <<boundaryVars, lines, damage>>

ScoreEnds ==
    /\ phase = "scoring" /\ score.cut > MaxCuts
    /\ phase' = "scored"
    /\ UNCHANGED <<boundaryVars, lines, damage, score>>

EvalInit ==
    /\ BoundaryInit
    /\ lines = <<>> /\ phase = "running" /\ damage = 0
    /\ score = [cut |-> 1, at |-> Trajectory, continuous |-> TRUE, counted |-> {}]

EvalNext ==
    \/ \E a \in Answers : RecordLine(a) \/ Abort(a)
    \/ PublishResults
    \/ \E n \in DOMAIN lines : LoseLine(n) \/ RepeatLine(n)
    \/ ScoreStarts \/ ScoreCut \/ ScoreEnds

EvalSpec == EvalInit /\ [][EvalNext]_evalVars

----------------------------------------------------------------------------
(* Properties                                                              *)

\* A JSON object that is no answer: the runner makes it a protocol failure.
Malformed(r) ==
    r.stage = "protocol" /\ r.answer # Null /\ r.answer.kind \in {"error", "proposal"}

\* A well-formed error whose message the runner did not keep as it was.
Altered(r) ==
    /\ r.stage = "adapter" /\ r.answer # Null /\ r.answer.kind = "error"
    /\ r.message # r.answer.message

Misrecorded(r) == Malformed(r) \/ Altered(r)

\* The scorer turns a file of the runner away exactly when it still holds a malformed
\* object or an altered message: no judgement of a proposal, no usage, no other failure
\* and no missing or doubled line makes it refuse one.
RefusedExactly ==
    phase \in {"scoring", "scored", "refused"} =>
        (phase = "refused" <=> \E n \in DOMAIN lines : Misrecorded(lines[n]))

\* "the scorer does not discard them" (benchmarks/model-proposal-boundary/v1
\* /README.md): no file of the runner is turned away.
PublishedScores == phase # "refused"

\* What a line says happened to the proposal.
Outcome(r) ==
    <<r.proposal, r.valid, r.compiled, r.applied,
      IF r.stage \in {"adapter", "protocol"} THEN "no proposal" ELSE r.stage>>

Forgeries(r) ==
    {[r EXCEPT !.stage = s, !.proposal = p, !.valid = v, !.compiled = c, !.applied = d] :
        s \in {Null, "adapter", "protocol", "response-schema", "compilation", "application"},
        p \in {Null, r.proposal}, v, c, d \in {TRUE, FALSE, Null}}

\* Of all lines with one request and one answer, the scorer takes those that say
\* what the runner says: the two agree on every judgement, and none is believed.
OnlyTheOutcomeScores ==
    phase = "running" /\ MoreCuts(Trajectory) =>
        \A a \in Answers :
            LET r == Observe(Trajectory, a)
            IN ~Aborted(a) =>
                   \A f \in Forgeries(r) :
                       Outcome(f) # Outcome(r) => ~(LineValid(f) /\ LineReplays(Trajectory, f))

=============================================================================
