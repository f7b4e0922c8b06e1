-------------------------- MODULE EvaluationProofs --------------------------
(***************************************************************************)
(* Proofs about the two benchmarks, ProposalEval and InterfaceEval, for    *)
(* every set of adapter answers, every corpus and every number of cuts: of *)
(* what a runner writes, the scorer turns away only what the properties    *)
(* say, and what a file claims counts only as far as it can be reproduced. *)
(*                                                                         *)
(* Schemas, the compiler and the query parser are not opened here: both    *)
(* programs use the same ones, and nothing more is needed of them.         *)
(***************************************************************************)
EXTENDS MCEvaluation, TLAPS

WF == INSTANCE WellFoundedInduction

----------------------------------------------------------------------------
(* The proposal benchmark: what an observation is                          *)

\* Null is none of the values a field may have otherwise.
LEMMA NullIsNothing ==
    /\ Null \notin {"bad", "adapter", "protocol", "response-schema", "compilation",
                     "application"}
    /\ Null # TRUE /\ Null # FALSE
  BY EvalConstants

\* The fields of a line.
Line(t, answer, usage, stage, code, proposal, valid, compiled, applied, message) ==
    [request |-> t, answer |-> answer, usage |-> usage, stage |-> stage, code |-> code,
     proposal |-> proposal, valid |-> valid, compiled |-> compiled, applied |-> applied,
     message |-> message]

UsageOf(a) == IF a.usage = "absent" THEN Null ELSE a.usage

\* An answer that is judged: a proposal with a usage that parses, if it has one.
Judges(a) == a.kind = "proposal" /\ UsageOf(a) # "bad"

\* What is recorded of an answer that is not judged.
LEMMA ObserveFailed ==
    ASSUME NEW t, NEW a \in Answers, ~Judges(a)
    PROVE  \E usage, stage, code, message :
              /\ Observe(t, a) = Line(t, IF a.kind = "process" THEN Null ELSE a, usage, stage, code,
                                      Null, Null, Null, Null, message)
              /\ stage \in {"adapter", "protocol"}
              /\ a.kind \in {"text", "value", "proposal"} => stage = "protocol"
              /\ a.kind = "proposal" => usage = Null /\ UsageOf(a) = "bad"
              /\ stage = "adapter" /\ a.kind = "error" =>
                     /\ a.exact /\ a.request /\ a.formed
                     /\ code = a.code /\ usage = UsageOf(a) /\ UsageOf(a) # "bad"
                     /\ message = Sanitized(a.message)
  <1>1. Answer(a)
    BY EvalConstants
  <1>2. CASE a.kind = "process"
    <2>1. Observe(t, a) = Line(t, Null, Null, "adapter", a.code, Null, Null, Null, Null, Null)
      BY <1>2, NullIsNothing DEF Observe, Blank, Failed, Line
    <2>. QED
      BY <1>2, <2>1
  <1>3. CASE a.kind = "text"
    <2>1. Observe(t, a) = Line(t, a, Null, "protocol", "response.invalid-json",
                               Null, Null, Null, Null, Null)
      BY <1>3, NullIsNothing DEF Observe, Blank, Failed, Line
    <2>. QED
      BY <1>3, <2>1
  <1>4. CASE a.kind = "value"
    <2>1. Observe(t, a) = Line(t, a, Null, "protocol", "response.invalid",
                               Null, Null, Null, Null, Null)
      BY <1>4, NullIsNothing DEF Observe, Blank, Failed, Line
    <2>. QED
      BY <1>4, <2>1
  <1>5. CASE a.kind \in {"error", "proposal"} /\ UsageOf(a) = "bad"
    <2>1. Observe(t, a) = Line(t, a, Null, "protocol", "response.usage", Null, Null, Null, Null, Null)
      BY <1>5, NullIsNothing DEF Observe, Blank, Failed, Line, UsageOf
    <2>. QED
      BY <1>5, <2>1
  <1>6. CASE a.kind = "error" /\ UsageOf(a) # "bad"
    <2>1. {a.exact, a.request, a.formed} \subseteq BOOLEAN
      BY <1>1, <1>6 DEF Answer
    <2>2. CASE a.exact /\ a.request /\ a.formed
      <3>1. Observe(t, a) = Line(t, a, UsageOf(a), "adapter", a.code, Null, Null, Null, Null,
                                 Sanitized(a.message))
        BY <1>6, <2>2 DEF Observe, Reported, Blank, Failed, Line, UsageOf
      <3>. QED
        BY <1>6, <2>2, <3>1
    <2>3. CASE ~(a.exact /\ a.request /\ a.formed)
      <3>1. \E usage, code : Observe(t, a) = Line(t, a, usage, "protocol", code,
                                                  Null, Null, Null, Null, Null)
        BY <1>6, <2>1, <2>3 DEF Observe, Reported, Blank, Failed, Line, UsageOf
      <3>. QED
        BY <1>6, <2>3, <3>1
    <2>. QED
      BY <2>2, <2>3
  <1>. QED
    BY <1>1, <1>2, <1>3, <1>4, <1>5, <1>6 DEF Answer, Judges

\* What is recorded of one that is.
LEMMA ObserveJudged ==
    ASSUME NEW t, NEW a \in Answers, Judges(a)
    PROVE  /\ ~ProposalFits(t, a.proposal) =>
                  Observe(t, a) = Line(t, a, UsageOf(a), "response-schema", "proposal.schema",
                                       Null, FALSE, Null, Null, Null)
           /\ ProposalFits(t, a.proposal) /\ ~Compiles(ObservationAt(t), a.proposal) =>
                  Observe(t, a) = Line(t, a, UsageOf(a), "compilation", "proposal.compile",
                                       a.proposal, TRUE, FALSE, Null, Null)
           /\ /\ ProposalFits(t, a.proposal) /\ Compiles(ObservationAt(t), a.proposal)
              /\ TooLarge(Staged(t, a.proposal))
              => Observe(t, a) = Line(t, a, UsageOf(a), "application", "proposal.continuity-limit",
                                      a.proposal, TRUE, TRUE, FALSE, Null)
           /\ /\ ProposalFits(t, a.proposal) /\ Compiles(ObservationAt(t), a.proposal)
              /\ ~TooLarge(Staged(t, a.proposal))
              => Observe(t, a) = Line(t, a, UsageOf(a), Null, Null, a.proposal, TRUE, TRUE, TRUE, Null)
  <1>1. Observe(t, a) = Judged(t, [Blank(t, a) EXCEPT !.usage = UsageOf(a)], a.proposal)
    BY DEF Observe, Judges, UsageOf
  <1>2. [Blank(t, a) EXCEPT !.usage = UsageOf(a)]
            = Line(t, a, UsageOf(a), Null, Null, Null, Null, Null, Null, Null)
    BY DEF Blank, Line, Judges
  <1>. QED
    BY ZenonT(120), <1>1, <1>2 DEF Judged, Failed, Line

----------------------------------------------------------------------------
(* The proposal benchmark: no outcome is believed                          *)

IsLine(r) ==
    r = Line(r.request, r.answer, r.usage, r.stage, r.code, r.proposal, r.valid, r.compiled,
             r.applied, r.message)

\* The fields of a line.
LEMMA LineFields ==
    \A t, answer, usage, stage, code, proposal, valid, compiled, applied, message, r :
        r = Line(t, answer, usage, stage, code, proposal, valid, compiled, applied, message) =>
            /\ IsLine(r)
            /\ r.request = t /\ r.answer = answer /\ r.usage = usage /\ r.stage = stage
            /\ r.code = code /\ r.proposal = proposal /\ r.valid = valid
            /\ r.compiled = compiled /\ r.applied = applied /\ r.message = message
  BY DEF Line, IsLine

\* What is observed is a line.
LEMMA ObserveIsLine ==
    ASSUME NEW t, NEW a \in Answers
    PROVE  IsLine(Observe(t, a)) /\ Observe(t, a).request = t
  <1>. PICK answer, usage, stage, code, proposal, valid, compiled, applied, message :
            Observe(t, a) = Line(t, answer, usage, stage, code, proposal, valid, compiled, applied,
                                 message)
    <2>1. CASE Judges(a)
      BY <2>1, ObserveJudged
    <2>2. CASE ~Judges(a)
      BY <2>2, ObserveFailed
    <2>. QED
      BY <2>1, <2>2
  <1>. QED
    BY LineFields

\* What a forgery of a line may change.
LEMMA ForgedFields ==
    ASSUME NEW r, IsLine(r), NEW f \in Forgeries(r)
    PROVE  /\ f.answer = r.answer /\ f.usage = r.usage
           /\ f.valid \in {TRUE, FALSE, Null} /\ f.applied \in {TRUE, FALSE, Null}
  <1>1. PICK s \in {Null, "adapter", "protocol", "response-schema", "compilation", "application"},
             p \in {Null, r.proposal}, v, c, d \in {TRUE, FALSE, Null} :
            f = [r EXCEPT !.stage = s, !.proposal = p, !.valid = v, !.compiled = c, !.applied = d]
    BY DEF Forgeries
  <1>2. f = Line(r.request, r.answer, r.usage, s, r.code, p, v, c, d, r.message)
    BY <1>1 DEF Line, IsLine
  <1>3. f.answer = r.answer /\ f.usage = r.usage /\ f.valid = v /\ f.applied = d
    BY <1>2 DEF Line
  <1>. QED
    BY <1>1, <1>3

\* What an outcome is made of.
LEMMA SameOutcome ==
    ASSUME NEW f, NEW r,
           f.proposal = r.proposal, f.valid = r.valid, f.compiled = r.compiled,
           f.applied = r.applied,
           f.stage = r.stage \/ {f.stage, r.stage} \subseteq {"adapter", "protocol"}
    PROVE  Outcome(f) = Outcome(r)
  BY DEF Outcome

\* The scorer takes of a line without a judgement what the runner found.
LEMMA FailureNotForged ==
    ASSUME NEW t, NEW a \in Answers, ~Judges(a), NEW f \in Forgeries(Observe(t, a)),
           LineValid(f), LineReplays(t, f)
    PROVE  Outcome(f) = Outcome(Observe(t, a))
  <1>1. PICK answer, usage, stage, code, message :
              /\ Observe(t, a) = Line(t, answer, usage, stage, code, Null, Null, Null, Null, message)
              /\ stage \in {"adapter", "protocol"}
              /\ answer = IF a.kind = "process" THEN Null ELSE a
              /\ a.kind = "proposal" => usage = Null /\ UsageOf(a) = "bad"
    BY ObserveFailed
  <1>. PICK r : r = Observe(t, a)
    OBVIOUS
  <1>2. IsLine(r) /\ r.answer = answer /\ r.usage = usage /\ r.stage = stage /\ r.proposal = Null
        /\ r.valid = Null /\ r.compiled = Null /\ r.applied = Null
    BY <1>1, LineFields
  <1>3. f.answer = answer /\ f.usage = usage
    BY <1>2, ForgedFields
  <1>4. Answer(a) /\ a # Null
    BY EvalConstants
  <1>5. PipelineShape(f) /\ ResponseHolds(t, f)
    BY DEF LineValid, LineReplays
  <1>6. f.stage \in {"adapter", "protocol"}
    <2>1. CASE a.kind = "process"
      BY <1>1, <1>3, <1>5, <2>1 DEF ResponseHolds
    <2>2. CASE a.kind \in {"text", "value"}
      BY <1>1, <1>3, <1>4, <1>5, <2>2 DEF ResponseHolds, ResponseIntact
    <2>3. CASE a.kind = "error"
      BY <1>1, <1>3, <1>4, <1>5, <2>3 DEF ResponseHolds, ResponseIntact, ErrorMatches
    <2>4. CASE a.kind = "proposal"
      <3>1. UsageMatches(f)
        BY <1>1, <1>3, <1>4, <1>5, <2>4 DEF ResponseHolds
      <3>2. Null = UsageOf(a)
        BY <1>1, <1>3, <2>4, <3>1 DEF UsageMatches, UsageOf
      <3>. QED
        BY <1>1, <2>4, <3>2, NullIsNothing
    <2>. QED
      BY <1>4, <2>1, <2>2, <2>3, <2>4 DEF Answer
  <1>7. f.proposal = Null /\ f.valid = Null /\ f.compiled = Null /\ f.applied = Null
    BY <1>5, <1>6, NullIsNothing DEF PipelineShape
  <1>. QED
    BY <1>1, <1>2, <1>6, <1>7, SameOutcome

\* A proposal is judged once more.
LEMMA JudgementNotForged ==
    ASSUME NEW t, NEW a \in Answers, Judges(a), NEW f \in Forgeries(Observe(t, a)),
           LineValid(f), LineReplays(t, f)
    PROVE  Outcome(f) = Outcome(Observe(t, a))
  <1>. PICK r : r = Observe(t, a)
    OBVIOUS
  <1>1. PICK stage, code, proposal, valid, compiled, applied, message :
            r = Line(t, a, UsageOf(a), stage, code, proposal, valid, compiled, applied, message)
    BY ObserveJudged
  <1>2. IsLine(r) /\ r.answer = a
    BY <1>1, LineFields
  <1>3. f.answer = a /\ f.valid \in {TRUE, FALSE, Null} /\ f.applied \in {TRUE, FALSE, Null}
    BY <1>2, ForgedFields
  <1>4. a # Null /\ a.kind = "proposal"
    BY EvalConstants DEF Judges
  <1>5. InResultSchema(f) /\ PipelineShape(f) /\ ResponseHolds(t, f) /\ PipelineReplays(t, f)
    BY DEF LineValid, LineReplays
  <1>6. f.valid = ProposalFits(t, a.proposal)
    BY <1>3, <1>4, <1>5 DEF ResponseHolds
  <1>7. CASE ~ProposalFits(t, a.proposal)
    <2>1. r = Line(t, a, UsageOf(a), "response-schema", "proposal.schema",
                   Null, FALSE, Null, Null, Null)
      BY <1>7, ObserveJudged
    <2>2. f.valid = FALSE
      BY <1>6, <1>7
    <2>3. f.stage = "response-schema" /\ f.proposal = Null
      BY <1>3, <1>4, <1>5, <2>2 DEF ResponseHolds
    <2>4. f.compiled = Null /\ f.applied = Null
      BY <1>5, <2>2 DEF InResultSchema
    <2>5. r.proposal = Null /\ r.valid = FALSE /\ r.compiled = Null /\ r.applied = Null
          /\ r.stage = "response-schema"
      BY <2>1 DEF Line
    <2>. QED
      BY <2>2, <2>3, <2>4, <2>5, SameOutcome
  <1>8. CASE ProposalFits(t, a.proposal)
    <2>1. f.valid = TRUE
      BY <1>6, <1>8
    <2>2. f.proposal = a.proposal
      BY <1>3, <1>4, <1>5, <2>1 DEF ResponseHolds
    <2>3. CASE ~Compiles(ObservationAt(t), a.proposal)
      <3>1. r = Line(t, a, UsageOf(a), "compilation", "proposal.compile", a.proposal, TRUE, FALSE,
                     Null, Null)
        BY <1>8, <2>3, ObserveJudged
      <3>2. f.stage = "compilation" /\ f.compiled = FALSE
        BY <1>5, <2>1, <2>2, <2>3 DEF PipelineReplays
      <3>3. f.applied = Null
        BY <1>5, <3>2 DEF InResultSchema
      <3>4. r.proposal = a.proposal /\ r.valid = TRUE /\ r.compiled = FALSE /\ r.applied = Null
            /\ r.stage = "compilation"
        BY <3>1 DEF Line
      <3>. QED
        BY <2>1, <2>2, <3>2, <3>3, <3>4, SameOutcome
    <2>4. CASE Compiles(ObservationAt(t), a.proposal) /\ TooLarge(Staged(t, a.proposal))
      <3>1. r = Line(t, a, UsageOf(a), "application", "proposal.continuity-limit", a.proposal, TRUE,
                     TRUE, FALSE, Null)
        BY <1>8, <2>4, ObserveJudged
      <3>2. f.compiled = TRUE /\ f.applied = ~TooLarge(Staged(t, a.proposal))
        BY <1>5, <2>1, <2>2, <2>4 DEF PipelineReplays
      <3>3. f.applied = FALSE
        BY <2>4, <3>2
      <3>4. f.stage = "application"
        BY <1>5, <2>1, <2>2, <2>4, <3>3 DEF PipelineReplays
      <3>5. r.proposal = a.proposal /\ r.valid = TRUE /\ r.compiled = TRUE /\ r.applied = FALSE
            /\ r.stage = "application"
        BY <3>1 DEF Line
      <3>. QED
        BY <2>1, <2>2, <3>2, <3>3, <3>4, <3>5, SameOutcome
    <2>5. CASE Compiles(ObservationAt(t), a.proposal) /\ ~TooLarge(Staged(t, a.proposal))
      <3>1. r = Line(t, a, UsageOf(a), Null, Null, a.proposal, TRUE, TRUE, TRUE, Null)
        BY <1>8, <2>5, ObserveJudged
      <3>2. f.compiled = TRUE /\ f.applied = ~TooLarge(Staged(t, a.proposal))
        BY <1>5, <2>1, <2>2, <2>5 DEF PipelineReplays
      <3>3. f.applied = TRUE
        BY <2>5, <3>2
      <3>4. f.stage = Null
        BY <1>5, <2>1, <2>2, <2>5, <3>3 DEF PipelineReplays
      <3>5. r.proposal = a.proposal /\ r.valid = TRUE /\ r.compiled = TRUE /\ r.applied = TRUE
            /\ r.stage = Null
        BY <3>1 DEF Line
      <3>. QED
        BY <2>1, <2>2, <3>2, <3>3, <3>4, <3>5, SameOutcome
    <2>. QED
      BY <2>3, <2>4, <2>5
  <1>. QED
    BY <1>7, <1>8

\* OnlyTheOutcomeScores, for every trajectory: of all lines with one request and one
\* answer, the scorer takes those that say what the runner says.
LEMMA OutcomeNotForged ==
    ASSUME NEW t, NEW a \in Answers, NEW f \in Forgeries(Observe(t, a)),
           LineValid(f), LineReplays(t, f)
    PROVE  Outcome(f) = Outcome(Observe(t, a))
  BY JudgementNotForged, FailureNotForged

----------------------------------------------------------------------------
(* The interface benchmark: what a record is                               *)

\* Null is none of the values a field may have otherwise.
LEMMA NullIsNoField ==
    /\ Null \notin DeltaCodes
    /\ Null \notin {"adapter", "protocol", "admission", "query", "reasoning", "memory",
                   "state.over-budget"}
    /\ Null # TRUE /\ Null # FALSE
  BY InterfaceConstants

\* The fields of a record.
Row(k, prior, answer, stage, code, answered, memory, delta, query, admitted, size, message) ==
    [cut |-> k, prior |-> prior, answer |-> answer, stage |-> stage, code |-> code,
     answered |-> answered, memory |-> memory, delta |-> delta, query |-> query,
     admitted |-> admitted, size |-> size, message |-> message]

\* What a failure without a run says of the admission.
NoRun == IF HasRun THEN FALSE ELSE Null

\* What is recorded of an answer that is no delta.
LEMMA AskPlain ==
    ASSUME NEW k, NEW prior, NEW a
    PROVE  /\ a.kind = "process" =>
                  Ask(k, prior, a) = Row(k, prior, Null, "adapter", a.code, FALSE, Null, Null, Null,
                                         NoRun, Null, Null)
           /\ a.kind # "process" /\ ~ResponseValid(a) =>
                  Ask(k, prior, a) = Row(k, prior, a, "protocol", "response.invalid", FALSE, Null,
                                         Null, Null, NoRun, Null, Null)
           /\ a.kind = "error" =>
                  Ask(k, prior, a) = Row(k, prior, a, "adapter", a.code, FALSE, Null, Null, Null,
                                         NoRun, Null, Bounded(a.message))
           /\ a.kind = "answer" /\ ResponseValid(a) =>
                  Ask(k, prior, a) = Row(k, prior, a, Null, Null, TRUE, Null, Null, Null, Null, Null,
                                         Null)
           /\ a.kind = "memory" /\ ResponseValid(a) /\ a.fits =>
                  Ask(k, prior, a) = Row(k, prior, a, Null, Null, TRUE, a.memory, Null, Null, Null,
                                         Null, Null)
           /\ a.kind = "memory" /\ ResponseValid(a) /\ ~a.fits =>
                  Ask(k, prior, a) = Row(k, prior, a, "memory", "memory.over-budget", TRUE, a.memory,
                                         Null, Null, Null, Null, Null)
  <1>1. CASE a.kind = "process"
    BY <1>1, NullIsNoField DEF Ask, Unanswered, Fails, Row, NoRun
  <1>2. CASE a.kind # "process" /\ ~ResponseValid(a)
    BY <1>2, NullIsNoField DEF Ask, Unanswered, Fails, Row, NoRun, ResponseValid
  <1>3. CASE a.kind = "error"
    BY <1>3, NullIsNoField DEF Ask, Unanswered, Fails, Row, NoRun, ResponseValid
  <1>4. CASE a.kind = "answer" /\ ResponseValid(a)
    BY <1>4 DEF Ask, Unanswered, Row, ResponseValid
  <1>5. CASE a.kind = "memory" /\ ResponseValid(a)
    <2>1. ~HasRun
      BY <1>5 DEF ResponseValid, HasRun
    <2>2. CASE a.fits
      BY <1>5, <2>2 DEF Ask, Unanswered, Row, ResponseValid
    <2>3. CASE ~a.fits
      BY <1>5, <2>1, <2>3 DEF Ask, Unanswered, Fails, Row, ResponseValid
    <2>. QED
      BY <1>5, <2>2, <2>3
  <1>. QED
    BY <1>1, <1>2, <1>3, <1>4, <1>5

\* The run that an answer of a structured arm would make.
RunWith(prior, a) == prior.events \o EventsOf(a.delta)

\* A delta is read into a record.
LEMMA ReadRow ==
    ASSUME NEW k, NEW prior, NEW a, NEW delta, NEW query
    PROVE  [[Unanswered(k, prior) EXCEPT !.answer = a] EXCEPT !.delta = delta, !.query = query]
               = Row(k, prior, a, Null, Null, FALSE, Null, delta, query, Null, Null, Null)
  <1>. DEFINE r == [[Unanswered(k, prior) EXCEPT !.answer = a] EXCEPT !.delta = delta, !.query = query]
              s == Row(k, prior, a, Null, Null, FALSE, Null, delta, query, Null, Null, Null)
              fields == {"cut", "prior", "answer", "stage", "code", "answered", "memory", "delta",
                         "query", "admitted", "size", "message"}
  <1>1. r = [f \in fields |-> r[f]] /\ s = [f \in fields |-> s[f]]
    BY DEF Unanswered, Row
  <1>2. \A f \in fields : r[f] = s[f]
    <2>1. r["answered"] = FALSE /\ s["answered"] = FALSE
      BY DEF Unanswered, Row
    <2>2. /\ r.cut = s.cut /\ r.prior = s.prior /\ r.answer = s.answer /\ r.stage = s.stage
          /\ r.code = s.code /\ r.memory = s.memory /\ r.delta = s.delta /\ r.query = s.query
          /\ r.admitted = s.admitted /\ r.size = s.size /\ r.message = s.message
      BY DEF Unanswered, Row
    <2>. HIDE DEF r, s
    <2>. QED
      BY <2>1, <2>2
  <1>3. r = s
    <2>. HIDE DEF r, s, fields
    <2>. QED
      BY <1>1, <1>2
  <1>. QED
    BY <1>3

\* What is recorded of a delta.
LEMMA AskDelta ==
    ASSUME NEW k, NEW prior, NEW a, a.kind = "delta", ResponseValid(a)
    PROVE  /\ DeltaError(a.delta, k) # Null =>
                  Ask(k, prior, a) = Row(k, prior, a, "admission", DeltaError(a.delta, k), FALSE, Null,
                                         a.delta, a.query, FALSE, Null, Null)
           /\ DeltaError(a.delta, k) = Null /\ ~RunParses(prior.events, a.delta) =>
                  Ask(k, prior, a) = Row(k, prior, a, "admission", "run.rejected", FALSE, Null,
                                         a.delta, a.query, FALSE, Null, Null)
           /\ /\ DeltaError(a.delta, k) = Null /\ RunParses(prior.events, a.delta)
              /\ StateSize(RunWith(prior, a)) > StateBudget
              => Ask(k, prior, a) = Row(k, prior, a, "admission", "state.over-budget", FALSE, Null,
                                        a.delta, a.query, FALSE, StateSize(RunWith(prior, a)), Null)
           /\ /\ DeltaError(a.delta, k) = Null /\ RunParses(prior.events, a.delta)
              /\ ~(StateSize(RunWith(prior, a)) > StateBudget)
              /\ ~QueryParses(RunWith(prior, a), a.query)
              => Ask(k, prior, a) = Row(k, prior, a, "query", "query.rejected", FALSE, Null,
                                        a.delta, a.query, TRUE, StateSize(RunWith(prior, a)), Null)
           /\ /\ DeltaError(a.delta, k) = Null /\ RunParses(prior.events, a.delta)
              /\ ~(StateSize(RunWith(prior, a)) > StateBudget)
              /\ QueryParses(RunWith(prior, a), a.query) /\ Overflows(RunWith(prior, a), a.query)
              => Ask(k, prior, a) = Row(k, prior, a, "reasoning", "reasoning.failed", FALSE, Null,
                                        a.delta, a.query, TRUE, StateSize(RunWith(prior, a)), Null)
           /\ /\ DeltaError(a.delta, k) = Null /\ RunParses(prior.events, a.delta)
              /\ ~(StateSize(RunWith(prior, a)) > StateBudget)
              /\ QueryParses(RunWith(prior, a), a.query) /\ ~Overflows(RunWith(prior, a), a.query)
              => Ask(k, prior, a) = Row(k, prior, a, Null, Null, TRUE, Null,
                                        a.delta, a.query, TRUE, StateSize(RunWith(prior, a)), Null)
  <1>. DEFINE read == Row(k, prior, a, Null, Null, FALSE, Null, a.delta, a.query, Null, Null, Null)
  <1>1. HasRun
    BY DEF ResponseValid
  <1>2. Ask(k, prior, a) = Admit(read, k, prior)
    <2>1. Ask(k, prior, a) =
              Admit([[Unanswered(k, prior) EXCEPT !.answer = a] EXCEPT !.delta = a.delta,
                                                                      !.query = a.query], k, prior)
      BY DEF Ask
    <2>2. [[Unanswered(k, prior) EXCEPT !.answer = a] EXCEPT !.delta = a.delta, !.query = a.query]
              = read
      BY ReadRow
    <2>. QED
      BY <2>1, <2>2
  <1>3. read.delta = a.delta /\ read.query = a.query
    BY DEF Row
  <1>4. Admit(read, k, prior) =
            LET run == RunWith(prior, a)
                sized == [read EXCEPT !.size = StateSize(run)]
                admitted == [sized EXCEPT !.admitted = TRUE]
            IN IF DeltaError(a.delta, k) # Null
               THEN Fails(read, "admission", DeltaError(a.delta, k))
               ELSE IF ~RunParses(prior.events, a.delta) THEN Fails(read, "admission", "run.rejected")
               ELSE IF StateSize(run) > StateBudget
               THEN Fails(sized, "admission", "state.over-budget")
               ELSE IF ~QueryParses(run, a.query) THEN Fails(admitted, "query", "query.rejected")
               ELSE IF Overflows(run, a.query)
               THEN Fails(admitted, "reasoning", "reasoning.failed")
               ELSE [admitted EXCEPT !.answered = TRUE]
    <2>. HIDE DEF read
    <2>. QED
      BY <1>3 DEF Admit, RunWith
  <1>5. CASE DeltaError(a.delta, k) # Null
    BY ZenonT(60), <1>1, <1>2, <1>4, <1>5, NullIsNoField DEF Fails, Row
  <1>6. CASE DeltaError(a.delta, k) = Null /\ ~RunParses(prior.events, a.delta)
    BY <1>1, <1>2, <1>4, <1>6, NullIsNoField DEF Fails, Row
  <1>7. CASE /\ DeltaError(a.delta, k) = Null /\ RunParses(prior.events, a.delta)
             /\ StateSize(RunWith(prior, a)) > StateBudget
    BY <1>1, <1>2, <1>4, <1>7, NullIsNoField DEF Fails, Row
  <1>8. CASE /\ DeltaError(a.delta, k) = Null /\ RunParses(prior.events, a.delta)
             /\ ~(StateSize(RunWith(prior, a)) > StateBudget)
             /\ ~QueryParses(RunWith(prior, a), a.query)
    BY <1>1, <1>2, <1>4, <1>8, NullIsNoField DEF Fails, Row
  <1>9. CASE /\ DeltaError(a.delta, k) = Null /\ RunParses(prior.events, a.delta)
             /\ ~(StateSize(RunWith(prior, a)) > StateBudget)
             /\ QueryParses(RunWith(prior, a), a.query) /\ Overflows(RunWith(prior, a), a.query)
    BY <1>1, <1>2, <1>4, <1>9, NullIsNoField DEF Fails, Row
  <1>10. CASE /\ DeltaError(a.delta, k) = Null /\ RunParses(prior.events, a.delta)
              /\ ~(StateSize(RunWith(prior, a)) > StateBudget)
              /\ QueryParses(RunWith(prior, a), a.query) /\ ~Overflows(RunWith(prior, a), a.query)
    BY <1>1, <1>2, <1>4, <1>10, NullIsNoField DEF Row
  <1>. QED
    BY <1>5, <1>6, <1>7, <1>8, <1>9, <1>10

----------------------------------------------------------------------------
(* The interface benchmark: no claim is believed                           *)

IsRow(r) ==
    r = Row(r.cut, r.prior, r.answer, r.stage, r.code, r.answered, r.memory, r.delta, r.query,
            r.admitted, r.size, r.message)

\* What a forgery of a record keeps.
LEMMA ForgedRecord ==
    ASSUME NEW r, IsRow(r), NEW f \in InterfaceForgeries(r)
    PROVE  /\ f.cut = r.cut /\ f.answer = r.answer /\ f.delta = r.delta /\ f.query = r.query
           /\ f.message = r.message /\ (f.stage = Null <=> f.code = Null)
  <1>0. f \in Claims(r) /\ (f.stage = Null <=> f.code = Null)
    BY DEF InterfaceForgeries
  <1>1. PICK s \in {Null, "adapter", "protocol", "admission", "query", "reasoning", "memory"},
             c \in {Null, r.code, "run.rejected", "state.over-budget", "query.rejected",
                    "reasoning.failed"},
             d \in {TRUE, FALSE, Null}, b \in {TRUE, FALSE}, z \in {Null, r.size, 1} :
            f = [r EXCEPT !.stage = s, !.code = c, !.admitted = d, !.answered = b, !.size = z]
    BY SMTT(60), <1>0 DEF Claims
  <1>2. f = Row(r.cut, r.prior, r.answer, s, c, b, r.memory, r.delta, r.query, d, z, r.message)
    BY <1>1 DEF Row, IsRow
  <1>3. /\ f.cut = r.cut /\ f.answer = r.answer /\ f.delta = r.delta /\ f.query = r.query
        /\ f.message = r.message
    BY <1>2 DEF Row
  <1>. QED
    BY <1>0, <1>3

\* What a claim is made of.
LEMMA SameClaim ==
    ASSUME NEW f, NEW r,
           f.stage = r.stage, f.stage = Null => (f.answered <=> r.answered),
           f.admitted = r.admitted, f.size = r.size, f.answer = r.answer,
           f.answer # Null /\ f.stage # "protocol" => f.code = r.code
    PROVE  Claim(f) = Claim(r)
  <1>1. (f.stage = Null /\ f.answered) = (r.stage = Null /\ r.answered)
    OBVIOUS
  <1>2. (IF f.answer = Null \/ f.stage = "protocol" THEN Null ELSE f.code)
            = IF r.answer = Null \/ r.stage = "protocol" THEN Null ELSE r.code
    OBVIOUS
  <1>. QED
    BY <1>1, <1>2 DEF Claim

\* A record of an answer that holds no delta.
LEMMA PlainNotForged ==
    ASSUME NEW k, NEW prior, NEW a \in InterfaceAnswers, a.kind # "process",
           ~ResponseValid(a) \/ a.kind # "delta",
           NEW f \in InterfaceForgeries(Ask(k, prior, a)),
           ResultValid(f), RawResponseHolds(f), HasRun => Reproduces(f, prior.events)
    PROVE  Claim(f) = Claim(Ask(k, prior, a))
  <1>. PICK r : r = Ask(k, prior, a)
    OBVIOUS
  <1>0. a # Null /\ InterfaceAnswer(a)
    BY InterfaceConstants
  <1>1. PICK stage, code, answered, memory, admitted, message :
            r = Row(k, prior, a, stage, code, answered, memory, Null, Null, admitted, Null, message)
    <2>1. CASE ~ResponseValid(a)
      BY <2>1, AskPlain
    <2>2. CASE a.kind = "error"
      BY <2>2, AskPlain
    <2>3. CASE a.kind = "answer" /\ ResponseValid(a)
      BY <2>3, AskPlain
    <2>4. CASE a.kind = "memory" /\ ResponseValid(a) /\ a.fits
      BY <2>4, AskPlain
    <2>5. CASE a.kind = "memory" /\ ResponseValid(a) /\ ~a.fits
      BY <2>5, AskPlain
    <2>. QED
      BY <2>1, <2>2, <2>3, <2>4, <2>5 DEF ResponseValid
  <1>2. IsRow(r) /\ r.answer = a /\ r.delta = Null /\ r.stage = stage /\ r.code = code
        /\ r.answered = answered /\ r.admitted = admitted /\ r.size = Null
    BY <1>1 DEF Row, IsRow
  <1>3. f.answer = a /\ f.delta = Null /\ (f.stage = Null <=> f.code = Null)
    BY <1>2, ForgedRecord
  <1>4. f.admitted = NoRun /\ f.size = Null
    <2>1. CASE HasRun
      BY <1>3, <2>1 DEF Reproduces, NoRun
    <2>2. CASE ~HasRun
      BY <2>2 DEF ResultValid, NoRun
    <2>. QED
      BY <2>1, <2>2
  <1>5. CASE ~ResponseValid(a)
    <2>1. r = Row(k, prior, a, "protocol", "response.invalid", FALSE, Null, Null, Null, NoRun, Null,
                  Null)
      BY <1>5, AskPlain
    <2>2. r.stage = "protocol" /\ r.admitted = NoRun
      BY <2>1 DEF Row
    <2>3. f.stage = "protocol"
      BY <1>0, <1>3, <1>5 DEF RawResponseHolds
    <2>. QED
      BY <1>2, <1>3, <1>4, <2>2, <2>3, SameClaim, NullIsNoField
  <1>6. CASE ResponseValid(a) /\ a.kind = "error"
    <2>1. r = Row(k, prior, a, "adapter", a.code, FALSE, Null, Null, Null, NoRun, Null,
                  Bounded(a.message))
      BY <1>6, AskPlain
    <2>2. r.stage = "adapter" /\ r.code = a.code /\ r.admitted = NoRun
      BY <2>1 DEF Row
    <2>3. f.stage = "adapter" /\ f.code = a.code
      BY <1>0, <1>3, <1>6 DEF RawResponseHolds
    <2>. QED
      BY <1>2, <1>3, <1>4, <2>2, <2>3, SameClaim, NullIsNoField
  <1>7. CASE ResponseValid(a) /\ a.kind = "answer"
    <2>1. r = Row(k, prior, a, Null, Null, TRUE, Null, Null, Null, Null, Null, Null)
      BY <1>7, AskPlain
    <2>2. r.stage = Null /\ r.code = Null /\ r.admitted = Null /\ r.answered = TRUE
      BY <2>1 DEF Row
    <2>3. f.stage = Null /\ f.answered
      BY <1>0, <1>3, <1>7 DEF RawResponseHolds
    <2>4. ~HasRun
      BY <1>7 DEF ResponseValid, HasRun
    <2>. QED
      BY <1>2, <1>3, <1>4, <2>2, <2>3, <2>4, SameClaim DEF NoRun
  <1>8. CASE ResponseValid(a) /\ a.kind = "memory"
    <2>1. ~HasRun
      BY <1>8 DEF ResponseValid, HasRun
    <2>2. CASE a.fits
      <3>1. r = Row(k, prior, a, Null, Null, TRUE, a.memory, Null, Null, Null, Null, Null)
        BY <1>8, <2>2, AskPlain
      <3>2. r.stage = Null /\ r.code = Null /\ r.admitted = Null /\ r.answered = TRUE
        BY <3>1 DEF Row
      <3>3. f.stage = Null /\ f.answered
        BY <1>0, <1>3, <1>8, <2>2 DEF RawResponseHolds
      <3>. QED
        BY <1>2, <1>3, <1>4, <2>1, <3>2, <3>3, SameClaim DEF NoRun
    <2>3. CASE ~a.fits
      <3>1. r = Row(k, prior, a, "memory", "memory.over-budget", TRUE, a.memory, Null, Null, Null,
                    Null, Null)
        BY <1>8, <2>3, AskPlain
      <3>2. r.stage = "memory" /\ r.code = "memory.over-budget" /\ r.admitted = Null
        BY <3>1 DEF Row
      <3>3. f.stage = "memory" /\ f.code = "memory.over-budget"
        BY <1>0, <1>3, <1>8, <2>3 DEF RawResponseHolds
      <3>. QED
        BY <1>2, <1>3, <1>4, <2>1, <3>2, <3>3, SameClaim, NullIsNoField DEF NoRun
    <2>. QED
      BY <2>2, <2>3
  <1>. QED
    BY <1>0, <1>5, <1>6, <1>7, <1>8 DEF InterfaceAnswer, ResponseValid

\* A record of a delta.
LEMMA DeltaNotForged ==
    ASSUME NEW k, NEW prior, NEW a \in InterfaceAnswers, a.kind = "delta", ResponseValid(a),
           NEW f \in InterfaceForgeries(Ask(k, prior, a)),
           Reproduces(f, prior.events)
    PROVE  Claim(f) = Claim(Ask(k, prior, a))
  <1>. PICK r : r = Ask(k, prior, a)
    OBVIOUS
  <1>. PICK error : error = DeltaError(a.delta, k)
    OBVIOUS
  <1>. PICK run : run = RunWith(prior, a)
    OBVIOUS
  <1>0. a # Null /\ a.delta # Null
    BY InterfaceConstants DEF InterfaceAnswer
  <1>1. PICK stage, code, answered, admitted, size :
            r = Row(k, prior, a, stage, code, answered, Null, a.delta, a.query, admitted, size, Null)
    BY ZenonT(60), AskDelta
  <1>2. IsRow(r) /\ r.cut = k /\ r.answer = a /\ r.delta = a.delta /\ r.query = a.query
    BY <1>1 DEF Row, IsRow
  <1>3. /\ f.cut = k /\ f.answer = a /\ f.delta = a.delta /\ f.query = a.query
        /\ f.stage = Null <=> f.code = Null
    BY <1>2, ForgedRecord
  <1>4. /\ error # Null => FailedAs(f, "admission", error) /\ f.admitted = FALSE /\ f.size = Null
        /\ error = Null /\ ~RunParses(prior.events, a.delta) =>
               FailedAs(f, "admission", "run.rejected") /\ f.admitted = FALSE /\ f.size = Null
        /\ error = Null /\ RunParses(prior.events, a.delta) =>
               /\ f.size = StateSize(run)
               /\ IF StateSize(run) > StateBudget
                  THEN FailedAs(f, "admission", "state.over-budget") /\ f.admitted = FALSE
                  ELSE /\ f.admitted = TRUE
                       /\ IF ~QueryParses(run, a.query) THEN FailedAs(f, "query", "query.rejected")
                          ELSE IF Overflows(run, a.query)
                          THEN FailedAs(f, "reasoning", "reasoning.failed")
                          ELSE f.stage = Null /\ f.answered
    BY <1>0, <1>3 DEF Reproduces, RunWith
  <1>5. CASE error # Null
    <2>1. r = Row(k, prior, a, "admission", error, FALSE, Null, a.delta, a.query, FALSE, Null, Null)
      BY <1>5, AskDelta
    <2>2. r.stage = "admission" /\ r.code = error /\ r.admitted = FALSE /\ r.size = Null
      BY <2>1 DEF Row
    <2>. QED
      BY ZenonT(60), <1>2, <1>3, <1>4, <1>5, <2>2, SameClaim, NullIsNoField DEF FailedAs
  <1>6. CASE error = Null /\ ~RunParses(prior.events, a.delta)
    <2>1. r = Row(k, prior, a, "admission", "run.rejected", FALSE, Null, a.delta, a.query, FALSE,
                  Null, Null)
      BY <1>6, AskDelta
    <2>2. r.stage = "admission" /\ r.code = "run.rejected" /\ r.admitted = FALSE /\ r.size = Null
      BY <2>1 DEF Row
    <2>. QED
      BY ZenonT(60), <1>2, <1>3, <1>4, <1>6, <2>2, SameClaim, NullIsNoField DEF FailedAs
  <1>7. CASE error = Null /\ RunParses(prior.events, a.delta) /\ StateSize(run) > StateBudget
    <2>1. r = Row(k, prior, a, "admission", "state.over-budget", FALSE, Null, a.delta, a.query, FALSE,
                  StateSize(run), Null)
      BY <1>7, AskDelta
    <2>2. r.stage = "admission" /\ r.code = "state.over-budget" /\ r.admitted = FALSE
          /\ r.size = StateSize(run)
      BY <2>1 DEF Row
    <2>. QED
      BY ZenonT(60), <1>2, <1>3, <1>4, <1>7, <2>2, SameClaim, NullIsNoField DEF FailedAs
  <1>8. CASE /\ error = Null /\ RunParses(prior.events, a.delta) /\ ~(StateSize(run) > StateBudget)
             /\ ~QueryParses(run, a.query)
    <2>1. r = Row(k, prior, a, "query", "query.rejected", FALSE, Null, a.delta, a.query, TRUE,
                  StateSize(run), Null)
      BY <1>8, AskDelta
    <2>2. r.stage = "query" /\ r.code = "query.rejected" /\ r.admitted = TRUE
          /\ r.size = StateSize(run)
      BY <2>1 DEF Row
    <2>3. f.stage = "query" /\ f.code = "query.rejected" /\ f.admitted = TRUE
          /\ f.size = StateSize(run)
      BY <1>4, <1>8 DEF FailedAs
    <2>. QED
      BY ZenonT(120), <1>2, <1>3, <2>2, <2>3, SameClaim, NullIsNoField
  <1>9. CASE /\ error = Null /\ RunParses(prior.events, a.delta) /\ ~(StateSize(run) > StateBudget)
             /\ QueryParses(run, a.query) /\ Overflows(run, a.query)
    <2>1. r = Row(k, prior, a, "reasoning", "reasoning.failed", FALSE, Null, a.delta, a.query, TRUE,
                  StateSize(run), Null)
      BY <1>9, AskDelta
    <2>2. r.stage = "reasoning" /\ r.code = "reasoning.failed" /\ r.admitted = TRUE
          /\ r.size = StateSize(run)
      BY <2>1 DEF Row
    <2>3. f.stage = "reasoning" /\ f.code = "reasoning.failed" /\ f.admitted = TRUE
          /\ f.size = StateSize(run)
      BY <1>4, <1>9 DEF FailedAs
    <2>. QED
      BY ZenonT(120), <1>2, <1>3, <2>2, <2>3, SameClaim, NullIsNoField
  <1>10. CASE /\ error = Null /\ RunParses(prior.events, a.delta) /\ ~(StateSize(run) > StateBudget)
              /\ QueryParses(run, a.query) /\ ~Overflows(run, a.query)
    <2>1. r = Row(k, prior, a, Null, Null, TRUE, Null, a.delta, a.query, TRUE, StateSize(run), Null)
      BY <1>10, AskDelta
    <2>2. r.stage = Null /\ r.code = Null /\ r.admitted = TRUE /\ r.size = StateSize(run)
          /\ r.answered = TRUE
      BY <2>1 DEF Row
    <2>3. f.stage = Null /\ f.answered /\ f.admitted = TRUE /\ f.size = StateSize(run)
      BY <1>4, <1>10
    <2>. QED
      BY ZenonT(60), <1>2, <1>3, <2>2, <2>3, SameClaim
  <1>. QED
    BY <1>5, <1>6, <1>7, <1>8, <1>9, <1>10

\* Neither scorer counts what a line merely claims (score-model-proposal-eval.mjs and
\* score-model-interface-eval.mjs replay the answers).
THEOREM ClaimsAreReproduced == EvaluationSpec => []OnlyReproducedCounts
  <1>1. OnlyTheOutcomeScores
    BY OutcomeNotForged DEF OnlyTheOutcomeScores
  <1>2. OnlyReproducedScores
    <2>1. SUFFICES ASSUME NEW a \in InterfaceAnswers, NEW k, NEW prior,
                          a.kind # "process",
                          NEW f \in InterfaceForgeries(Ask(k, prior, a)),
                          ResultValid(f), RawResponseHolds(f),
                          HasRun => Reproduces(f, prior.events)
                   PROVE  Claim(f) = Claim(Ask(k, prior, a))
      BY DEF OnlyReproducedScores
    <2>2. CASE a.kind = "delta" /\ ResponseValid(a)
      BY <2>1, <2>2, DeltaNotForged DEF ResponseValid
    <2>3. CASE ~(a.kind = "delta" /\ ResponseValid(a))
      BY <2>1, <2>3, PlainNotForged
    <2>. QED
      BY <2>2, <2>3
  <1>3. OnlyReproducedCounts
    BY <1>1, <1>2 DEF OnlyReproducedCounts
  <1>. QED
    BY <1>3, PTL

----------------------------------------------------------------------------
(* The proposal benchmark: what the runner writes, the scorer reproduces   *)

\* A line that the runner made of some answer.
Noted(r) == \E a \in Answers : ~Aborted(a) /\ r = Observe(r.request, a)

\* A line without a judgement is misrecorded, and then the scorer does not take it even
\* by itself, or valid and reproduced.
LEMMA FailureHolds ==
    ASSUME NEW t, NEW a \in Answers, ~Judges(a), ~Aborted(a)
    PROVE  LET r == Observe(t, a)
           IN /\ Misrecorded(r) => ~LineValid(r)
              /\ ~Misrecorded(r) => LineValid(r) /\ LineReplays(t, r)
  <1>. PICK r : r = Observe(t, a)
    OBVIOUS
  <1>0. Answer(a) /\ a # Null
    BY EvalConstants
  <1>1. PICK answer, usage, stage, code, message :
              /\ r = Line(t, answer, usage, stage, code, Null, Null, Null, Null, message)
              /\ answer = IF a.kind = "process" THEN Null ELSE a
              /\ stage \in {"adapter", "protocol"}
              /\ a.kind \in {"text", "value", "proposal"} => stage = "protocol"
              /\ a.kind = "proposal" => usage = Null /\ UsageOf(a) = "bad"
              /\ stage = "adapter" /\ a.kind = "error" =>
                     /\ a.exact /\ a.request /\ a.formed
                     /\ code = a.code /\ usage = UsageOf(a) /\ UsageOf(a) # "bad"
                     /\ message = Sanitized(a.message)
    BY ObserveFailed
  <1>2. /\ r.request = t /\ r.answer = answer /\ r.usage = usage /\ r.stage = stage /\ r.code = code
        /\ r.proposal = Null /\ r.valid = Null /\ r.compiled = Null /\ r.applied = Null
        /\ r.message = message
    BY <1>1 DEF Line
  <1>3. InResultSchema(r) /\ PipelineShape(r) /\ PipelineReplays(t, r)
    BY <1>1, <1>2, NullIsNothing DEF InResultSchema, PipelineShape, PipelineReplays
  <1>4. SUFFICES /\ Misrecorded(r) => ~ResponseIntact(r)
                 /\ ~Misrecorded(r) => ResponseIntact(r) /\ ResponseHolds(t, r)
    BY <1>2, <1>3 DEF LineValid, LineReplays
  <1>5. CASE a.kind = "process"
    <2>1. ~Misrecorded(r)
      BY <1>1, <1>2, <1>5 DEF Misrecorded, Malformed, Altered
    <2>. QED
      BY <1>1, <1>2, <1>5, <2>1 DEF ResponseIntact, ResponseHolds
  <1>6. CASE a.kind \in {"text", "value"}
    <2>1. ~Misrecorded(r)
      BY <1>0, <1>1, <1>2, <1>6 DEF Misrecorded, Malformed, Altered
    <2>. QED
      BY <1>0, <1>1, <1>2, <1>6, <2>1 DEF ResponseIntact, ResponseHolds
  <1>7. CASE a.kind \in {"error", "proposal"} /\ stage = "protocol"
    <2>1. Misrecorded(r)
      BY <1>0, <1>1, <1>2, <1>7 DEF Misrecorded, Malformed
    <2>2. CASE a.kind = "error"
      BY <1>0, <1>1, <1>2, <1>7, <2>1, <2>2 DEF ResponseIntact, ErrorMatches
    <2>3. CASE a.kind = "proposal"
      <3>1. ~UsageMatches(r)
        BY <1>1, <1>2, <2>3, NullIsNothing DEF UsageMatches, UsageOf
      <3>. QED
        BY <1>0, <1>1, <1>2, <2>1, <2>3, <3>1 DEF ResponseIntact
    <2>. QED
      BY <1>7, <2>2, <2>3
  <1>8. CASE a.kind = "error" /\ stage = "adapter"
    <2>1. a.scope = "observation"
      BY <1>0, <1>1, <1>8 DEF Aborted, Answer, UsageOf
    <2>2. r.answer = a /\ ~Malformed(r) /\ (Altered(r) <=> r.message # a.message)
      BY <1>0, <1>1, <1>2, <1>8 DEF Malformed, Altered
    <2>3. ErrorMatches(r) <=> r.message = a.message
      BY <1>1, <1>2, <1>8, <2>1, <2>2 DEF ErrorMatches, UsageOf
    <2>4. ResponseIntact(r) <=> r.message = a.message
      BY <1>0, <1>8, <2>2, <2>3 DEF ResponseIntact
    <2>5. ResponseHolds(t, r) <=> ResponseIntact(r)
      BY <1>0, <1>8, <2>2 DEF ResponseHolds
    <2>. QED
      BY <2>2, <2>4, <2>5 DEF Misrecorded
  <1>. QED
    BY <1>0, <1>1, <1>5, <1>6, <1>7, <1>8 DEF Answer

\* A judgement is recorded as it was, valid and reproduced.
LEMMA JudgementHolds ==
    ASSUME NEW t, NEW a \in Answers, Judges(a)
    PROVE  LET r == Observe(t, a)
           IN ~Misrecorded(r) /\ LineValid(r) /\ LineReplays(t, r)
  <1>. PICK r : r = Observe(t, a)
    OBVIOUS
  <1>0. a # Null /\ a.kind = "proposal"
    BY EvalConstants DEF Judges
  <1>1. PICK stage, code, proposal, valid, compiled, applied, message :
            /\ r = Line(t, a, UsageOf(a), stage, code, proposal, valid, compiled, applied, message)
            /\ stage \in {"response-schema", "compilation", "application", Null}
    BY ObserveJudged
  <1>2. r.request = t /\ r.answer = a /\ r.usage = UsageOf(a) /\ r.stage = stage
    BY <1>1 DEF Line
  <1>3. UsageMatches(r)
    BY <1>2 DEF UsageMatches, UsageOf
  <1>4. ~Misrecorded(r)
    BY <1>0, <1>1, <1>2, NullIsNothing DEF Misrecorded, Malformed, Altered
  <1>5. SUFFICES /\ InResultSchema(r) /\ PipelineShape(r) /\ PipelineReplays(t, r)
                 /\ r.valid = TRUE => r.proposal = a.proposal
                 /\ r.valid = ProposalFits(t, a.proposal)
                 /\ r.valid = FALSE => /\ r.stage = "response-schema" /\ r.code = "proposal.schema"
                                       /\ r.proposal = Null
    <2>1. ResponseIntact(r)
      BY <1>0, <1>2, <1>3, <1>5 DEF ResponseIntact
    <2>2. ResponseHolds(t, r)
      <3>1. ProposalFits(t, a.proposal) \in {TRUE, FALSE}
        BY DEF ProposalFits
      <3>2. CASE r.valid = TRUE
        BY <1>0, <1>2, <1>3, <1>5, <3>2 DEF ResponseHolds
      <3>3. CASE r.valid = FALSE
        BY <1>0, <1>2, <1>3, <1>5, <3>3 DEF ResponseHolds
      <3>. QED
        BY <1>5, <3>1, <3>2, <3>3
    <2>. QED
      BY <1>2, <1>5, <1>4, <2>1, <2>2 DEF LineValid, LineReplays
  <1>6. CASE ~ProposalFits(t, a.proposal)
    <2>1. r = Line(t, a, UsageOf(a), "response-schema", "proposal.schema",
                   Null, FALSE, Null, Null, Null)
      BY <1>6, ObserveJudged
    <2>2. r.stage = "response-schema" /\ r.code = "proposal.schema" /\ r.proposal = Null
          /\ r.valid = FALSE /\ r.compiled = Null /\ r.applied = Null
      BY <2>1 DEF Line
    <2>3. ProposalFits(t, a.proposal) = FALSE
      BY <1>6 DEF ProposalFits
    <2>4. InResultSchema(r) /\ PipelineShape(r) /\ PipelineReplays(t, r)
      BY <1>0, <1>2, <2>2, NullIsNothing DEF InResultSchema, PipelineShape, PipelineReplays
    <2>. QED
      BY <2>2, <2>3, <2>4
  <1>7. CASE ProposalFits(t, a.proposal)
    <2>0. a.proposal # Null
      BY <1>7 DEF ProposalFits
    <2>1. CASE ~Compiles(ObservationAt(t), a.proposal)
      <3>1. r = Line(t, a, UsageOf(a), "compilation", "proposal.compile", a.proposal, TRUE, FALSE,
                     Null, Null)
        BY <1>7, <2>1, ObserveJudged
      <3>2. r.stage = "compilation" /\ r.code = "proposal.compile" /\ r.proposal = a.proposal
            /\ r.valid = TRUE /\ r.compiled = FALSE /\ r.applied = Null
        BY <3>1 DEF Line
      <3>. QED
        BY <1>0, <1>2, <1>7, <2>0, <2>1, <3>2, NullIsNothing
        DEF InResultSchema, PipelineShape, PipelineReplays
    <2>2. CASE Compiles(ObservationAt(t), a.proposal) /\ TooLarge(Staged(t, a.proposal))
      <3>1. r = Line(t, a, UsageOf(a), "application", "proposal.continuity-limit", a.proposal, TRUE,
                     TRUE, FALSE, Null)
        BY <1>7, <2>2, ObserveJudged
      <3>2. r.stage = "application" /\ r.code = "proposal.continuity-limit"
            /\ r.proposal = a.proposal /\ r.valid = TRUE /\ r.compiled = TRUE /\ r.applied = FALSE
        BY <3>1 DEF Line
      <3>. QED
        BY <1>0, <1>2, <1>7, <2>0, <2>2, <3>2, NullIsNothing
        DEF InResultSchema, PipelineShape, PipelineReplays
    <2>3. CASE Compiles(ObservationAt(t), a.proposal) /\ ~TooLarge(Staged(t, a.proposal))
      <3>1. r = Line(t, a, UsageOf(a), Null, Null, a.proposal, TRUE, TRUE, TRUE, Null)
        BY <1>7, <2>3, ObserveJudged
      <3>2. r.stage = Null /\ r.proposal = a.proposal /\ r.valid = TRUE /\ r.compiled = TRUE
            /\ r.applied = TRUE
        BY <3>1 DEF Line
      <3>. QED
        BY <1>0, <1>2, <1>7, <2>0, <2>3, <3>2, NullIsNothing
        DEF InResultSchema, PipelineShape, PipelineReplays
    <2>. QED
      BY <2>1, <2>2, <2>3
  <1>. QED
    BY <1>6, <1>7

\* What the runner notes is misrecorded, or the scorer reproduces it.
LEMMA NotedHolds ==
    ASSUME NEW r, Noted(r)
    PROVE  /\ Misrecorded(r) => ~LineValid(r)
           /\ ~Misrecorded(r) => LineValid(r) /\ LineReplays(r.request, r)
  BY FailureHolds, JudgementHolds DEF Noted

----------------------------------------------------------------------------
(* The proposal benchmark: the invariant                                   *)

\* The lines of the file.
StillHeld == {lines[n] : n \in DOMAIN lines}

\* A line is known by the cut it is about.
CutOfLine(r) == Len(r.request.cuts) + 1

IsSeq(s) == \E X : s \in Seq(X)

\* What the lines of a file are, whatever was lost or doubled: made by the runner,
\* one for a cut, each request what became of the one before.
Linked(S) ==
    /\ \A r \in S : Noted(r) /\ IsSeq(r.request.cuts)
    /\ \A r, q \in S : CutOfLine(q) = CutOfLine(r) => q = r
    /\ \A r, q \in S : CutOfLine(q) = CutOfLine(r) + 1 => q.request = After(r.request, r)

\* Where the runner is: after the last of its lines.
AtRunner ==
    /\ score.cut = 1 /\ score.continuous
    /\ Len(cuts) = 0 => Trajectory = score.at
    /\ \A r \in StillHeld : CutOfLine(r) =< Len(cuts)
    /\ \A r \in StillHeld : CutOfLine(r) = Len(cuts) => Trajectory = After(r.request, r)

\* Where the scorer is: as long as no cut was missing or doubled, at the request of
\* the line of its cut.
AtScorer ==
    /\ score.cut \in Nat
    /\ score.continuous => \A r \in StillHeld : CutOfLine(r) = score.cut => r.request = score.at

EvalInv ==
    /\ lines \in Seq(StillHeld) /\ IsSeq(cuts)
    /\ Linked(StillHeld)
    /\ phase = "running" => AtRunner
    /\ AtScorer
    /\ phase \in {"scoring", "scored"} => \A r \in StillHeld : ~Misrecorded(r)
    /\ phase = "refused" => \E r \in StillHeld : Misrecorded(r)

\* A list grows by one.
LEMMA IsSeqAppend ==
    ASSUME NEW s, IsSeq(s), NEW x
    PROVE  IsSeq(Append(s, x)) /\ Len(Append(s, x)) = Len(s) + 1 /\ Len(s) \in Nat
  <1>1. PICK X : s \in Seq(X)
    BY DEF IsSeq
  <1>2. s \in Seq(X \cup {x}) /\ Append(s, x) \in Seq(X \cup {x})
    BY <1>1
  <1>. QED
    BY <1>1, <1>2 DEF IsSeq

\* What follows a line has one cut more.
LEMMA AfterCuts ==
    ASSUME NEW t, t = [events |-> t.events, handles |-> t.handles, cuts |-> t.cuts], NEW line
    PROVE  /\ After(t, line) = [events |-> After(t, line).events, handles |-> After(t, line).handles,
                                cuts |-> After(t, line).cuts]
           /\ \E x : After(t, line).cuts = Append(t.cuts, x)
  <1>1. CASE line.applied = TRUE
    BY <1>1 DEF After, Completed, Staged
  <1>2. CASE line.applied # TRUE
    BY <1>2 DEF After, Completed
  <1>. QED
    BY <1>1, <1>2

\* The file starts empty.
LEMMA EvalInvStarts == EvalInit => EvalInv
  <1>. SUFFICES ASSUME EvalInit PROVE EvalInv
    OBVIOUS
  <1>1. StillHeld = {} /\ lines \in Seq(StillHeld)
    BY DEF EvalInit, StillHeld
  <1>2. IsSeq(cuts) /\ Len(cuts) = 0
    <2>1. cuts \in Seq({}) /\ Len(cuts) = 0
      BY DEF EvalInit, BoundaryInit
    <2>. QED
      BY <2>1 DEF IsSeq
  <1>. QED
    BY <1>1, <1>2 DEF EvalInit, EvalInv, Linked, AtRunner, AtScorer

\* A list without one of its elements, or with one of them twice, is a list of them.
LEMMA WithoutOne ==
    ASSUME NEW S, NEW s \in Seq(S), NEW n \in DOMAIN s
    PROVE  /\ SubSeq(s, 1, n - 1) \o SubSeq(s, n + 1, Len(s)) \in Seq(S)
           /\ Append(s, s[n]) \in Seq(S)
  <1>1. Len(s) \in Nat /\ n \in 1..Len(s) /\ s[n] \in S
    OBVIOUS
  <1>2. SubSeq(s, 1, n - 1) \in Seq(S) /\ SubSeq(s, n + 1, Len(s)) \in Seq(S)
    BY <1>1
  <1>. QED
    BY <1>1, <1>2

\* A list is one of its own elements.
LEMMA OwnElements ==
    ASSUME NEW S, NEW s \in Seq(S)
    PROVE  s \in Seq({s[n] : n \in DOMAIN s}) /\ {s[n] : n \in DOMAIN s} \subseteq S
  OBVIOUS

\* Lines that are lost or doubled leave lines of the file.
LEMMA DamageKeeps ==
    ASSUME EvalInv, NEW n \in DOMAIN lines, LoseLine(n) \/ RepeatLine(n)
    PROVE  EvalInv'
  <1>1. lines' \in Seq(StillHeld)
    <2>. PICK S : S = StillHeld
      OBVIOUS
    <2>1. lines \in Seq(S)
      BY DEF EvalInv
    <2>. QED
      BY <2>1, WithoutOne DEF LoseLine, RepeatLine
  <1>2. lines' \in Seq(StillHeld') /\ StillHeld' \subseteq StillHeld
    BY <1>1, OwnElements DEF StillHeld
  <1>3. UNCHANGED <<boundaryVars, phase, score>> /\ phase = "published"
    BY DEF LoseLine, RepeatLine
  <1>4. Linked(StillHeld')
    BY <1>2 DEF EvalInv, Linked
  <1>5. AtScorer'
    BY <1>2, <1>3 DEF EvalInv, AtScorer
  <1>. QED
    BY <1>2, <1>3, <1>4, <1>5 DEF EvalInv, boundaryVars

\* A file with one line more, made of where the runner is.
LEMMA LineLinks ==
    ASSUME NEW a \in Answers, EvalInv, RecordLine(a)
    PROVE  EvalInv'
  <1>. PICK r : r = Observe(Trajectory, a)
    OBVIOUS
  <1>1. /\ phase = "running" /\ ~Aborted(a) /\ lines' = Append(lines, r)
        /\ Becomes(After(Trajectory, r)) /\ UNCHANGED <<phase, damage, score>>
    BY DEF RecordLine
  <1>2. r.request = Trajectory /\ Noted(r)
    BY <1>1, ObserveIsLine DEF Noted
  <1>3. Trajectory.cuts = cuts /\ IsSeq(cuts) /\ CutOfLine(r) = Len(cuts) + 1
    BY <1>2 DEF EvalInv, Trajectory, CutOfLine
  <1>4. Trajectory' = After(r.request, r) /\ IsSeq(cuts') /\ Len(cuts') = Len(cuts) + 1
        /\ Len(cuts) \in Nat
    <2>. PICK t : t = Trajectory
      OBVIOUS
    <2>1. t = [events |-> t.events, handles |-> t.handles, cuts |-> t.cuts]
      BY DEF Trajectory
    <2>2. PICK u : u = After(t, r)
      OBVIOUS
    <2>3. u = [events |-> u.events, handles |-> u.handles, cuts |-> u.cuts]
      BY <2>1, <2>2, AfterCuts
    <2>4. PICK x : u.cuts = Append(t.cuts, x)
      BY <2>1, <2>2, AfterCuts
    <2>5. events' = u.events /\ handles' = u.handles /\ cuts' = u.cuts
      BY <1>1, <2>2 DEF Becomes
    <2>6. Trajectory' = u
      BY <2>3, <2>5 DEF Trajectory
    <2>7. cuts' = Append(cuts, x)
      BY <1>3, <2>4, <2>5
    <2>. QED
      BY <1>2, <1>3, <2>2, <2>6, <2>7, IsSeqAppend
  <1>5. StillHeld' = StillHeld \cup {r} /\ lines' \in Seq(StillHeld')
    <2>. PICK S : S = StillHeld
      OBVIOUS
    <2>1. lines \in Seq(S) /\ S = {lines[n] : n \in DOMAIN lines}
      BY DEF EvalInv, StillHeld
    <2>. PICK more : more = Append(lines, r)
      OBVIOUS
    <2>2. more \in Seq(S \cup {r}) /\ DOMAIN more = DOMAIN lines \cup {Len(lines) + 1}
          /\ more[Len(lines) + 1] = r /\ \A n \in DOMAIN lines : more[n] = lines[n]
      BY <2>1
    <2>3. {more[n] : n \in DOMAIN more} = S \cup {r}
      BY <2>1, <2>2
    <2>. QED
      BY <1>1, <2>2, <2>3 DEF StillHeld
  <1>6. AtRunner /\ Linked(StillHeld) /\ AtScorer
    BY <1>1 DEF EvalInv
  <1>7. \A q \in StillHeld : CutOfLine(q) =< Len(cuts) /\ CutOfLine(q) \in Nat
    BY <1>6, IsSeqAppend DEF AtRunner, Linked, CutOfLine
  <1>8. Linked(StillHeld \cup {r})
    <2>1. \A q \in StillHeld : CutOfLine(q) # CutOfLine(r) /\ CutOfLine(q) # CutOfLine(r) + 1
      BY <1>3, <1>4, <1>7
    <2>2. \A q \in StillHeld : CutOfLine(r) = CutOfLine(q) + 1 => r.request = After(q.request, q)
      BY <1>2, <1>3, <1>4, <1>6, <1>7 DEF AtRunner
    <2>3. CutOfLine(r) # CutOfLine(r) + 1 /\ IsSeq(r.request.cuts)
      BY <1>2, <1>3, <1>4
    <2>. QED
      BY <1>2, <1>6, <2>1, <2>2, <2>3 DEF Linked
  <1>9. AtRunner'
    <2>1. \A q \in StillHeld' : CutOfLine(q) =< Len(cuts')
      BY <1>3, <1>4, <1>5, <1>7
    <2>2. \A q \in StillHeld' : CutOfLine(q) = Len(cuts') => Trajectory' = After(q.request, q)
      BY <1>3, <1>4, <1>5, <1>7
    <2>3. Len(cuts') # 0
      BY <1>4
    <2>. QED
      BY <1>1, <1>6, <2>1, <2>2, <2>3 DEF AtRunner
  <1>10. AtScorer'
    <2>1. CutOfLine(r) = 1 => r.request = score.at
      BY <1>2, <1>3, <1>4, <1>6 DEF AtRunner
    <2>. QED
      BY <1>1, <1>5, <1>6, <2>1 DEF AtScorer, AtRunner
  <1>. QED
    BY <1>1, <1>4, <1>5, <1>8, <1>9, <1>10 DEF EvalInv

\* Every step keeps the invariant.
LEMMA EvalInvKept == EvalInv /\ [EvalNext]_evalVars => EvalInv'
  <1>. SUFFICES ASSUME EvalInv, [EvalNext]_evalVars PROVE EvalInv'
    OBVIOUS
  <1>1. CASE /\ UNCHANGED <<boundaryVars, lines, score>> /\ phase' # "refused"
             /\ phase' = "running" => phase = "running"
             /\ phase' \in {"scoring", "scored"} => \A r \in StillHeld : ~Misrecorded(r)
    <2>1. StillHeld' = StillHeld /\ Trajectory' = Trajectory
      BY <1>1 DEF StillHeld, Trajectory, boundaryVars
    <2>. QED
      BY <1>1, <2>1 DEF EvalInv, AtRunner, AtScorer, boundaryVars
  <1>2. CASE UNCHANGED evalVars
    <2>1. StillHeld' = StillHeld /\ Trajectory' = Trajectory
      BY <1>2 DEF StillHeld, Trajectory, boundaryVars, evalVars
    <2>. QED
      BY <1>2, <2>1 DEF EvalInv, AtRunner, AtScorer, boundaryVars, evalVars
  <1>3. ASSUME NEW a \in Answers, RecordLine(a) PROVE EvalInv'
    BY <1>3, LineLinks
  <1>4. ASSUME NEW a \in Answers, Abort(a) PROVE EvalInv'
    <2>1. lines' = <<>> /\ phase' = "aborted" /\ UNCHANGED <<boundaryVars, score>>
      BY <1>4 DEF Abort
    <2>2. StillHeld' = {} /\ lines' \in Seq(StillHeld')
      BY <2>1 DEF StillHeld
    <2>. QED
      BY <2>1, <2>2 DEF EvalInv, Linked, AtScorer, boundaryVars
  <1>5. CASE PublishResults \/ ScoreEnds
    BY <1>1, <1>5 DEF PublishResults, ScoreEnds, EvalInv
  <1>6. ASSUME NEW n \in DOMAIN lines, LoseLine(n) \/ RepeatLine(n) PROVE EvalInv'
    BY <1>6, DamageKeeps
  <1>7. CASE ScoreStarts
    <2>1. CASE \A n \in DOMAIN lines : LineValid(lines[n])
      <3>1. \A r \in StillHeld : ~Misrecorded(r)
        BY <2>1, NotedHolds DEF EvalInv, Linked, StillHeld
      <3>. QED
        BY <1>1, <1>7, <2>1, <3>1 DEF ScoreStarts
    <2>2. ASSUME NEW n \in DOMAIN lines, ~LineValid(lines[n]) PROVE EvalInv'
      <3>1. lines[n] \in StillHeld /\ Noted(lines[n])
        BY DEF EvalInv, Linked, StillHeld
      <3>2. Misrecorded(lines[n])
        BY <2>2, <3>1, NotedHolds
      <3>3. phase' = "refused" /\ UNCHANGED <<boundaryVars, lines, score>>
        BY <1>7, <2>2 DEF ScoreStarts
      <3>4. StillHeld' = StillHeld
        BY <3>3 DEF StillHeld
      <3>. QED
        BY <3>1, <3>2, <3>3, <3>4 DEF EvalInv, AtScorer, boundaryVars
    <2>. QED
      BY <2>1, <2>2
  <1>8. CASE ScoreCut
    <2>. PICK entries : entries = EntriesOf(score.cut)
      OBVIOUS
    <2>1. UNCHANGED <<boundaryVars, lines>> /\ phase = "scoring" /\ StillHeld' = StillHeld
      BY <1>8 DEF ScoreCut, StillHeld
    <2>2. CASE score.continuous /\ \E n \in entries : ~LineReplays(score.at, lines[n])
      <3>1. PICK n \in entries : ~LineReplays(score.at, lines[n])
        BY <2>2
      <3>2. lines[n] \in StillHeld /\ CutOfLine(lines[n]) = score.cut
        BY DEF EntriesOf, StillHeld, CutOfLine
      <3>3. lines[n].request = score.at /\ Noted(lines[n])
        BY <2>2, <3>2 DEF EvalInv, AtScorer, Linked
      <3>4. Misrecorded(lines[n])
        BY <3>1, <3>3, NotedHolds
      <3>. QED
        BY <2>1, <3>2, <3>4 DEF EvalInv
    <2>3. CASE ~(score.continuous /\ \E n \in entries : ~LineReplays(score.at, lines[n]))
      <3>1. UNCHANGED phase /\ score'.cut = score.cut + 1
            /\ score'.continuous = Continues(entries)
            /\ score'.at = IF Continues(entries)
                           THEN After(score.at, lines[CHOOSE n \in entries : TRUE]) ELSE score.at
        BY <1>8, <2>3 DEF ScoreCut
      <3>2. ASSUME Continues(entries), NEW q \in StillHeld, CutOfLine(q) = score.cut + 1
            PROVE  q.request = score'.at
        <4>1. PICK n \in entries : entries = {n}
          BY <3>2 DEF Continues
        <4>2. score.continuous /\ (CHOOSE i \in entries : TRUE) = n
          BY <3>2, <4>1 DEF Continues
        <4>3. lines[n] \in StillHeld /\ CutOfLine(lines[n]) = score.cut
          BY DEF EntriesOf, StillHeld, CutOfLine
        <4>4. lines[n].request = score.at
          BY <4>2, <4>3 DEF EvalInv, AtScorer
        <4>5. q.request = After(lines[n].request, lines[n])
          BY <3>2, <4>3 DEF EvalInv, Linked
        <4>. QED
          BY <3>1, <3>2, <4>2, <4>4, <4>5
      <3>3. AtScorer'
        <4>1. score'.cut \in Nat
          BY <3>1 DEF EvalInv, AtScorer
        <4>2. ASSUME score'.continuous, NEW q \in StillHeld', CutOfLine(q) = score'.cut
              PROVE  q.request = score'.at
          BY <2>1, <3>1, <3>2, <4>2
        <4>. QED
          BY <4>1, <4>2 DEF AtScorer
      <3>. QED
        BY <2>1, <3>1, <3>3 DEF EvalInv, boundaryVars
    <2>. QED
      BY <2>2, <2>3
  <1>. QED
    BY <1>2, <1>3, <1>4, <1>5, <1>6, <1>7, <1>8 DEF EvalNext

\* The scorer turns a file of the runner away exactly when it holds a malformed object or
\* an altered message (replayResults, validateResults), whatever the model proposed and
\* whichever lines are missing or doubled.
THEOREM ExactlyMisrecordedRefused == EvalSpec => []RefusedExactly
  <1>1. EvalInv => RefusedExactly
    BY DEF EvalInv, RefusedExactly, StillHeld
  <1>. QED
    BY EvalInvStarts, EvalInvKept, <1>1, PTL DEF EvalSpec

----------------------------------------------------------------------------
(* The interface benchmark: what the runner writes, the scorer reproduces  *)

LEMMA ListIsSeq == ASSUME NEW s, IsList(s) PROVE IsSeq(s)
  <1>1. s \in Seq({s[i] : i \in 1..Len(s)})
    BY DEF IsList
  <1>. QED
    BY <1>1 DEF IsSeq

\* Two lists in a row are one.
LEMMA IsSeqConcat ==
    ASSUME NEW s, NEW u, IsSeq(s), IsSeq(u)
    PROVE  IsSeq(s \o u) /\ Len(s \o u) \in Nat
  <1>1. PICK X : s \in Seq(X)
    BY DEF IsSeq
  <1>2. PICK Y : u \in Seq(Y)
    BY DEF IsSeq
  <1>3. s \in Seq(X \cup Y) /\ u \in Seq(X \cup Y)
    BY <1>1, <1>2
  <1>4. s \o u \in Seq(X \cup Y)
    BY <1>3
  <1>. QED
    BY <1>4 DEF IsSeq

\* The events of a delta are a list.
LEMMA EventsListed ==
    ASSUME NEW delta, IsList(delta)
    PROVE  IsSeq(EventsOf(delta))
  <1>1. DOMAIN delta = 1..Len(delta) /\ Len(delta) \in Nat
    BY DEF IsList
  <1>2. EventsOf(delta) \in Seq({delta[i].event : i \in 1..Len(delta)})
    BY <1>1 DEF EventsOf
  <1>. QED
    BY <1>2 DEF IsSeq

\* A check of a delta that fails has a code of its own.
LEMMA DeltaErrorCodes == \A delta, k : DeltaError(delta, k) \in DeltaCodes \cup {Null}
  BY DEF DeltaError, DeltaCodes

\* A record that the runner made of some answer, from some state.
Asked(r) ==
    /\ r.cut \in 1..LastCut /\ IsSeq(r.prior.events)
    /\ arm = "structured-extraction" => r.prior.events = SetupEvents
    /\ \E a \in InterfaceAnswers : ~RunEnds(a) /\ r = Ask(r.cut, r.prior, a)

\* A record without a delta holds by itself, but for a code that is reserved and for a message
\* that is not kept.
LEMMA PlainHolds ==
    ASSUME NEW k, NEW p, NEW a \in InterfaceAnswers,
           a.kind # "delta" \/ ~ResponseValid(a)
    PROVE  LET r == Ask(k, p, a)
           IN /\ ResultValid(r) <=> ~ReservedCode(r)
              /\ RawResponseHolds(r) <=> ~AlteredRecord(r)
              /\ HasRun => Reproduces(r, p.events)
              /\ r.admitted # TRUE /\ r.delta = Null
  <1>. PICK r : r = Ask(k, p, a)
    OBVIOUS
  <1>. SUFFICES /\ ResultValid(r) <=> ~ReservedCode(r)
                /\ RawResponseHolds(r) <=> ~AlteredRecord(r)
                /\ HasRun => Reproduces(r, p.events)
                /\ r.admitted # TRUE /\ r.delta = Null
    OBVIOUS
  <1>0. a # Null /\ InterfaceAnswer(a)
    BY InterfaceConstants
  <1>1. CASE a.kind = "process"
    <2>1. r = Row(k, p, Null, "adapter", a.code, FALSE, Null, Null, Null, NoRun, Null, Null)
      BY <1>1, AskPlain
    <2>2. /\ r.answer = Null /\ r.stage = "adapter" /\ r.memory = Null /\ r.delta = Null
          /\ r.admitted = NoRun /\ r.size = Null
      BY <2>1 DEF Row
    <2>3. ResultValid(r) <=> ~ReservedCode(r)
      BY <2>2, NullIsNoField DEF ResultValid, ReservedCode, StoredDeltaError, NoRun
    <2>. QED
      BY <2>2, <2>3, NullIsNoField DEF RawResponseHolds, AlteredRecord, Reproduces, NoRun
  <1>2. CASE a.kind # "process" /\ ~ResponseValid(a)
    <2>1. r = Row(k, p, a, "protocol", "response.invalid", FALSE, Null, Null, Null, NoRun, Null, Null)
      BY <1>2, AskPlain
    <2>2. /\ r.answer = a /\ r.stage = "protocol" /\ r.code = "response.invalid" /\ r.memory = Null
          /\ r.delta = Null /\ r.admitted = NoRun /\ r.size = Null
      BY <2>1 DEF Row
    <2>3. ResultValid(r) <=> ~ReservedCode(r)
      BY <2>2, NullIsNoField DEF ResultValid, ReservedCode, StoredDeltaError, NoRun
    <2>. QED
      BY <1>0, <1>2, <2>2, <2>3, NullIsNoField DEF RawResponseHolds, AlteredRecord, Reproduces, NoRun
  <1>3. CASE a.kind = "error"
    <2>1. r = Row(k, p, a, "adapter", a.code, FALSE, Null, Null, Null, NoRun, Null, Bounded(a.message))
      BY <1>3, AskPlain
    <2>2. /\ r.answer = a /\ r.stage = "adapter" /\ r.code = a.code /\ r.memory = Null
          /\ r.delta = Null /\ r.admitted = NoRun /\ r.size = Null
      BY <2>1 DEF Row
    <2>3. ResultValid(r) <=> ~ReservedCode(r)
      BY <2>2, NullIsNoField DEF ResultValid, ReservedCode, StoredDeltaError, NoRun
    <2>4. RawResponseHolds(r) <=> ~AlteredRecord(r)
      BY <1>0, <1>3, <2>2 DEF RawResponseHolds, AlteredRecord, ResponseValid
    <2>. QED
      BY <2>2, <2>3, <2>4, NullIsNoField DEF Reproduces, NoRun
  <1>4. CASE a.kind = "answer" /\ ResponseValid(a)
    <2>1. r = Row(k, p, a, Null, Null, TRUE, Null, Null, Null, Null, Null, Null)
      BY <1>4, AskPlain
    <2>2. /\ r.answer = a /\ r.stage = Null /\ r.code = Null /\ r.answered = TRUE /\ r.memory = Null
          /\ r.delta = Null /\ r.admitted = Null /\ r.size = Null
      BY <2>1 DEF Row
    <2>3. arm = "direct" /\ ~HasRun
      BY <1>4 DEF ResponseValid, HasRun
    <2>4. ResultValid(r) <=> ~ReservedCode(r)
      BY <2>2, <2>3 DEF ResultValid, ReservedCode
    <2>5. RawResponseHolds(r) <=> ~AlteredRecord(r)
      BY <1>0, <1>4, <2>2, NullIsNoField DEF RawResponseHolds, AlteredRecord
    <2>. QED
      BY <2>2, <2>3, <2>4, <2>5, NullIsNoField
  <1>5. CASE a.kind = "memory" /\ ResponseValid(a)
    <2>1. arm = "narrative-memory" /\ ~HasRun /\ a.memory # Null
      BY <1>0, <1>5 DEF ResponseValid, HasRun, InterfaceAnswer
    <2>2. CASE a.fits
      <3>1. r = Row(k, p, a, Null, Null, TRUE, a.memory, Null, Null, Null, Null, Null)
        BY <1>5, <2>2, AskPlain
      <3>2. /\ r.answer = a /\ r.stage = Null /\ r.code = Null /\ r.answered = TRUE
            /\ r.memory = a.memory /\ r.delta = Null /\ r.admitted = Null /\ r.size = Null
        BY <3>1 DEF Row
      <3>3. ResultValid(r) <=> ~ReservedCode(r)
        BY <2>1, <3>2 DEF ResultValid, ReservedCode
      <3>4. RawResponseHolds(r) <=> ~AlteredRecord(r)
        BY <1>0, <1>5, <2>2, <3>2, NullIsNoField DEF RawResponseHolds, AlteredRecord
      <3>. QED
        BY <2>1, <3>2, <3>3, <3>4, NullIsNoField
    <2>3. CASE ~a.fits
      <3>1. r = Row(k, p, a, "memory", "memory.over-budget", TRUE, a.memory, Null, Null, Null, Null,
                    Null)
        BY <1>5, <2>3, AskPlain
      <3>2. /\ r.answer = a /\ r.stage = "memory" /\ r.code = "memory.over-budget"
            /\ r.answered = TRUE /\ r.memory = a.memory /\ r.delta = Null /\ r.admitted = Null
            /\ r.size = Null
        BY <3>1 DEF Row
      <3>3. ResultValid(r) <=> ~ReservedCode(r)
        BY <2>1, <3>2, NullIsNoField DEF ResultValid, ReservedCode
      <3>4. RawResponseHolds(r) <=> ~AlteredRecord(r)
        BY <1>0, <1>5, <2>3, <3>2, NullIsNoField DEF RawResponseHolds, AlteredRecord
      <3>. QED
        BY <2>1, <3>2, <3>3, <3>4, NullIsNoField
    <2>. QED
      BY <2>2, <2>3
  <1>. QED
    BY <1>0, <1>1, <1>2, <1>3, <1>4, <1>5 DEF InterfaceAnswer, ResponseValid

\* A record of a delta holds by itself, and against the events it was made from.
LEMMA DeltaHolds ==
    ASSUME NEW k, NEW p, IsSeq(p.events), NEW a \in InterfaceAnswers,
           a.kind = "delta", ResponseValid(a)
    PROVE  LET r == Ask(k, p, a)
           IN /\ ResultValid(r) /\ ~ReservedCode(r)
              /\ RawResponseHolds(r) <=> ~AlteredRecord(r)
              /\ Reproduces(r, p.events)
              /\ r.delta = a.delta
  <1>. PICK r : r = Ask(k, p, a)
    OBVIOUS
  <1>. PICK error : error = DeltaError(a.delta, k)
    OBVIOUS
  <1>. PICK run : run = RunWith(p, a)
    OBVIOUS
  <1>. PICK size : size = StateSize(run)
    OBVIOUS
  <1>0. a # Null /\ a.delta # Null /\ IsList(a.delta) /\ HasRun /\ arm # "narrative-memory"
        /\ {StateBudget} \subseteq Int
    BY InterfaceConstants DEF InterfaceAnswer, ResponseValid, HasRun
  <1>1. error \in DeltaCodes \cup {Null}
    BY DeltaErrorCodes
  <1>2. size \in Int /\ size # Null
    <2>1. IsSeq(EventsOf(a.delta))
      BY <1>0, EventsListed
    <2>2. Len(run) \in Nat
      BY <2>1, IsSeqConcat DEF RunWith
    <2>3. Len(SetupEvents) \in Nat
      BY InterfaceConstants DEF IsList
    <2>4. size \in Int
      BY <2>2, <2>3 DEF StateSize
    <2>. QED
      BY <2>4, ProjectionConstants
  <1>3. SUFFICES /\ r.delta = a.delta /\ r.query = a.query /\ r.answer = a /\ r.cut = k
                 /\ ResultValid(r) /\ r.stage \notin {"adapter", "protocol"}
                 /\ Reproduces(r, p.events)
    BY <1>0, <1>3 DEF RawResponseHolds, AlteredRecord, ReservedCode
  <1>4. CASE error # Null
    <2>1. r = Row(k, p, a, "admission", error, FALSE, Null, a.delta, a.query, FALSE, Null, Null)
      BY <1>4, AskDelta
    <2>2. /\ r.cut = k /\ r.answer = a /\ r.stage = "admission" /\ r.code = error
          /\ r.answered = FALSE /\ r.memory = Null /\ r.delta = a.delta /\ r.query = a.query
          /\ r.admitted = FALSE /\ r.size = Null
      BY <2>1 DEF Row
    <2>3. error # "state.over-budget"
      BY <1>1, <1>4 DEF DeltaCodes
    <2>4. ResultValid(r)
      BY <1>0, <1>4, <2>2, <2>3, NullIsNoField DEF ResultValid, StoredDeltaError
    <2>5. Reproduces(r, p.events)
      BY <1>0, <1>4, <2>2 DEF Reproduces, FailedAs
    <2>. QED
      BY <2>2, <2>4, <2>5
  <1>5. CASE error = Null /\ ~RunParses(p.events, a.delta)
    <2>1. r = Row(k, p, a, "admission", "run.rejected", FALSE, Null, a.delta, a.query, FALSE, Null,
                  Null)
      BY <1>5, AskDelta
    <2>2. /\ r.cut = k /\ r.answer = a /\ r.stage = "admission" /\ r.code = "run.rejected"
          /\ r.answered = FALSE /\ r.memory = Null /\ r.delta = a.delta /\ r.query = a.query
          /\ r.admitted = FALSE /\ r.size = Null
      BY <2>1 DEF Row
    <2>3. ResultValid(r)
      BY <1>0, <1>5, <2>2, NullIsNoField DEF ResultValid, StoredDeltaError
    <2>4. Reproduces(r, p.events)
      BY <1>0, <1>5, <2>2 DEF Reproduces, FailedAs
    <2>. QED
      BY <2>2, <2>3, <2>4
  <1>6. CASE error = Null /\ RunParses(p.events, a.delta) /\ size > StateBudget
    <2>1. r = Row(k, p, a, "admission", "state.over-budget", FALSE, Null, a.delta, a.query, FALSE, size,
                  Null)
      BY <1>6, AskDelta
    <2>2. /\ r.cut = k /\ r.answer = a /\ r.stage = "admission" /\ r.code = "state.over-budget"
          /\ r.answered = FALSE /\ r.memory = Null /\ r.delta = a.delta /\ r.query = a.query
          /\ r.admitted = FALSE /\ r.size = size
      BY <2>1 DEF Row
    <2>3. ResultValid(r)
      BY <1>0, <1>2, <1>6, <2>2, NullIsNoField DEF ResultValid, StoredDeltaError
    <2>4. Reproduces(r, p.events)
      BY <1>0, <1>6, <2>2 DEF Reproduces, FailedAs, RunWith
    <2>. QED
      BY <2>2, <2>3, <2>4
  <1>7. CASE /\ error = Null /\ RunParses(p.events, a.delta) /\ ~(size > StateBudget)
             /\ ~QueryParses(run, a.query)
    <2>1. r = Row(k, p, a, "query", "query.rejected", FALSE, Null, a.delta, a.query, TRUE, size, Null)
      BY <1>7, AskDelta
    <2>2. /\ r.cut = k /\ r.answer = a /\ r.stage = "query" /\ r.code = "query.rejected"
          /\ r.answered = FALSE /\ r.memory = Null /\ r.delta = a.delta /\ r.query = a.query
          /\ r.admitted = TRUE /\ r.size = size
      BY <2>1 DEF Row
    <2>3. ResultValid(r)
      BY <1>0, <1>2, <1>7, <2>2, NullIsNoField DEF ResultValid, StoredDeltaError
    <2>4. Reproduces(r, p.events)
      BY <1>0, <1>7, <2>2 DEF Reproduces, FailedAs, RunWith
    <2>. QED
      BY <2>2, <2>3, <2>4
  <1>8. CASE /\ error = Null /\ RunParses(p.events, a.delta) /\ ~(size > StateBudget)
             /\ QueryParses(run, a.query) /\ Overflows(run, a.query)
    <2>1. r = Row(k, p, a, "reasoning", "reasoning.failed", FALSE, Null, a.delta, a.query, TRUE,
                  size, Null)
      BY <1>8, AskDelta
    <2>2. /\ r.cut = k /\ r.answer = a /\ r.stage = "reasoning" /\ r.code = "reasoning.failed"
          /\ r.answered = FALSE /\ r.memory = Null /\ r.delta = a.delta /\ r.query = a.query
          /\ r.admitted = TRUE /\ r.size = size
      BY <2>1 DEF Row
    <2>3. ResultValid(r)
      BY <1>0, <1>2, <1>8, <2>2, NullIsNoField DEF ResultValid, StoredDeltaError
    <2>4. Reproduces(r, p.events)
      BY <1>0, <1>8, <2>2 DEF Reproduces, FailedAs, RunWith
    <2>. QED
      BY <2>2, <2>3, <2>4
  <1>9. CASE /\ error = Null /\ RunParses(p.events, a.delta) /\ ~(size > StateBudget)
             /\ QueryParses(run, a.query) /\ ~Overflows(run, a.query)
    <2>1. r = Row(k, p, a, Null, Null, TRUE, Null, a.delta, a.query, TRUE, size, Null)
      BY <1>9, AskDelta
    <2>2. /\ r.cut = k /\ r.answer = a /\ r.stage = Null /\ r.code = Null
          /\ r.answered = TRUE /\ r.memory = Null /\ r.delta = a.delta /\ r.query = a.query
          /\ r.admitted = TRUE /\ r.size = size
      BY <2>1 DEF Row
    <2>3. ResultValid(r)
      BY <1>0, <1>2, <1>9, <2>2, NullIsNoField DEF ResultValid, StoredDeltaError
    <2>4. Reproduces(r, p.events)
      BY <1>0, <1>9, <2>2 DEF Reproduces, RunWith
    <2>. QED
      BY <2>2, <2>3, <2>4, NullIsNoField
  <1>. QED
    BY <1>4, <1>5, <1>6, <1>7, <1>8, <1>9

\* What a record of the runner is to the scorer.
LEMMA AskedHolds ==
    ASSUME NEW r, Asked(r)
    PROVE  /\ ResultValid(r) <=> ~ReservedCode(r)
           /\ RawResponseHolds(r) <=> ~AlteredRecord(r)
           /\ HasRun => Reproduces(r, r.prior.events)
           /\ r.admitted = TRUE => IsList(r.delta)
  <1>1. PICK a \in InterfaceAnswers : r = Ask(r.cut, r.prior, a)
    BY DEF Asked
  <1>2. CASE a.kind = "delta" /\ ResponseValid(a)
    <2>1. IsList(a.delta)
      BY <1>2, InterfaceConstants DEF InterfaceAnswer
    <2>. QED
      BY <1>1, <1>2, <2>1, DeltaHolds DEF Asked
  <1>3. CASE ~(a.kind = "delta" /\ ResponseValid(a))
    BY ZenonT(60), <1>1, <1>3, PlainHolds
  <1>. QED
    BY <1>2, <1>3

----------------------------------------------------------------------------
(* The interface benchmark: replay                                         *)

\* A set of numbers that is not empty has a least one.
LEMMA LeastNumber ==
    ASSUME NEW T \in SUBSET Nat, T # {}
    PROVE  \E n \in T : \A m \in T : n =< m
  <1>. DEFINE Lt == {pair \in Nat \X Nat : pair[1] < pair[2]}
  <1>1. WF!IsWellFoundedOn(Lt, Nat)
    BY WF!NatLessThanWellFounded DEF WF!OpToRel
  <1>2. PICK n \in T : \A m \in T : ~(<<m, n>> \in Lt)
    BY <1>1, WF!WFMin
  <1>3. ASSUME NEW m \in T
        PROVE  n =< m
    <2>1. m \in Nat /\ n \in Nat
      OBVIOUS
    <2>2. ~(m < n)
      BY <1>2, <2>1
    <2>. QED
      BY <2>1, <2>2
  <1>. QED
    BY <1>3

\* Induction up to a number, for a set of numbers.
LEMMA UpTo ==
    ASSUME NEW n \in Nat, NEW T, 0 \in T, \A i \in 1 .. n : i - 1 \in T => i \in T
    PROVE  0 .. n \subseteq T
  <1>. DEFINE Bad == {i \in 0 .. n : i \notin T}
  <1>1. SUFFICES ASSUME Bad # {} PROVE FALSE
    OBVIOUS
  <1>2. PICK i \in Bad : \A m \in Bad : i =< m
    <2>1. Bad \in SUBSET Nat
      OBVIOUS
    <2>. HIDE DEF Bad
    <2>. QED
      BY <1>1, <2>1, LeastNumber
  <1>3. i \in 1 .. n /\ i - 1 \in 0 .. n /\ i - 1 \notin Bad
    BY <1>2
  <1>. QED
    BY <1>3

Start == [memory |-> "", events |-> SetupEvents, cuts |-> <<>>]

\* The states a runner goes through with some records.
Follows(S, list) ==
    /\ S[0] = Start
    /\ \A i \in 1..Len(list) :
           /\ S[i] = Carries(S[i - 1], list[i])
           /\ list[i].prior = PriorAt(i, S[i - 1])

\* The scorer replays them: before a cut it is where the runner was.
LEMMA ReplayFollows ==
    ASSUME Len(records) \in Nat, \A n \in 1..Len(records) : records[n].cut = n,
           NEW S, Follows(S, records), NEW k \in 1..Len(records)
    PROVE  Replayed(k) = S[k - 1]
  <1>. DEFINE N == Len(records)
              Next1(n, before) == IF records[n].cut < k THEN Replay(before, records[n]) ELSE before
              Whole(h) == [n \in 0..N |-> IF n = 0 THEN Start ELSE Next1(n, h[n - 1])]
              at == [n \in 0..N |-> IF n < k THEN S[n] ELSE S[k - 1]]
  <1>1. \A n \in 1..N : n < k => Replay(S[n - 1], records[n]) = S[n]
    BY DEF Follows, Replay, Carries
  <1>2. \A n \in 1..N : Next1(n, at[n - 1]) = at[n]
    <2>. TAKE n \in 1..N
    <2>1. n - 1 \in 0..N /\ n \in 0..N /\ records[n].cut = n
      OBVIOUS
    <2>2. CASE n < k
      <3>1. at[n - 1] = S[n - 1] /\ at[n] = S[n]
        BY <2>1, <2>2
      <3>2. Next1(n, S[n - 1]) = S[n]
        BY <1>1, <2>1, <2>2
      <3>. QED
        BY <3>1, <3>2
    <2>3. CASE ~(n < k)
      <3>1. at[n] = S[k - 1]
        BY <2>1, <2>3
      <3>2. at[n - 1] = S[k - 1]
        BY <2>1, <2>3
      <3>3. \A x : Next1(n, x) = x
        BY <2>1, <2>3
      <3>. QED
        BY <3>1, <3>2, <3>3
    <2>. QED
      BY <2>2, <2>3
  <1>3. at = Whole(at)
    <2>1. at[0] = Start
      BY DEF Follows
    <2>2. \A n \in 0..N : n # 0 => n \in 1..N
      OBVIOUS
    <2>3. \A n \in 0..N : at[n] = IF n = 0 THEN Start ELSE Next1(n, at[n - 1])
      <3>. HIDE DEF at, Next1
      <3>. QED
        BY <1>2, <2>1, <2>2
    <2>4. at = [n \in 0..N |-> at[n]]
      OBVIOUS
    <2>. HIDE DEF at, Next1
    <2>. QED
      BY <2>3, <2>4
  <1>4. PICK h : h = CHOOSE g : g = Whole(g)
    OBVIOUS
  <1>5. h = Whole(h)
    <2>. HIDE DEF at, Whole
    <2>. QED
      BY <1>3, <1>4
  <1>6. Replayed(k) = h[N]
    BY <1>4 DEF Replayed, Start
  <1>7. h[N] = at[N]
    <2>. DEFINE T == {n \in 0..N : h[n] = at[n]}
    <2>1. 0 \in T
      <3>1. at[0] = Start
        BY DEF Follows
      <3>2. h[0] = Start
        <4>. HIDE DEF Next1
        <4>. QED
          BY <1>5
      <3>. HIDE DEF at, Next1
      <3>. QED
        BY <3>1, <3>2
    <2>2. ASSUME NEW n \in 1..N, n - 1 \in T PROVE n \in T
      <3>1. h[n] = Next1(n, h[n - 1])
        <4>. HIDE DEF Next1
        <4>. QED
          BY <1>5
      <3>2. h[n - 1] = at[n - 1]
        BY <2>2
      <3>. HIDE DEF at, Next1
      <3>. QED
        BY <1>2, <3>1, <3>2
    <2>3. N \in T
      <3>. HIDE DEF T, N
      <3>1. N \in Nat
        BY DEF N
      <3>2. 0..N \subseteq T
        BY <2>1, <2>2, <3>1, UpTo
      <3>. QED
        BY <3>1, <3>2
    <2>. HIDE DEF at
    <2>. QED
      BY <2>3
  <1>. QED
    BY <1>6, <1>7

----------------------------------------------------------------------------
(* The interface benchmark: the invariant                                  *)

InOrder(list) == \A n \in DOMAIN list : list[n].cut = n

\* What a file may be turned away for.
Reasons ==
    \/ arm = "structured-extraction" /\ \E n \in DOMAIN records : ~CutsInferred(records[n])
    \/ arm \in {"timeline", "narrative-memory"} /\ Gap
    \/ \E n \in DOMAIN records :
           \/ ReservedCode(records[n]) \/ AlteredRecord(records[n])
           \/ HasRun /\ ~Compared(records[n], records[n].prior.events)

\* Every record is the runner's; without a gap the records are those of one walk
\* through the cuts, of which the runner carries the end.
FileInv ==
    /\ arm \in {"direct", "narrative-memory", "structured-extraction", "timeline"}
    /\ forced => arm = "timeline"
    /\ IsSeq(records) /\ IsSeq(carried.events)
    /\ \A n \in DOMAIN records : Asked(records[n])
    /\ verdict = "running" \/ Len(records) = LastCut => InOrder(records)
    /\ InOrder(records) =>
           \E S : Follows(S, records)
                  /\ (verdict = "running" /\ ~forced => carried = S[Len(records)])
    /\ TurnedAwayExactly

\* No walk has been made yet.
LEMMA FollowsNothing == \E S : Follows(S, <<>>) /\ S[0] = Start
  <1>. PICK S : S = [i \in {0} |-> Start]
    OBVIOUS
  <1>1. S[0] = Start
    OBVIOUS
  <1>. QED
    BY <1>1 DEF Follows

\* What the arm decides stays with the arm.
LEMMA ArmStays ==
    ASSUME UNCHANGED <<arm, forced>>
    PROVE  /\ \A k, p, a : Ask(k, p, a)' = Ask(k, p, a)
           /\ \A k, s : PriorAt(k, s)' = PriorAt(k, s)
           /\ \A s, r : Carries(s, r)' = Carries(s, r)
           /\ \A r : ReservedCode(r)' <=> ReservedCode(r)
  <1>1. \A a : ResponseValid(a)' <=> ResponseValid(a)
    BY DEF ResponseValid, HasRun
  <1>2. \A delta, k : DeltaError(delta, k)' = DeltaError(delta, k)
    BY DEF DeltaError, EvidenceFor
  <1>3. \A r, stage, code : Fails(r, stage, code)' = Fails(r, stage, code)
    BY DEF Fails, HasRun
  <1>4. \A r, k, p : Admit(r, k, p)' = Admit(r, k, p)
    BY <1>2, <1>3 DEF Admit
  <1>5. \A k, p, a : Ask(k, p, a)' = Ask(k, p, a)
    BY <1>3, <1>4 DEF Ask, ResponseValid, HasRun
  <1>6. \A k, s : PriorAt(k, s)' = PriorAt(k, s)
    BY DEF PriorAt
  <1>7. \A s, r : Carries(s, r)' = Carries(s, r)
    BY DEF Carries
  <1>8. \A r : ReservedCode(r)' <=> ReservedCode(r)
    BY DEF ReservedCode, HasRun
  <1>. QED
    BY <1>5, <1>6, <1>7, <1>8

\* So do what a record and a walk are.
LEMMA WalkStays ==
    ASSUME UNCHANGED <<arm, forced>>
    PROVE  /\ \A r : Asked(r)' <=> Asked(r)
           /\ \A S, list : Follows(S, list)' <=> Follows(S, list)
  BY ArmStays DEF Asked, Follows

\* The runner has asked nothing yet.
LEMMA FileInvStarts == InterfaceInit => FileInv
  <1>. SUFFICES ASSUME InterfaceInit PROVE FileInv
    OBVIOUS
  <1>1. records = <<>> /\ carried = Start /\ verdict = "running" /\ arm \in Arms
        /\ (forced => arm = "timeline")
    BY DEF InterfaceInit, Start
  <1>2. arm \in {"direct", "narrative-memory", "structured-extraction", "timeline"}
    BY <1>1, InterfaceConstants
  <1>3. IsSeq(records) /\ Len(records) = 0 /\ DOMAIN records = {}
    <2>1. records \in Seq({}) /\ Len(records) = 0 /\ DOMAIN records = {}
      BY <1>1
    <2>. QED
      BY <2>1 DEF IsSeq
  <1>4. IsSeq(carried.events)
    BY <1>1, ListIsSeq, InterfaceConstants DEF Start
  <1>5. InOrder(records) /\ (\A n \in DOMAIN records : Asked(records[n]))
    BY <1>3 DEF InOrder
  <1>6. \E S : Follows(S, records) /\ carried = S[Len(records)]
    BY <1>1, <1>3, FollowsNothing
  <1>7. TurnedAwayExactly
    BY <1>1 DEF TurnedAwayExactly
  <1>. QED
    BY <1>1, <1>2, <1>3, <1>4, <1>5, <1>6, <1>7 DEF FileInv

\* Where an element of two lists in a row comes from.
LEMMA ConcatIndex ==
    ASSUME NEW X, NEW b \in Seq(X), NEW e \in Seq(X), NEW i \in 1..Len(b) + Len(e)
    PROVE  (b \o e)[i] = IF i =< Len(b) THEN b[i] ELSE e[i - Len(b)]
  OBVIOUS

\* An element behind the one that is left out.
LEMMA ShiftIndex ==
    ASSUME NEW m \in Nat, NEW n \in 1..m, NEW i \in 1..m - 1, ~(i < n)
    PROVE  /\ i - (n - 1) \in 1..m - n /\ i \in 1..(n - 1) + (m - n) /\ ~(i =< n - 1)
           /\ n + (i - (n - 1)) = i + 1
  OBVIOUS

\* The concatenation of two lists.
LEMMA ConcatTyped ==
    \A X, b, e : b \in Seq(X) /\ e \in Seq(X) =>
        b \o e \in Seq(X) /\ Len(b \o e) = Len(b) + Len(e) /\ DOMAIN (b \o e) = 1..Len(b \o e)
  OBVIOUS

\* A list without one element.
LEMMA WithoutOneElement ==
    ASSUME NEW s, IsSeq(s), NEW n \in DOMAIN s, NEW u,
           u = SubSeq(s, 1, n - 1) \o SubSeq(s, n + 1, Len(s))
    PROVE  /\ IsSeq(u) /\ Len(u) = Len(s) - 1 /\ Len(s) \in Nat /\ n \in 1..Len(s)
           /\ DOMAIN u = 1..Len(u) /\ DOMAIN s = 1..Len(s)
           /\ \A i \in 1..Len(u) : u[i] = IF i < n THEN s[i] ELSE s[i + 1]
  <1>1. PICK X : s \in Seq(X)
    BY DEF IsSeq
  <1>2. Len(s) \in Nat /\ n \in 1..Len(s) /\ DOMAIN s = 1..Len(s)
    BY <1>1
  <1>8. PICK b : b = SubSeq(s, 1, n - 1)
    OBVIOUS
  <1>9. PICK e : e = SubSeq(s, n + 1, Len(s))
    OBVIOUS
  <1>3. b \in Seq(X) /\ Len(b) = n - 1 /\ \A i \in 1..n - 1 : b[i] = s[i]
    BY <1>1, <1>2, <1>8
  <1>4. e \in Seq(X) /\ Len(e) = Len(s) - n /\ \A i \in 1..Len(s) - n : e[i] = s[n + i]
    BY <1>1, <1>2, <1>9
  <1>5. u = b \o e
    BY <1>8, <1>9
  <1>6. u \in Seq(X) /\ Len(u) = Len(s) - 1 /\ DOMAIN u = 1..Len(u)
    <2>1. u \in Seq(X) /\ Len(u) = Len(b) + Len(e) /\ DOMAIN u = 1..Len(u)
      <3>1. b \in Seq(X) /\ e \in Seq(X)
        BY <1>3, <1>4
      <3>2. LET v == b \o e IN v \in Seq(X) /\ Len(v) = Len(b) + Len(e) /\ DOMAIN v = 1..Len(v)
        BY <3>1, ZenonT(20), ConcatTyped
      <3>. QED
        BY <1>5, <3>2, ZenonT(20)
    <2>2. (n - 1) + (Len(s) - n) = Len(s) - 1
      BY <1>2
    <2>. QED
      BY <1>3, <1>4, <2>1, <2>2
  <1>7. ASSUME NEW i \in 1..Len(u)
        PROVE  u[i] = IF i < n THEN s[i] ELSE s[i + 1]
    <2>1. CASE i < n
      <3>1. i \in 1..Len(b) /\ i \in 1..n - 1
        BY <1>2, <1>3, <2>1
      <3>2. u[i] = b[i]
        BY <1>3, <1>4, <1>5, <3>1
      <3>. QED
        BY <1>3, <2>1, <3>1, <3>2
    <2>2. CASE ~(i < n)
      <3>1. i \in 1..Len(s) - 1
        BY <1>6
      <3>2. i - (n - 1) \in 1..Len(s) - n /\ i \in 1..(n - 1) + (Len(s) - n) /\ ~(i =< n - 1)
            /\ n + (i - (n - 1)) = i + 1
        BY <1>2, <2>2, <3>1, ShiftIndex
      <3>3. u[i] = e[i - Len(b)]
        <4>1. i \in 1..Len(b) + Len(e) /\ ~(i =< Len(b))
          BY <1>3, <1>4, <3>2
        <4>2. (b \o e)[i] = IF i =< Len(b) THEN b[i] ELSE e[i - Len(b)]
          BY <1>3, <1>4, <4>1, ConcatIndex
        <4>. QED
          BY <1>5, <4>1, <4>2
      <3>4. u[i] = s[i + 1]
        BY <1>3, <1>4, <3>2, <3>3
      <3>. QED
        BY <2>2, <3>4
    <2>. QED
      BY <2>1, <2>2
  <1>. QED
    BY <1>2, <1>6, <1>7 DEF IsSeq

\* A file that loses a line keeps what is known of the others; it has a gap unless
\* the line was the last.
LEMMA LossKeeps ==
    ASSUME FileInv, NEW n \in DOMAIN records, LoseRecord(n)
    PROVE  FileInv'
  <1>. PICK old : old = records
    OBVIOUS
  <1>. PICK new : new = records'
    OBVIOUS
  <1>1. verdict = "published" /\ Len(old) = LastCut /\ UNCHANGED <<arm, forced, carried, verdict>>
        /\ new = SubSeq(old, 1, n - 1) \o SubSeq(old, n + 1, Len(old))
    BY DEF LoseRecord
  <1>2. /\ IsSeq(new) /\ Len(new) = Len(old) - 1 /\ Len(old) \in Nat /\ n \in 1..Len(old)
        /\ DOMAIN new = 1..Len(new) /\ DOMAIN old = 1..Len(old)
        /\ \A i \in 1..Len(new) : new[i] = IF i < n THEN old[i] ELSE old[i + 1]
    BY ZenonT(60), <1>1, WithoutOneElement DEF FileInv
  <1>3. \A i \in DOMAIN new : Asked(new[i])
    <2>1. \A i \in DOMAIN new : \E j \in DOMAIN old : new[i] = old[j]
      <3>. TAKE i \in DOMAIN new
      <3>1. i \in DOMAIN old /\ i + 1 \in DOMAIN old
        BY <1>2
      <3>. QED
        BY <1>2, <3>1
    <2>. QED
      BY <2>1 DEF FileInv
  <1>4. Len(new) # LastCut
    BY <1>1, <1>2
  <1>5. PICK S : Follows(S, old)
    BY <1>1 DEF FileInv
  <1>6. InOrder(old)
    BY <1>1 DEF FileInv
  <1>7. ASSUME InOrder(new) PROVE Follows(S, new)
    <2>1. n = Len(old)
      <3>1. SUFFICES ASSUME n < Len(old) PROVE FALSE
        BY <1>2
      <3>2. n \in DOMAIN new /\ n + 1 \in DOMAIN old /\ new[n] = old[n + 1] /\ n + 1 # n
        BY <1>2, <3>1
      <3>. QED
        BY <1>6, <1>7, <3>2 DEF InOrder
    <2>2. \A i \in 1..Len(new) : i \in 1..Len(old) /\ new[i] = old[i]
      BY <1>2, <2>1
    <2>. QED
      BY <1>5, <2>2 DEF Follows
  <1>8. \A i \in DOMAIN new : Asked(new[i])'
    BY <1>1, <1>3, WalkStays
  <1>9. InOrder(new) => Follows(S, new)'
    BY <1>1, <1>7, WalkStays
  <1>10. TurnedAwayExactly'
    BY <1>1 DEF TurnedAwayExactly
  <1>. QED
    BY <1>1, <1>2, <1>4, <1>8, <1>9, <1>10 DEF FileInv, InOrder

\* What the runner asks about is a run.
LEMMA PriorRuns ==
    ASSUME NEW k \in 1..LastCut, NEW s, IsSeq(s.events)
    PROVE  /\ IsSeq(PriorAt(k, s).events)
           /\ arm = "structured-extraction" => PriorAt(k, s).events = SetupEvents
  <1>1. IsSeq(SetupEvents)
    BY InterfaceConstants, ListIsSeq
  <1>2. IsSeq(GoldPrior(k).events)
    BY GoldRuns, ListIsSeq
  <1>. QED
    BY <1>1, <1>2 DEF PriorAt

\* What is asked is noted with the cut and the state it was asked with.
LEMMA AskNotes ==
    ASSUME NEW k, NEW p, NEW a \in InterfaceAnswers
    PROVE  Ask(k, p, a).cut = k /\ Ask(k, p, a).prior = p
  <1>. PICK r : r = Ask(k, p, a)
    OBVIOUS
  <1>0. InterfaceAnswer(a)
    BY InterfaceConstants
  <1>1. CASE a.kind = "process"
    <2>1. r = Row(k, p, Null, "adapter", a.code, FALSE, Null, Null, Null, NoRun, Null, Null)
      BY <1>1, AskPlain
    <2>. QED
      BY <2>1 DEF Row
  <1>2. CASE a.kind # "process" /\ ~ResponseValid(a)
    <2>1. r = Row(k, p, a, "protocol", "response.invalid", FALSE, Null, Null, Null, NoRun, Null, Null)
      BY <1>2, AskPlain
    <2>. QED
      BY <2>1 DEF Row
  <1>3. CASE a.kind = "error"
    <2>1. r = Row(k, p, a, "adapter", a.code, FALSE, Null, Null, Null, NoRun, Null, Bounded(a.message))
      BY <1>3, AskPlain
    <2>. QED
      BY <2>1 DEF Row
  <1>4. CASE a.kind = "answer" /\ ResponseValid(a)
    <2>1. r = Row(k, p, a, Null, Null, TRUE, Null, Null, Null, Null, Null, Null)
      BY <1>4, AskPlain
    <2>. QED
      BY <2>1 DEF Row
  <1>5. CASE a.kind = "memory" /\ ResponseValid(a) /\ a.fits
    <2>1. r = Row(k, p, a, Null, Null, TRUE, a.memory, Null, Null, Null, Null, Null)
      BY <1>5, AskPlain
    <2>. QED
      BY <2>1 DEF Row
  <1>6. CASE a.kind = "memory" /\ ResponseValid(a) /\ ~a.fits
    <2>1. r = Row(k, p, a, "memory", "memory.over-budget", TRUE, a.memory, Null, Null, Null, Null,
                  Null)
      BY <1>6, AskPlain
    <2>. QED
      BY <2>1 DEF Row
  <1>7. CASE a.kind = "delta" /\ ResponseValid(a)
    <2>1. PICK stage, code, answered, admitted, size :
              r = Row(k, p, a, stage, code, answered, Null, a.delta, a.query, admitted, size, Null)
      BY ZenonT(60), <1>7, AskDelta
    <2>. QED
      BY <2>1 DEF Row
  <1>. QED
    BY <1>1, <1>2, <1>3, <1>4, <1>5, <1>6, <1>7 DEF ResponseValid

\* A file with one record more, made from where the runner is.
LEMMA ResultKeeps ==
    ASSUME FileInv, NEW a \in InterfaceAnswers, RecordResult(a), ~RunEnds(a)
    PROVE  FileInv'
  <1>. PICK old : old = records
    OBVIOUS
  <1>. PICK N : N = Len(old)
    OBVIOUS
  <1>. PICK r : r = Ask(N + 1, PriorAt(N + 1, carried), a)
    OBVIOUS
  <1>. PICK new : new = records'
    OBVIOUS
  <1>1. /\ verdict = "running" /\ N + 1 =< LastCut /\ new = Append(old, r)
        /\ carried' = IF forced THEN carried ELSE Carries(carried, r)
        /\ UNCHANGED <<arm, forced, verdict>>
    BY DEF RecordResult, NextCutIndex
  <1>2. /\ IsSeq(new) /\ Len(new) = N + 1 /\ N \in Nat /\ DOMAIN old = 1..N
        /\ DOMAIN new = 1..N + 1 /\ new[N + 1] = r /\ \A i \in 1..N : new[i] = old[i]
    <2>1. PICK X : old \in Seq(X)
      BY DEF FileInv, IsSeq
    <2>2. new \in Seq(X \cup {r}) /\ Len(new) = N + 1 /\ N \in Nat /\ DOMAIN old = 1..N
          /\ DOMAIN new = 1..N + 1 /\ new[N + 1] = r /\ \A i \in 1..N : new[i] = old[i]
      BY <1>1, <2>1
    <2>. QED
      BY <2>2 DEF IsSeq
  <1>3. N + 1 \in 1..LastCut
    <2>1. LastCut \in Nat
      BY InterfaceConstants DEF LastCut, IsList
    <2>. QED
      BY <1>1, <1>2, <2>1
  <1>4. IsSeq(carried.events)
    BY DEF FileInv
  <1>5. r.cut = N + 1 /\ r.prior = PriorAt(N + 1, carried)
    BY AskNotes
  <1>6. Asked(r)
    <2>1. /\ IsSeq(r.prior.events)
          /\ arm = "structured-extraction" => r.prior.events = SetupEvents
      BY <1>3, <1>4, <1>5, PriorRuns
    <2>2. r = Ask(r.cut, r.prior, a)
      BY <1>5
    <2>. QED
      BY <1>3, <1>5, <2>1, <2>2 DEF Asked
  <1>7. IsSeq(carried'.events)
    <2>1. CASE r.admitted = TRUE
      <3>1. IsSeq(EventsOf(r.delta))
        BY <1>6, <2>1, AskedHolds, EventsListed
      <3>2. IsSeq(carried.events \o EventsOf(r.delta))
        BY <1>4, <3>1, IsSeqConcat
      <3>. QED
        BY <1>1, <1>4, <3>2 DEF Carries
    <2>2. CASE r.admitted # TRUE
      BY <1>1, <1>4, <2>2 DEF Carries
    <2>. QED
      BY <2>1, <2>2
  <1>8. InOrder(old)
    BY <1>1 DEF FileInv
  <1>9. InOrder(new)
    <2>. SUFFICES ASSUME NEW i \in 1..N + 1 PROVE new[i].cut = i
      BY <1>2 DEF InOrder
    <2>1. CASE i = N + 1
      BY <1>2, <1>5, <2>1
    <2>2. CASE i # N + 1
      <3>1. i \in 1..N
        BY <1>2, <2>2
      <3>. QED
        BY <1>2, <1>8, <3>1 DEF InOrder
    <2>. QED
      BY <2>1, <2>2
  <1>10. \A i \in DOMAIN new : Asked(new[i])
    <2>. SUFFICES ASSUME NEW i \in 1..N + 1 PROVE Asked(new[i])
      BY <1>2
    <2>1. CASE i = N + 1
      BY <1>2, <1>6, <2>1
    <2>2. CASE i # N + 1
      <3>1. i \in DOMAIN old
        BY <1>2, <2>2
      <3>. QED
        BY <1>2, <3>1 DEF FileInv
    <2>. QED
      BY <2>1, <2>2
  <1>11. \E T : Follows(T, new) /\ (~forced => carried' = T[N + 1])
    <2>1. PICK S : Follows(S, old) /\ (~forced => carried = S[N])
      BY <1>1, <1>8 DEF FileInv
    <2>2. PICK T : T = [i \in 0..N + 1 |-> IF i = N + 1 THEN Carries(S[N], r) ELSE S[i]]
      OBVIOUS
    <2>3. T[N + 1] = Carries(S[N], r) /\ \A i \in 0..N : T[i] = S[i]
      BY <1>2, <2>2
    <2>4. r.prior = PriorAt(N + 1, S[N])
      BY <1>5, <2>1 DEF PriorAt
    <2>5. ASSUME NEW i \in 1..Len(new)
          PROVE  T[i] = Carries(T[i - 1], new[i]) /\ new[i].prior = PriorAt(i, T[i - 1])
      <3>1. CASE i = N + 1
        <4>1. T[i] = Carries(S[N], r) /\ T[i - 1] = S[N] /\ new[i] = r
          BY <1>2, <2>3, <3>1
        <4>. QED
          BY <2>4, <3>1, <4>1
      <3>2. CASE i # N + 1
        <4>1. i \in 1..N /\ i \in 0..N /\ i - 1 \in 0..N
          BY <1>2, <3>2
        <4>2. T[i] = S[i] /\ T[i - 1] = S[i - 1] /\ new[i] = old[i]
          BY <1>2, <2>3, <4>1
        <4>. QED
          BY <2>1, <4>1, <4>2 DEF Follows
      <3>. QED
        BY <3>1, <3>2
    <2>6. T[0] = Start
      BY <1>2, <2>1, <2>3 DEF Follows
    <2>7. ~forced => carried' = T[N + 1]
      BY <1>1, <2>1, <2>3
    <2>. QED
      BY <2>5, <2>6, <2>7 DEF Follows
  <1>12. \A i \in DOMAIN new : Asked(new[i])'
    BY <1>1, <1>10, WalkStays
  <1>13. \E T : Follows(T, new)' /\ (~forced => carried' = T[N + 1])
    BY <1>1, <1>11, WalkStays
  <1>14. TurnedAwayExactly'
    BY <1>1 DEF TurnedAwayExactly
  <1>. QED
    BY <1>1, <1>2, <1>7, <1>9, <1>12, <1>13, <1>14 DEF FileInv, InOrder

\* What the scorer cannot reproduce of a published file is what it may turn away.
LEMMA ScoredExactly ==
    ASSUME FileInv, records # <<>>
    PROVE  (\E n \in DOMAIN records : ~RecordHolds(records[n])) <=> Reasons
  <1>0. Len(records) \in Nat /\ DOMAIN records = 1..Len(records) /\ 1 \in DOMAIN records
    <2>1. PICK X : records \in Seq(X)
      BY DEF FileInv, IsSeq
    <2>2. Len(records) \in Nat /\ DOMAIN records = 1..Len(records) /\ Len(records) # 0
      BY <2>1
    <2>. QED
      BY <2>2
  <1>1. \A n \in DOMAIN records :
            /\ Asked(records[n])
            /\ ResultValid(records[n]) <=> ~ReservedCode(records[n])
            /\ RawResponseHolds(records[n]) <=> ~AlteredRecord(records[n])
            /\ HasRun => Reproduces(records[n], records[n].prior.events)
    BY AskedHolds DEF FileInv
  <1>2. Gap <=> ~InOrder(records)
    BY DEF Gap, InOrder
  <1>3. CASE arm = "direct"
    <2>1. \A n \in DOMAIN records : ContinuityHolds(records[n])
      BY <1>3 DEF ContinuityHolds
    <2>2. ~HasRun
      BY <1>3 DEF HasRun
    <2>. QED
      BY <1>1, <1>3, <2>1, <2>2 DEF RecordHolds, Reasons
  <1>4. CASE arm = "structured-extraction"
    <2>1. HasRun
      BY <1>4 DEF HasRun
    <2>2. \A n \in DOMAIN records :
              ContinuityHolds(records[n]) <=>
                  CutsInferred(records[n]) /\ Compared(records[n], records[n].prior.events)
      BY <1>1, <1>4, <2>1 DEF ContinuityHolds, Asked
    <2>. QED
      BY <1>1, <1>4, <2>1, <2>2 DEF RecordHolds, Reasons
  <1>5. CASE arm \in {"timeline", "narrative-memory"} /\ Gap
    <2>1. ~ContinuityHolds(records[1])
      BY <1>5 DEF ContinuityHolds
    <2>. QED
      BY <1>0, <1>5, <2>1 DEF RecordHolds, Reasons
  <1>6. CASE arm \in {"timeline", "narrative-memory"} /\ ~Gap
    <2>1. PICK S : Follows(S, records)
      BY <1>2, <1>6 DEF FileInv
    <2>2. ASSUME NEW n \in DOMAIN records
          PROVE  ContinuityHolds(records[n]) <=>
                     (HasRun => Compared(records[n], records[n].prior.events))
      <3>1. records[n].cut = n
        BY <1>2, <1>6 DEF InOrder
      <3>2. Replayed(n) = S[n - 1]
        BY <1>0, <1>2, <1>6, <2>1, ReplayFollows DEF InOrder
      <3>3. records[n].prior = PriorAt(n, Replayed(n))
        BY <1>0, <2>1, <3>2 DEF Follows
      <3>4. CASE arm = "narrative-memory"
        <4>1. PriorAt(n, Replayed(n)) = Replayed(n)
          BY <3>4 DEF PriorAt, FileInv
        <4>2. ~HasRun
          BY <3>4 DEF HasRun
        <4>. QED
          BY <1>6, <3>1, <3>3, <3>4, <4>1, <4>2 DEF ContinuityHolds
      <3>5. CASE arm = "timeline"
        BY <1>1, <1>6, <3>1, <3>3, <3>5 DEF ContinuityHolds, HasRun
      <3>. QED
        BY <1>6, <3>4, <3>5
    <2>. QED
      BY <1>1, <1>6, <2>2 DEF RecordHolds, Reasons
  <1>. QED
    BY <1>3, <1>4, <1>5, <1>6 DEF FileInv

\* Every step keeps the invariant.
LEMMA FileInvKept == FileInv /\ [InterfaceNext]_interfaceVars => FileInv'
  <1>. SUFFICES ASSUME FileInv, [InterfaceNext]_interfaceVars PROVE FileInv'
    OBVIOUS
  <1>0. ASSUME UNCHANGED <<arm, forced, carried, records>>,
               verdict' = verdict \/ verdict' # "running", TurnedAwayExactly'
        PROVE  FileInv'
    <2>. PICK list : list = records
      OBVIOUS
    <2>1. list = records' /\ UNCHANGED <<arm, forced>>
      BY <1>0
    <2>2. \A n \in DOMAIN list : Asked(list[n])'
      BY <2>1, WalkStays DEF FileInv
    <2>3. InOrder(list) => \E S : Follows(S, list)' /\ (verdict = "running" /\ ~forced =>
                                                           carried = S[Len(list)])
      BY <2>1, WalkStays DEF FileInv
    <2>. QED
      BY <1>0, <2>1, <2>2, <2>3 DEF FileInv, InOrder
  <1>1. CASE UNCHANGED interfaceVars
    <2>1. TurnedAwayExactly'
      BY <1>1 DEF FileInv, TurnedAwayExactly, interfaceVars, CutsInferred, Gap, ReservedCode, HasRun,
                  AlteredRecord, Compared, HasSignature, EvidenceFor
    <2>. QED
      BY <1>0, <1>1, <2>1 DEF interfaceVars
  <1>2. ASSUME NEW a \in InterfaceAnswers, RecordResult(a) PROVE FileInv'
    <2>1. CASE ~RunEnds(a)
      BY <1>2, <2>1, ResultKeeps
    <2>2. CASE RunEnds(a)
      <3>1. records' = <<>> /\ verdict' = "aborted" /\ UNCHANGED <<arm, forced, carried>>
        BY <1>2, <2>2 DEF RecordResult
      <3>2. IsSeq(records') /\ DOMAIN records' = {}
        <4>1. records' \in Seq({}) /\ DOMAIN records' = {}
          BY <3>1
        <4>. QED
          BY <4>1 DEF IsSeq
      <3>. PICK S : Follows(S, <<>>)
        BY FollowsNothing
      <3>. PICK new : new = records'
        OBVIOUS
      <3>3. Follows(S, new)' /\ new = records' /\ verdict' # "running" /\ new = <<>>
        BY <3>1, WalkStays
      <3>4. TurnedAwayExactly'
        BY <3>1 DEF TurnedAwayExactly
      <3>. QED
        BY <3>1, <3>2, <3>3, <3>4 DEF FileInv, InOrder
    <2>. QED
      BY <2>1, <2>2
  <1>3. CASE PublishRecords
    <2>1. TurnedAwayExactly'
      BY <1>3 DEF PublishRecords, TurnedAwayExactly
    <2>. QED
      BY <1>0, <1>3, <2>1 DEF PublishRecords
  <1>4. ASSUME NEW n \in DOMAIN records, LoseRecord(n) PROVE FileInv'
    BY <1>4, LossKeeps
  <1>5. CASE ScoreRecords
    <2>1. /\ records # <<>> /\ UNCHANGED <<arm, forced, carried, records>>
          /\ verdict' = IF \A n \in DOMAIN records : RecordHolds(records[n])
                        THEN "scored" ELSE "refused"
      BY <1>5 DEF ScoreRecords
    <2>2. verdict' = "refused" <=> Reasons
      BY <2>1, ScoredExactly
    <2>3. Reasons' <=> Reasons
      BY <2>1 DEF Reasons, CutsInferred, Gap, ReservedCode, HasRun, AlteredRecord, Compared, HasSignature,
               EvidenceFor
    <2>4. TurnedAwayExactly'
      BY <2>2, <2>3 DEF TurnedAwayExactly, Reasons
    <2>5. verdict' # "running"
      BY <2>1
    <2>. QED
      BY <1>0, <2>1, <2>4, <2>5
  <1>. QED
    BY <1>1, <1>2, <1>3, <1>4, <1>5 DEF InterfaceNext

\* The scorer turns a file of the interface benchmark away exactly when structured
\* extraction declared something before any evidence that is yet to come, when an arm that
\* carries state has a gap before a later cut, when an adapter reported a reserved code or a
\* message that is not kept, or when a query of the signature of an admitted run, or of the
\* run it is compared with, is refused or overflows; everything else that
\* run-model-interface-eval.mjs writes, score-model-interface-eval.mjs reproduces.
THEOREM ExactlyTheseTurnedAway == InterfaceSpec => []TurnedAwayExactly
  <1>1. FileInv => TurnedAwayExactly
    BY DEF FileInv
  <1>. QED
    BY FileInvStarts, FileInvKept, <1>1, PTL DEF InterfaceSpec

=============================================================================
