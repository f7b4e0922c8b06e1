--------------------------- MODULE ModelProposal ---------------------------
(***************************************************************************)
(* Proposals of a model: v0alpha3/model-proposal.ts.                       *)
(*                                                                         *)
(* A host offers a model a run and catalogs of what it may refer to.       *)
(* createTemporalModelProposalOutputSchemaV1 turns them into a JSON schema *)
(* for the provider; compileTemporalModelProposalV1 turns what comes back  *)
(* into candidate events and a query, or refuses it.                       *)
(*                                                                         *)
(* A handle is what it stands for, or stands for nothing when the catalog  *)
(* does not hold it.  A content identifier is the content: an assertion of *)
(* equal body has an equal identifier.  A quote is known by how often it   *)
(* occurs in the text of its evidence.                                     *)
(***************************************************************************)
EXTENDS Projection, FiniteSets, SequencesExt

CONSTANTS
    Evidence,       \* identifiers of evidence, in a catalog or not
    Quotes,         \* quotes a model may give
    Occurrences,    \* Occurrences[e][q]: how often q occurs in the text of e
    MaxChanges,     \* the limits of a caller's options: changes of a proposal,
    MaxSupports,    \* and supports of a change
    ChangesCap,     \* what a schema allows at most: changes,
    SupportsCap     \* and supports of a change

ASSUME ProposalConstants ==
    /\ \A e \in Evidence, q \in Quotes : Occurrences[e][q] \in Nat
    /\ {MaxChanges, MaxSupports, ChangesCap, SupportsCap} \subseteq Nat \ {0}

QueryTypes == {"context", "difference", "point-relation", "interval-relation"}

----------------------------------------------------------------------------
(* The host's side                                                         *)

PointWith(run, id) == {p \in Points(run) : p.id = id}

\* collectDeclarations: an interval is on the axis of its start.
IntervalWith(run, id) ==
    UNION {{[context |-> i.context, axis |-> p.axis] : p \in PointWith(run, i.start)} :
               i \in {j \in Intervals(run) : j.id = id}}

\* What a reference is about: declared, in a context and on an axis.
Ends(run, ref, id) ==
    IF ref.type = "interval-relation" THEN IntervalWith(run, id) ELSE PointWith(run, id)

\* validateModelProposalOutputReferences
ReferenceFits(run, ref) ==
    CASE ref.type = "context" -> ref.left \in Contexts
      [] ref.type = "point" -> PointWith(run, ref.left) # {}
      [] OTHER -> \E l \in Ends(run, ref, ref.left), r \in Ends(run, ref, ref.right) :
                      l.context = r.context /\ l.axis = r.axis

\* parseCutCatalog
CutsParse(h) == h.cuts \subseteq 0..Len(h.run)

\* createTemporalModelProposalOutputSchemaV1 returns a schema.
SchemaIssued(h) ==
    /\ CutsParse(h)
    /\ \A ref \in h.references : ReferenceFits(h.run, ref)
    /\ \E ref \in h.references : ref.type \in QueryTypes

ActiveIds(run) == {a.id : a \in Active(run)}

\* collectModelProposalOutputScope: the assertions a change may name.
ActiveHandles(h) == {a \in Active(h.run) : a.id \in h.assertions}

\* Mutation of MatchesTarget: any assertion of the kind and context matches.
MatchesTargetContext(run, a, ref) ==
    /\ a.type = IF ref.type = "point" THEN "coordinate" ELSE "constraint"
    /\ \E p \in PointWith(run, ref.left) : a.context = p.context

\* modelProposalAssertionMatchesTarget
MatchesTarget(run, a, ref) ==
    \/ /\ ref.type = "point" /\ a.type = "coordinate"
       /\ \E p \in PointWith(run, ref.left) : a.context = p.context
       /\ a.point = ref.left
    \/ /\ ref.type = "difference" /\ a.type = "constraint"
       /\ \E p \in PointWith(run, ref.left) : a.context = p.context
       /\ a.from = ref.left /\ a.to = ref.right

\* TEMPORAL_MODEL_PROPOSAL_OUTPUT_SCHEMA_CAPS_V1: a schema is issued for no more
\* than its caps, which are below the default limits of the compiler.
SchemaMaxChanges == IF MaxChanges < ChangesCap THEN MaxChanges ELSE ChangesCap
SchemaMaxSupports == IF MaxSupports < SupportsCap THEN MaxSupports ELSE SupportsCap

TargetType(change) == IF change.type = "coordinate" THEN "point" ELSE "difference"

\* modelProposalChangeSchemas: one variant for the targets that the same
\* assertions match, and one for retractions.
ChangeInSchema(h, change) ==
    /\ Len(change.supports) \in 1..SchemaMaxSupports
    /\ \A s \in ToSet(change.supports) : s.evidence \in h.current
    /\ IF change.type = "retraction"
       THEN \E a \in ActiveHandles(h) : a.id = change.assertion
       ELSE /\ change.target \in h.references
            /\ change.target.type = TargetType(change)
            /\ \/ change.assertion = Null
               \/ \E a \in ActiveHandles(h) :
                      a.id = change.assertion /\ MatchesTarget(h.run, a, change.target)

\* modelProposalQuerySchemas, modelProposalKnowledgeCutSchema
QueryInSchema(h, query) ==
    /\ query.target \in h.references /\ query.target.type = query.type
    /\ query.cut = Null \/ query.cut \in h.cuts

InSchema(h, proposal) ==
    /\ Len(proposal.changes) =< SchemaMaxChanges
    /\ \A i \in DOMAIN proposal.changes : ChangeInSchema(h, proposal.changes[i])
    /\ QueryInSchema(h, proposal.query)

----------------------------------------------------------------------------
(* The compiler                                                            *)

\* validateSupports: a list in which no support is repeated.
Repeats(supports) ==
    \E i, j \in DOMAIN supports : i # j /\ supports[i] = supports[j]

\* validateChange: the shape of a change.
WellFormed(change) ==
    /\ Len(change.supports) \in 1..MaxSupports /\ ~Repeats(change.supports)
    /\ change.type # "retraction" => ValidBounds(change.bounds)

\* resolveSupports: current evidence, and a quote that occurs exactly once.
Supported(h, change) ==
    \A s \in ToSet(change.supports) :
        s.evidence \in h.current /\ Occurrences[s.evidence][s.quote] = 1

\* resolveAssertion: no more than one.
ResolvedAssertions(h, id) ==
    IF id \in h.assertions THEN {a \in Active(h.run) : a.id = id} ELSE {}

\* Mutation of RevisionFits: the orientation of a constraint is not compared.
RevisionFitsEitherWay(a, c, change) ==
    /\ a.context = c /\ a.type = change.type
    /\ IF change.type = "coordinate" THEN a.point = change.target.left
       ELSE {a.from, a.to} = {change.target.left, change.target.right}

\* resolveRevision
RevisionFits(a, c, change) ==
    /\ a.context = c /\ a.type = change.type
    /\ IF change.type = "coordinate" THEN a.point = change.target.left
       ELSE a.from = change.target.left /\ a.to = change.target.right

\* The context of a change is that of its target's first point.
ContextOf(h, change) == (CHOOSE p \in PointWith(h.run, change.target.left) : TRUE).context

\* resolveReference: the catalog holds it, as one of this type.
ReferenceResolves(h, ref, type) == ref \in h.references /\ ref.type = type

Resolved(h, change) ==
    /\ Supported(h, change)
    /\ IF change.type = "retraction" THEN ResolvedAssertions(h, change.assertion) # {}
       ELSE /\ ReferenceResolves(h, change.target, TargetType(change))
            /\ PointWith(h.run, change.target.left) # {}
            /\ \/ change.assertion = Null
               \/ \E a \in ResolvedAssertions(h, change.assertion) :
                      RevisionFits(a, ContextOf(h, change), change)

\* The candidate event of a change; its evidence is part of its identity only.
EventOf(h, change) ==
    LET c == ContextOf(h, change)
        target == change.target
        refs == {s.evidence : s \in ToSet(change.supports)}
        revised == IF change.assertion = Null THEN {} ELSE {change.assertion}
        id == <<change.type, c, target.left, target.right, change.bounds.minimum,
                change.bounds.maximum, refs, revised>>
    IN CASE change.type = "retraction" ->
              [type |-> "retraction", assertion |-> change.assertion]
         [] change.type = "coordinate" ->
              [type |-> "coordinate", id |-> id, context |-> c, point |-> target.left,
               bounds |-> change.bounds, supersedes |-> revised]
         [] change.type = "constraint" ->
              [type |-> "constraint", id |-> id, context |-> c, from |-> target.left,
               to |-> target.right, bounds |-> change.bounds, supersedes |-> revised]

\* Mutation of Reserved: two changes may revise one assertion.
ReservedPlans(h, changes) ==
    \A i, j \in DOMAIN changes : i # j => EventOf(h, changes[i]) # EventOf(h, changes[j])

\* reserveChange, reserveRevision: no change twice and no assertion twice.
Reserved(h, changes) ==
    \A i, j \in DOMAIN changes : i # j =>
        /\ EventOf(h, changes[i]) # EventOf(h, changes[j])
        /\ changes[i].assertion # Null => changes[i].assertion # changes[j].assertion

\* The events in the order of their digests: an order that depends on the events
\* alone.
CandidateEvents(h, proposal) ==
    SetToSeq({EventOf(h, proposal.changes[i]) : i \in DOMAIN proposal.changes})

\* validateRunDocumentV0Alpha3, for an event after a run.
EventFits(run, e) ==
    CASE e.type = "retraction" -> \E a \in Assertions(run) : a.id = e.assertion
      [] e.type = "coordinate" ->
            /\ e.id \notin TemporalIds(run)
            /\ PointIn(run, e.point, e.context)
            /\ ValidBounds(e.bounds)
            /\ MaySupersede(run, "coordinate", e.context, e.supersedes)
            /\ \A a \in Assertions(run) : a.id \in e.supersedes => a.point = e.point
      [] e.type = "constraint" ->
            /\ e.id \notin TemporalIds(run)
            /\ PointIn(run, e.from, e.context) /\ PointIn(run, e.to, e.context)
            /\ SameAxis(run, e.from, e.to)
            /\ ValidBounds(e.bounds)
            /\ MaySupersede(run, "constraint", e.context, e.supersedes)

\* parseCandidateRun
RunFits(base, run) ==
    /\ Len(run) =< MaxEvents
    /\ \A i \in Len(base) + 1..Len(run) : EventFits(SubSeq(run, 1, i - 1), run[i])

\* validateQueryV0Alpha3: both ends are declared at the cut, in one context and on
\* one axis.
QueryFits(run, target, cut) ==
    \/ target.type = "context" /\ target.left \in Contexts
    \/ /\ target.type # "context"
       /\ LET known == SubSeq(run, 1, cut)
          IN \E l \in Ends(known, target, target.left), r \in Ends(known, target, target.right) :
                 l.context = r.context /\ l.axis = r.axis

\* compileQuery: a prior cut must be earlier than the candidate's.
QueryCompiles(h, query, run) ==
    /\ query.cut # Null => query.cut \in h.cuts /\ query.cut < Len(run) /\ h.run # <<>>
    /\ ReferenceResolves(h, query.target, query.type)
    /\ QueryFits(run, query.target, IF query.cut = Null THEN Len(run) ELSE query.cut)

\* compileTemporalModelProposalV1 returns a candidate.
Compiles(h, proposal) ==
    /\ CutsParse(h)
    /\ Len(proposal.changes) =< MaxChanges
    /\ \A i \in DOMAIN proposal.changes :
           WellFormed(proposal.changes[i]) /\ Resolved(h, proposal.changes[i])
    /\ Reserved(h, proposal.changes)
    /\ LET run == h.run \o CandidateEvents(h, proposal)
       IN RunFits(h.run, run) /\ QueryCompiles(h, proposal.query, run)

=============================================================================
