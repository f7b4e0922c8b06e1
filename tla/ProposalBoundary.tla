-------------------------- MODULE ProposalBoundary --------------------------
(***************************************************************************)
(* The trajectory of one benchmark case, scripts/model-proposal-boundary   *)
(* .mjs: at every cut the model sees new evidence, the references of the   *)
(* case, and handles for the assertions and cuts so far; what it proposes  *)
(* must match the output schema and compile, and is then applied to the    *)
(* run that the next cut starts from.                                      *)
(***************************************************************************)
EXTENDS ModelProposal

CONSTANTS
    Setups,         \* runs a case may start from
    EvidenceAt,     \* EvidenceAt[k]: the evidence of cut k
    SupportLists,   \* what a model may give to support a change
    OddReferences   \* references no case has, but a host might offer

\* A list, as the functions of a run see it.
ListOf(run) == run \in Seq(Events(run))

\* What parseRunDocumentV0Alpha3 guarantees of the run a case starts from, as far as
\* it matters here: identifiers are unique, and an event takes back or replaces
\* assertions of the run.
Coherent(run) ==
    /\ ListOf(run)
    /\ \A x, y \in Events(run) \ Retractions(run) : x.id = y.id => x = y
    /\ Retracted(run) \cup Superseded(run) \subseteq Ids(Assertions(run))

ASSUME BoundaryConstants ==
    /\ Contexts # {} /\ Null \notin Contexts
    /\ \A run \in Setups : Coherent(run)
    /\ \A list \in SupportLists : list \in Seq([evidence : Evidence, quote : Quotes])

VARIABLES
    handles,        \* handles[n]: the assertion that handle n stands for
    cuts            \* cuts[k]: how many events the run had after cut k

boundaryVars == <<events, handles, cuts>>

MaxCuts == Len(EvidenceAt)

\* createBoundaryReferenceScope
Pairs(type, S) ==
    {[type |-> type, left |-> x.id, right |-> y.id] : x \in S, y \in S}

ReferenceScope(run) ==
    LET all == {[type |-> "context", left |-> c, right |-> Null] : c \in Contexts}
               \cup {[type |-> "point", left |-> p.id, right |-> Null] : p \in Points(run)}
               \cup Pairs("difference", Points(run)) \cup Pairs("point-relation", Points(run))
               \cup Pairs("interval-relation", Intervals(run))
    IN {ref \in all : ref.left # ref.right /\ ReferenceFits(run, ref)}

NewIds(list) == SelectSeq(list, LAMBDA e : e.type \in Kinds)
IdsOf(list) == [i \in DOMAIN NewIds(list) |-> NewIds(list)[i].id]

\* createBoundaryTrajectory
BoundaryInit ==
    /\ events \in Setups
    /\ handles = IdsOf(events)
    /\ cuts = <<>>

Trajectory == [events |-> events, handles |-> handles, cuts |-> cuts]

\* createBoundaryObservation
HostAt(t, current, references) ==
    [run |-> t.events, current |-> current, references |-> references,
     assertions |-> ToSet(t.handles), cuts |-> ToSet(t.cuts)]

\* The case is over after its last cut.
MoreCuts(t) == Len(t.cuts) < MaxCuts

ObservationAt(t) == HostAt(t, EvidenceAt[Len(t.cuts) + 1], ReferenceScope(t.events))

Observation == ObservationAt(Trajectory)

\* completeBoundaryCut
Completed(t) == [t EXCEPT !.cuts = Append(@, Len(t.events))]

\* stageCandidate
Staged(t, proposal) ==
    LET candidate == CandidateEvents(ObservationAt(t), proposal)
    IN [t EXCEPT !.events = @ \o candidate, !.handles = @ \o IdsOf(candidate)]

Becomes(t) == events' = t.events /\ handles' = t.handles /\ cuts' = t.cuts

\* completeBoundaryCut: after no answer, an answer that fails its schema or does
\* not compile, or one that makes the visible state too large.
CompleteCut == MoreCuts(Trajectory) /\ Becomes(Completed(Trajectory))

\* evaluateBoundaryProposal, when the answer is applied
Apply(proposal) ==
    /\ MoreCuts(Trajectory)
    /\ SchemaIssued(Observation)
    /\ InSchema(Observation, proposal) /\ Compiles(Observation, proposal)
    /\ Becomes(Completed(Staged(Trajectory, proposal)))

----------------------------------------------------------------------------
(* What a model may answer: changes of known and unknown targets, supports  *)
(* and assertions.                                                          *)

Targets(h) == ReferenceScope(h.run) \cup OddReferences

\* The assertions a change may name to take back, or to replace.
Named(h) == Ids(Assertions(h.run)) \cup {<<"unknown">>}

Revisions(h) == Named(h) \cup {Null}

Changes(h) ==
    [type : {"retraction"}, target : {Null}, bounds : {Null}, assertion : Named(h),
     supports : SupportLists]
    \cup {ch \in [type : {"coordinate", "constraint"}, target : Targets(h),
                  bounds : BoundChoices, assertion : Revisions(h),
                  supports : SupportLists] : ch.target.type \in {"point", "difference"}}

Queries(h) ==
    [type : QueryTypes, target : Targets(h), cut : 0..Len(h.run) \cup {Null}]

AnyQuery(h) == CHOOSE q \in Queries(h) : q.type = "context" /\ q.cut = Null /\ QueryInSchema(h, q)

Propose(changes, query) == [changes |-> changes, query |-> query]

\* Changes worth combining: those that pass alone.
Sound(h) == {ch \in Changes(h) : ChangeInSchema(h, ch) /\ WellFormed(ch) /\ Resolved(h, ch)}

BoundaryNext ==
    \/ CompleteCut
    \/ /\ MoreCuts(Trajectory)
       /\ LET h == Observation
              q == AnyQuery(h)
          IN \/ \E ch \in Sound(h) : Apply(Propose(<<ch>>, q))
             \/ \E ch1, ch2 \in Sound(h) : Apply(Propose(<<ch1, ch2>>, q))

BoundarySpec == BoundaryInit /\ [][BoundaryNext]_boundaryVars

----------------------------------------------------------------------------
(* Properties                                                               *)

\* The hosts a property is about: the observation of the next cut, and a host
\* that offers some odd references, too.
Hosts ==
    IF ~MoreCuts(Trajectory) THEN {}
    ELSE {Observation} \cup
         {HostAt(Trajectory, EvidenceAt[Len(cuts) + 1], ReferenceScope(events) \cup {ref}) :
              ref \in OddReferences}

\* The schema hides only size: every proposal that compiles is one the schema lets
\* the provider return, or has more supports than a schema allows for, although the
\* limits of the compiler are wider.  Two programs decide it, one when the request is
\* made and one when it is answered.
SchemaAdmitsCompiled ==
    \A h \in Hosts :
        SchemaIssued(h) =>
            /\ \A ch \in Changes(h) :
                   Compiles(h, Propose(<<ch>>, AnyQuery(h))) =>
                       IF Len(ch.supports) =< SupportsCap THEN ChangeInSchema(h, ch)
                       ELSE Len(ch.supports) =< MaxSupports /\ ~ChangeInSchema(h, ch)
            /\ \A q \in Queries(h) : Compiles(h, Propose(<<>>, q)) => QueryInSchema(h, q)

\* What the schema cannot say about a proposal, and only the compiler refuses:
\* empty ranges, a support that is repeated, quotes that do not occur once, an
\* assertion revised twice or stated twice, a cut that is not a prior one or at
\* which the target is not declared - and an assertion that the run already holds,
\* word for word, active or not.
Unsaid(h, proposal) ==
    \/ \E i \in DOMAIN proposal.changes :
           \/ Repeats(proposal.changes[i].supports)
           \/ ~Supported(h, proposal.changes[i])
           \/ /\ proposal.changes[i].type # "retraction"
              /\ ~ValidBounds(proposal.changes[i].bounds)
    \/ ~Reserved(h, proposal.changes)
    \/ \E i \in DOMAIN proposal.changes :
           /\ proposal.changes[i].type # "retraction"
           /\ EventOf(h, proposal.changes[i]).id \in TemporalIds(h.run)
    \/ Len(h.run) + Len(proposal.changes) > MaxEvents
    \/ /\ proposal.query.cut # Null
       /\ \/ proposal.query.cut >= Len(h.run) + Len(proposal.changes)
          \/ ~QueryFits(h.run, proposal.query.target, proposal.query.cut)

\* Otherwise what the schema lets a provider return compiles: a schema issued for
\* a host whose references fit its run never invites a proposal that is doomed.
SchemaCompiles ==
    \A h \in Hosts :
        SchemaIssued(h) =>
            /\ \A ch \in Changes(h) :
                   LET p == Propose(<<ch>>, AnyQuery(h))
                   IN ChangeInSchema(h, ch) => Compiles(h, p) \/ Unsaid(h, p)
            /\ \A q \in Queries(h) :
                   LET p == Propose(<<>>, q)
                   IN QueryInSchema(h, q) => Compiles(h, p) \/ Unsaid(h, p)

\* Every change counts, once: the active assertions of the run after a proposal
\* are those before without the ones it revises, each of which was active, and
\* with one more for each assertion it makes.
EveryChangeCounts ==
    [][events' # events =>
          LET new == SubSeq(events', Len(events) + 1, Len(events'))
              made == {e.id : e \in Assertions(new)}
              revised(e) == IF e.type = "retraction" THEN {e.assertion} ELSE e.supersedes
          IN /\ ActiveIds(events') =
                    (ActiveIds(events) \ UNION {revised(new[i]) : i \in DOMAIN new}) \cup made
             /\ \A i \in DOMAIN new : revised(new[i]) \subseteq ActiveIds(events)
             /\ \A i, j \in DOMAIN new : i # j => revised(new[i]) \cap revised(new[j]) = {}
       ]_boundaryVars

=============================================================================
