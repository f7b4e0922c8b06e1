---------------------------- MODULE TimelineRun ----------------------------
(***************************************************************************)
(* The values the MCP run store keeps: a portable run (contract and event  *)
(* stream), the admission records that cover its events, and the stored    *)
(* envelope that binds them; with the tests store.ts makes on them before  *)
(* it answers a call: digest binding, admission coverage, exact retry and  *)
(* admissibility of new events.                                            *)
(*                                                                         *)
(* A SHA-256 content digest is taken as collision free, so the digest of a *)
(* value is represented by the value itself.                               *)
(***************************************************************************)
EXTENDS Integers, SequencesExt

CONSTANTS
    Contracts,       \* contract documents a caller may submit for a run ID
    Drafts,          \* event drafts: records with an id and a body
    Proposals,       \* model proposals a host may submit
    CompiledEvents,  \* the candidate events each proposal compiles to
    Decisions,       \* admission decisions: authority, policy ref and digest
    Writers,         \* software profiles that write envelopes
    MaxEvents,       \* MCP_KERNEL_LIMITS.maxEvents
    NoProposal,      \* the proposal digest of a direct admission: none
    Foreign,         \* the contract of a run no caller here has stored
    Torn             \* a run file whose bytes do not parse

ASSUME RunConstants ==
    /\ \A d \in Drafts : DOMAIN d = {"id", "body"}
    /\ CompiledEvents \in [Proposals -> Seq(Drafts)]
    /\ MaxEvents \in Nat
    /\ NoProposal \notin Proposals
    /\ Foreign \notin Contracts

----------------------------------------------------------------------------
(* Runs, admission records, envelopes                                      *)

\* A portable run document, and so also its content digest.
Run == [contract : Contracts \cup {Foreign}, events : Seq(Drafts)]

Record ==
    [kind : {"direct-event", "model-proposal"}, base : Run, ids : Seq({d.id : d \in Drafts}),
     proposal : Proposals \cup {NoProposal}, decision : Decisions, writer : Writers]

Envelope ==
    [contract : Contracts, events : Seq(Drafts), admissions : Seq(Record), writer : Writers]

\* The event IDs of a stream, in order.
IdSeq(es) == [i \in DOMAIN es |-> es[i].id]

\* digestRunPrefix: the digest of the first `revision` events under a contract.
Prefix(e, revision) ==
    [contract |-> e.contract, events |-> SubSeq(e.events, 1, revision)]

\* The whole-run digest of an envelope.
RunDigest(e) == [contract |-> e.contract, events |-> e.events]

\* createDirectAdmissionRecord
DirectRecord(e, revision, id, decision, w) ==
    [kind |-> "direct-event", base |-> Prefix(e, revision), ids |-> <<id>>,
     proposal |-> NoProposal, decision |-> decision, writer |-> w]

\* createModelProposalAdmissionRecord
BatchRecord(e, revision, proposal, decision, w) ==
    [kind |-> "model-proposal", base |-> Prefix(e, revision),
     ids |-> IdSeq(CompiledEvents[proposal]),
     proposal |-> proposal, decision |-> decision, writer |-> w]

\* The revision up to which the first n admission records cover a run.
CoveredTo(admissions, n) ==
    IF n = 0 THEN 0 ELSE Len(admissions[n].base.events) + Len(admissions[n].ids)

\* validateAdmissionCoverage: the records partition the stream in order, each bound to the
\* digest of the prefix that precedes its events.
Covered(e) ==
    /\ \A i \in DOMAIN e.admissions :
          LET a == e.admissions[i]
              base == CoveredTo(e.admissions, i - 1)
          IN /\ a.base = Prefix(e, base)
             /\ a.ids = IdSeq(SubSeq(e.events, base + 1, base + Len(a.ids)))
    /\ CoveredTo(e.admissions, Len(e.admissions)) = Len(e.events)

\* What parseRunDocumentV0Alpha3 and enforceRunLimits ask of an event stream.
UniqueIds(es) == \A i, j \in DOMAIN es : es[i].id = es[j].id => i = j
WithinLimits(es) == Len(es) <= MaxEvents

\* parseMcpRunEnvelopeV0Alpha2 accepts the stored bytes.
Readable(e) ==
    /\ e # Torn
    /\ UniqueIds(e.events)
    /\ WithinLimits(e.events)
    /\ Covered(e)
    /\ e.admissions # <<>> => e.writer = Last(e.admissions).writer

----------------------------------------------------------------------------
(* Tests under the run lock. q is a request, e the envelope just loaded.   *)

\* bindRunPrefix: the caller's revision and digest name a prefix of the run.
Bound(e, base) ==
    /\ base.contract = e.contract
    /\ IsPrefix(base.events, e.events)

\* Mutation of IdTaken: a new event is not looked up.
IdNeverTaken(e, id) == FALSE

IdTaken(e, id) == \E i \in DOMAIN e.events : e.events[i].id = id

\* The first admission record that lists an event ID.
AdmissionOf(e, id) ==
    LET lists(i) == id \in Range(e.admissions[i].ids)
    IN e.admissions[CHOOSE i \in DOMAIN e.admissions :
                        lists(i) /\ \A j \in 1 .. i - 1 : ~lists(j)]

\* Mutation of DirectRetry: the content is compared and the decision is not.
RetryIgnoresDecision(e, q) == q.draft \in Range(e.events)

\* Mutation of DirectRetry: the digest the caller quotes must be the one it was admitted on.
RetryQuotesBase(e, q) ==
    \E i \in DOMAIN e.events :
        LET a == AdmissionOf(e, q.draft.id)
        IN /\ e.events[i] = q.draft
           /\ q.base = Prefix(e, i - 1)
           /\ a = DirectRecord(e, i - 1, q.draft.id, q.decision, a.writer)

\* append(): the event is there with the same content under the same direct decision. The
\* stored writer, not the caller's, goes into the comparison.
DirectRetry(e, q) ==
    \E i \in DOMAIN e.events :
        LET a == AdmissionOf(e, q.draft.id)
        IN /\ e.events[i] = q.draft
           /\ a = DirectRecord(e, i - 1, q.draft.id, q.decision, a.writer)

\* admitVerifiedModelProposal(): the candidate occupies the bound prefix, admitted as one
\* batch with the same digests and decision.
BatchRetry(e, q) ==
    LET es == CompiledEvents[q.proposal]
        revision == Len(q.base.events)
        a == AdmissionOf(e, es[1].id)
    IN /\ es # <<>>
       /\ Bound(e, q.base)
       /\ IsPrefix(q.base.events \o es, e.events)
       /\ a = BatchRecord(e, revision, q.proposal, q.decision, a.writer)

\* The batch may be placed: its prefix is the whole run and no ID is in use.
BatchFits(e, q) ==
    /\ q.base = RunDigest(e)
    /\ \A i \in DOMAIN CompiledEvents[q.proposal] : ~IdTaken(e, CompiledEvents[q.proposal][i].id)

----------------------------------------------------------------------------
(* Envelopes a call writes                                                 *)

\* createEnvelope for a new run.
EmptyEnvelope(contract, w) ==
    [contract |-> contract, events |-> <<>>, admissions |-> <<>>, writer |-> w]

\* append(): one event and its direct record, at the tip.
WithDirect(e, q, w) ==
    [contract |-> e.contract,
     events |-> Append(e.events, q.draft),
     admissions |-> Append(e.admissions,
                           DirectRecord(e, Len(e.events), q.draft.id, q.decision, w)),
     writer |-> w]

\* admitVerifiedModelProposal(): the whole batch and its one record, at the bound revision.
WithBatch(e, q, w) ==
    [contract |-> e.contract,
     events |-> e.events \o CompiledEvents[q.proposal],
     admissions |-> Append(e.admissions,
                           BatchRecord(e, Len(q.base.events), q.proposal, q.decision, w)),
     writer |-> w]

============================================================================
