--------------------------- MODULE ReducerProofs ---------------------------
(***************************************************************************)
(* Theorems about Reducer and Migration and their proofs.                  *)
(***************************************************************************)
EXTENDS Migration, FiniteSetTheorems, WellFoundedInduction, TLAPS

----------------------------------------------------------------------------
(* What one event does to a state                                          *)

Fields == {"nextSequence", "eventIds", "checkpoints", "evidence", "commands", "receipts",
           "receiptIds", "findings"}

\* s and t differ in their findings only.
ButFindings(s, t) ==
    /\ DOMAIN t = DOMAIN s
    /\ \A f \in Fields \ {"findings"} : t[f] = s[f]

\* g has more findings than f.
Sequential(f) == \E S : f \in Seq(S)
MoreFindings(f, g) == Sequential(f) => Sequential(g) /\ g # <<>>

LEMMA SequencesGrow ==
    ASSUME NEW f, NEW S, NEW g \in Seq(S), g # <<>>
    PROVE  MoreFindings(f, f \o g)
<1>1. ASSUME NEW T, f \in Seq(T)
      PROVE  f \o g \in Seq(T \cup S) /\ f \o g # <<>>
  <2>1. f \in Seq(T \cup S) /\ g \in Seq(T \cup S)
    BY <1>1
  <2>2. Len(f \o g) = Len(f) + Len(g) /\ Len(f) \in Nat /\ Len(g) \in Nat /\ Len(g) # 0
    BY <1>1
  <2> QED
    BY <2>1, <2>2
<1> QED
  BY <1>1 DEF MoreFindings, Sequential

LEMMA OneMore ==
    ASSUME NEW f, NEW x
    PROVE  MoreFindings(f, Append(f, x))
<1>1. ASSUME NEW T, f \in Seq(T)
      PROVE  Append(f, x) \in Seq(T \cup {x}) /\ Append(f, x) # <<>>
  <2>1. f \in Seq(T \cup {x}) /\ x \in T \cup {x}
    BY <1>1
  <2>2. Len(Append(f, x)) = Len(f) + 1 /\ Len(f) \in Nat
    BY <1>1
  <2> QED
    BY <2>1, <2>2
<1> QED
  BY <1>1 DEF MoreFindings, Sequential

\* Adding a finding leaves the rest of a state alone.
LEMMA FindChanges ==
    ASSUME NEW s, NEW code, NEW e, NEW detail, DOMAIN s = Fields
    PROVE  /\ ButFindings(s, Find(s, code, e, detail))
           /\ MoreFindings(s.findings, Find(s, code, e, detail).findings)
<1> DEFINE finding == [code |-> code, event |-> e.id, detail |-> detail]
<1>1. Find(s, code, e, detail) = [s EXCEPT !.findings = Append(@, finding)]
  BY DEF Find
<1> HIDE DEF finding
<1>2. ButFindings(s, Find(s, code, e, detail))
  BY <1>1 DEF ButFindings, Fields
<1>3. Find(s, code, e, detail).findings = Append(s.findings, finding)
  BY <1>1 DEF Fields
<1> QED
  BY <1>2, <1>3, OneMore

\* What a reducer takes, and what it answers with findings alone.
TakesEvidence(s, e) ==
    e.type = "evidence.recorded" /\ e.evidence.id \notin DOMAIN s.evidence

Admissible(b, s, e) == \A id \in Range(e.refs) : Known(s, id) /\ ~Mismatched(b, s, e, id)

TakesEvaluation(b, s, e) ==
    /\ e.type = "checkpoint.evaluated"
    /\ e.checkpoint \in DOMAIN b.contract
    /\ ~Finalized(s, e.checkpoint)
    /\ Admissible(b, s, e)

TakesReceipt(s, e) ==
    /\ e.type = "receipt.recorded"
    /\ e.receipt.command \in s.commands
    /\ e.receipt.command \notin DOMAIN s.receipts
    /\ e.receipt.id \notin s.receiptIds

Takes(b, s, e) ==
    /\ e.id \notin DOMAIN s.eventIds
    /\ TakesEvidence(s, e) \/ TakesEvaluation(b, s, e) \/ TakesReceipt(s, e)

\* An evaluation has findings on its references exactly when one of them is not admissible.
LEMMA RefFindingsExact ==
    ASSUME NEW b, NEW s, NEW e, NEW S, e.refs \in Seq(S)
    PROVE  /\ RefFindings(b, s, e) = <<>> <=> Admissible(b, s, e)
           /\ \E T : RefFindings(b, s, e) \in Seq(T)
<1> DEFINE bad == {i \in DOMAIN e.refs : ~Known(s, e.refs[i]) \/ Mismatched(b, s, e, e.refs[i])}
           f == RefFindings(b, s, e)
<1>1. IsFiniteSet(bad) /\ Cardinality(bad) \in Nat /\ (Cardinality(bad) = 0 <=> bad = {})
  <2>1. DOMAIN e.refs = 1 .. Len(e.refs) /\ Len(e.refs) \in Nat
    OBVIOUS
  <2>2. IsFiniteSet(DOMAIN e.refs)
    BY <2>1, FS_Interval
  <2>3. IsFiniteSet(bad)
    BY <2>2, FS_Subset
  <2> QED
    BY <2>3, FS_CardinalityType, FS_EmptySet
<1>2. f = [n \in 1 .. Cardinality(bad) |-> f[n]]
  BY DEF RefFindings
<1>3. bad = {} <=> Admissible(b, s, e)
  BY DEF Admissible, Range
<1> HIDE DEF bad, f
<1>4. f \in Seq({f[n] : n \in 1 .. Cardinality(bad)})
  BY <1>1, <1>2
<1>5. Len(f) = Cardinality(bad)
  BY <1>1, <1>2
<1>6. f = <<>> <=> bad = {}
  BY <1>1, <1>4, <1>5
<1> QED
  BY <1>3, <1>4, <1>6 DEF f

\* The ways in which a state n can follow a state s: by recording evidence, by a decision, by a
\* receipt, or with nothing but a finding.
Recorded(s, n, e) ==
    /\ e.type = "evidence.recorded"
    /\ n.evidence = Put(s.evidence, e.evidence.id, e.evidence)
    /\ \A f \in {"checkpoints", "commands", "receipts", "receiptIds"} : n[f] = s[f]

DecidedNow(b, s, n, e) ==
    /\ e.type = "checkpoint.evaluated"
    /\ e.checkpoint \in DOMAIN b.contract
    /\ ~Finalized(s, e.checkpoint)
    /\ n.checkpoints = [s.checkpoints EXCEPT ![e.checkpoint] = Decide(b, s, e)]
    /\ n.commands = IF Decide(b, s, e).status = "accepted" /\ b.contract[e.checkpoint].emits
                    THEN s.commands \cup {Command(e)} ELSE s.commands
    /\ \A f \in {"evidence", "receipts", "receiptIds"} : n[f] = s[f]

Receipted(s, n, e) ==
    /\ e.id \notin DOMAIN s.eventIds
    /\ e.type = "receipt.recorded"
    /\ e.receipt.command \in s.commands
    /\ e.receipt.command \notin DOMAIN s.receipts
    /\ e.receipt.id \notin s.receiptIds
    /\ n.receipts = Put(s.receipts, e.receipt.command, e.receipt)
    /\ n.receiptIds = s.receiptIds \cup {e.receipt.id}
    /\ \A f \in {"checkpoints", "evidence", "commands"} : n[f] = s[f]

OnlyFindings(s, n) ==
    \A f \in {"checkpoints", "evidence", "commands", "receipts", "receiptIds"} : n[f] = s[f]

Follows(b, s, n, e) ==
    Recorded(s, n, e) \/ DecidedNow(b, s, n, e) \/ Receipted(s, n, e) \/ OnlyFindings(s, n)

\* Every event moves a state in one of these ways, counts as one event and enters its ID. It has
\* findings exactly if it is not taken.
LEMMA ApplyFollows ==
    ASSUME NEW b, NEW s, NEW e, DOMAIN s = Fields,
           e.type \in {"evidence.recorded", "checkpoint.evaluated", "receipt.recorded"},
           e.type = "checkpoint.evaluated" => e.refs \in Seq(EvidenceIds)
    PROVE  LET n == ApplyEvent(b, s, e)
           IN /\ DOMAIN n = Fields
              /\ n.nextSequence = s.nextSequence + 1
              /\ n.eventIds = Put(s.eventIds, e.id, e.sequence)
              /\ Follows(b, s, n, e)
              /\ IF Takes(b, s, e)
                 THEN /\ n.findings = s.findings
                      /\ Recorded(s, n, e) \/ DecidedNow(b, s, n, e) \/ Receipted(s, n, e)
                 ELSE OnlyFindings(s, n) /\ MoreFindings(s.findings, n.findings)
<1> DEFINE t == [s EXCEPT !.nextSequence = @ + 1, !.eventIds = Put(@, e.id, e.sequence)]
           n == ApplyEvent(b, s, e)
           taken == Recorded(s, n, e) \/ DecidedNow(b, s, n, e) \/ Receipted(s, n, e)
<1>1. /\ DOMAIN t = Fields
      /\ t.nextSequence = s.nextSequence + 1
      /\ t.eventIds = Put(s.eventIds, e.id, e.sequence)
      /\ \A f \in Fields \ {"nextSequence", "eventIds"} : t[f] = s[f]
  BY DEF Fields
<1>2. SUFFICES /\ DOMAIN n = Fields
               /\ n.nextSequence = t.nextSequence
               /\ n.eventIds = t.eventIds
               /\ IF Takes(b, s, e) THEN n.findings = s.findings /\ taken
                  ELSE OnlyFindings(s, n) /\ MoreFindings(s.findings, n.findings)
  <2> HIDE DEF t
  <2> QED
    BY <1>1 DEF Follows
<1>3. ASSUME ButFindings(t, n), MoreFindings(t.findings, n.findings), ~Takes(b, s, e)
      PROVE  /\ DOMAIN n = Fields
             /\ n.nextSequence = t.nextSequence
             /\ n.eventIds = t.eventIds
             /\ IF Takes(b, s, e) THEN n.findings = s.findings /\ taken
                ELSE OnlyFindings(s, n) /\ MoreFindings(s.findings, n.findings)
  <2> HIDE DEF t, n
  <2>1. \A f \in Fields \ {"findings"} : n[f] = t[f]
    BY <1>3 DEF ButFindings
  <2>2. OnlyFindings(s, n)
    BY <1>1, <2>1 DEF OnlyFindings, Fields
  <2>3. t.findings = s.findings
    BY <1>1 DEF Fields
  <2> QED
    BY <1>1, <1>3, <2>1, <2>2, <2>3 DEF ButFindings, Fields
<1>4. CASE e.id \in DOMAIN s.eventIds
  <2>1. n = Find(t, "timeline.event.duplicate", e, e.id)
    BY <1>4 DEF ApplyEvent
  <2>2. ~Takes(b, s, e)
    BY <1>4 DEF Takes
  <2> HIDE DEF t, n
  <2> QED BY <1>1, <1>3, <2>1, <2>2, FindChanges
<1>5. CASE e.id \notin DOMAIN s.eventIds /\ e.type = "evidence.recorded"
  <2>1. n = RecordEvidence(t, e)
    BY <1>5 DEF ApplyEvent
  <2>2. Takes(b, s, e) <=> e.evidence.id \notin DOMAIN t.evidence
    BY <1>5 DEF Takes, TakesEvidence, TakesEvaluation, TakesReceipt
  <2> HIDE DEF t, n
  <2>3. CASE e.evidence.id \in DOMAIN t.evidence
    BY <1>1, <1>3, <2>1, <2>2, <2>3, FindChanges DEF RecordEvidence
  <2>4. CASE e.evidence.id \notin DOMAIN t.evidence
    <3>1. n = [t EXCEPT !.evidence = Put(@, e.evidence.id, e.evidence)]
      BY <2>1, <2>4 DEF RecordEvidence
    <3>2. /\ DOMAIN n = Fields
          /\ n.evidence = Put(t.evidence, e.evidence.id, e.evidence)
          /\ \A f \in Fields \ {"evidence"} : n[f] = t[f]
      BY <1>1, <3>1 DEF Fields
    <3>3. Recorded(s, n, e)
      BY <1>1, <1>5, <3>2 DEF Recorded, Fields
    <3>4. n.findings = s.findings
      BY <1>1, <3>2 DEF Fields
    <3> QED BY <2>2, <2>4, <3>2, <3>3, <3>4 DEF Fields
  <2> QED BY <2>3, <2>4
<1>6. CASE e.id \notin DOMAIN s.eventIds /\ e.type = "checkpoint.evaluated"
  <2>1. n = EvaluateCheckpoint(b, t, e)
    BY <1>6 DEF ApplyEvent
  <2>2. Decide(b, t, e) = Decide(b, s, e) /\ (Finalized(t, e.checkpoint) <=> Finalized(s, e.checkpoint))
    BY <1>1 DEF Decide, Finalized, Fields
  <2>3. Admissible(b, t, e) <=> Admissible(b, s, e)
    BY <1>1 DEF Admissible, Known, Mismatched, Fields
  <2>4. /\ RefFindings(b, t, e) = <<>> <=> Admissible(b, t, e)
        /\ \E T : RefFindings(b, t, e) \in Seq(T)
    <3> HIDE DEF t
    <3> QED BY <1>6, RefFindingsExact
  <2>5. Takes(b, s, e) <=> /\ e.checkpoint \in DOMAIN b.contract
                           /\ ~Finalized(t, e.checkpoint) /\ Admissible(b, t, e)
    BY <1>6, <2>2, <2>3 DEF Takes, TakesEvidence, TakesEvaluation, TakesReceipt
  <2> HIDE DEF t, n
  <2>6. CASE e.checkpoint \notin DOMAIN b.contract
    BY <1>1, <1>3, <2>1, <2>5, <2>6, FindChanges DEF EvaluateCheckpoint
  <2>7. CASE e.checkpoint \in DOMAIN b.contract /\ Finalized(t, e.checkpoint)
    BY <1>1, <1>3, <2>1, <2>5, <2>7, FindChanges DEF EvaluateCheckpoint
  <2>8. CASE /\ e.checkpoint \in DOMAIN b.contract /\ ~Finalized(t, e.checkpoint)
             /\ RefFindings(b, t, e) # <<>>
    <3>1. n = [t EXCEPT !.findings = @ \o RefFindings(b, t, e)]
      BY <2>1, <2>8 DEF EvaluateCheckpoint
    <3>2. ButFindings(t, n) /\ n.findings = t.findings \o RefFindings(b, t, e)
      BY <1>1, <3>1 DEF ButFindings, Fields
    <3>3. MoreFindings(t.findings, n.findings)
      BY <2>4, <2>8, <3>2, SequencesGrow
    <3> QED BY <1>3, <2>4, <2>5, <2>8, <3>2, <3>3
  <2>9. CASE /\ e.checkpoint \in DOMAIN b.contract /\ ~Finalized(t, e.checkpoint)
             /\ RefFindings(b, t, e) = <<>>
    <3> DEFINE d == Decide(b, t, e)
    <3>1. n = [t EXCEPT !.checkpoints[e.checkpoint] = d,
                        !.commands = IF d.status = "accepted" /\ b.contract[e.checkpoint].emits
                                     THEN @ \cup {Command(e)} ELSE @]
      BY <2>1, <2>9 DEF EvaluateCheckpoint
    <3> HIDE DEF d
    <3>2. /\ DOMAIN n = Fields
          /\ n.checkpoints = [t.checkpoints EXCEPT ![e.checkpoint] = d]
          /\ n.commands = IF d.status = "accepted" /\ b.contract[e.checkpoint].emits
                          THEN t.commands \cup {Command(e)} ELSE t.commands
          /\ \A f \in Fields \ {"checkpoints", "commands"} : n[f] = t[f]
      BY <1>1, <3>1 DEF Fields
    <3>3. DecidedNow(b, s, n, e)
      BY <1>1, <1>6, <2>2, <2>9, <3>2 DEF DecidedNow, Fields, d
    <3>4. n.findings = s.findings
      BY <1>1, <3>2 DEF Fields
    <3> QED BY <2>4, <2>5, <2>9, <3>2, <3>3, <3>4 DEF Fields
  <2> QED BY <2>6, <2>7, <2>8, <2>9
<1>7. CASE e.id \notin DOMAIN s.eventIds /\ e.type = "receipt.recorded"
  <2>1. n = RecordReceipt(t, e)
    BY <1>7 DEF ApplyEvent
  <2>2. Takes(b, s, e) <=> /\ e.receipt.command \in t.commands
                           /\ e.receipt.command \notin DOMAIN t.receipts
                           /\ e.receipt.id \notin t.receiptIds
    BY <1>7 DEF Takes, TakesEvidence, TakesEvaluation, TakesReceipt
  <2> HIDE DEF t, n
  <2>3. CASE \/ e.receipt.command \notin t.commands
             \/ e.receipt.command \in DOMAIN t.receipts
             \/ e.receipt.id \in t.receiptIds
    BY <1>1, <1>3, <2>1, <2>2, <2>3, FindChanges DEF RecordReceipt
  <2>4. CASE /\ e.receipt.command \in t.commands
             /\ e.receipt.command \notin DOMAIN t.receipts
             /\ e.receipt.id \notin t.receiptIds
    <3>1. n = [t EXCEPT !.receipts = Put(@, e.receipt.command, e.receipt),
                        !.receiptIds = @ \cup {e.receipt.id}]
      BY <2>1, <2>4 DEF RecordReceipt
    <3>2. /\ DOMAIN n = Fields
          /\ n.receipts = Put(t.receipts, e.receipt.command, e.receipt)
          /\ n.receiptIds = t.receiptIds \cup {e.receipt.id}
          /\ \A f \in Fields \ {"receipts", "receiptIds"} : n[f] = t[f]
      BY <1>1, <3>1 DEF Fields
    <3>3. Receipted(s, n, e)
      BY <1>1, <1>7, <2>4, <3>2 DEF Receipted, Fields
    <3>4. n.findings = s.findings
      BY <1>1, <3>2 DEF Fields
    <3> QED BY <2>2, <2>4, <3>2, <3>3, <3>4 DEF Fields
  <2> QED BY <2>3, <2>4
<1> QED BY <1>2, <1>4, <1>5, <1>6, <1>7

----------------------------------------------------------------------------
(* Facts about values                                                      *)

\* What a decision is made of has its type.
LEMMA DecideTyped ==
    ASSUME NEW b \in [version : Versions, contract : Contracts], NEW s, NEW e \in Event,
           e.type = "checkpoint.evaluated", e.checkpoint \in DOMAIN b.contract
    PROVE  /\ Decide(b, s, e) \in Decided
           /\ b.contract[e.checkpoint].emits \in BOOLEAN
<1>1. PICK used \in SUBSET Checkpoints : b.contract \in [used -> Rule]
  BY ReducerConstants
<1>2. b.contract[e.checkpoint] \in Rule
  BY <1>1
<1>3. e.refs \in Seq(EvidenceIds) /\ e.policyRef \in {p.ref : p \in Policies}
  BY DEF Event
<1> DEFINE requirements == b.contract[e.checkpoint].requirements
           claims == UNION {s.evidence[id].claims : id \in Range(e.refs)}
<1>4. requirements \in SUBSET Claims /\ b.contract[e.checkpoint].policy \in Policies
  BY <1>2 DEF Rule
<1>5. requirements \ claims \in SUBSET Claims
  BY <1>4
<1> HIDE DEF requirements, claims
<1>6. Decide(b, s, e) =
          [status |-> IF requirements \ claims = {} THEN "accepted" ELSE "rejected",
           policy |-> IF b.version = "v0alpha2" THEN b.contract[e.checkpoint].policy
                      ELSE e.policyRef,
           refs |-> e.refs,
           missing |-> requirements \ claims]
  BY DEF Decide, requirements, claims
<1>7. Decide(b, s, e) \in Decided
  BY <1>3, <1>4, <1>5, <1>6 DEF Decided
<1> QED
  BY <1>2, <1>7 DEF Rule

\* A reduction is applyEvent on the bound contract, with an event of its type.
LEMMA ReduceIsApply ==
    ASSUME TypeOK, Next
    PROVE  \E e \in Event :
              /\ e.sequence = run.nextSequence
              /\ bound' = bound
              /\ run' = ApplyEvent(bound, run, e)
              /\ log' = Append(log, e)
<1>1. ASSUME NEW c, NEW e \in Event, e.sequence = run.nextSequence, Reduce(c, e)
      PROVE  /\ bound' = bound
             /\ run' = ApplyEvent(bound, run, e)
             /\ log' = Append(log, e)
  <2>1. [bound EXCEPT !.contract = c] = bound
    BY <1>1 DEF TypeOK, Reduce, SameContract
  <2> QED
    BY <1>1, <2>1 DEF Reduce, CloneState
<1>2. run.nextSequence \in Nat
  BY DEF TypeOK
<1>3. NextIds \subseteq Nat
  <2>1. \A i \in DOMAIN log : log[i].id \in Nat
    BY DEF TypeOK, Event
  <2> QED
    BY <1>2, <2>1 DEF NextIds
<1>4. CASE ReduceEvidence
  <2>1. PICK c \in Contracts, id \in NextIds, v \in Evidence :
            Reduce(c, [id |-> id, sequence |-> run.nextSequence, type |-> "evidence.recorded",
                       evidence |-> v])
    BY <1>4 DEF ReduceEvidence
  <2> DEFINE e == [id |-> id, sequence |-> run.nextSequence, type |-> "evidence.recorded",
                   evidence |-> v]
  <2>2. e \in Event /\ e.sequence = run.nextSequence
    BY <1>2, <1>3 DEF Event
  <2> HIDE DEF e
  <2> QED
    BY <1>1, <2>1, <2>2 DEF e
<1>5. CASE ReduceEvaluation
  <2>1. PICK c \in Contracts, id \in NextIds, v \in Evaluations : Reduce(c, Evaluate(id, v))
    BY <1>5 DEF ReduceEvaluation
  <2>2. v \in Evaluation
    BY ReducerConstants
  <2>3. Evaluate(id, v) \in Event /\ Evaluate(id, v).sequence = run.nextSequence
    BY <1>2, <1>3, <2>2 DEF Event, Evaluate, Evaluation
  <2> QED
    BY <1>1, <2>1, <2>3
<1>6. CASE ReduceReceipt
  <2>1. PICK c \in Contracts, id \in NextIds, r \in ReceiptIds, k \in NamedCommands,
             status \in ReceiptStatus :
            Reduce(c, [id |-> id, sequence |-> run.nextSequence, type |-> "receipt.recorded",
                       receipt |-> [id |-> r, command |-> k, status |-> status]])
    BY <1>6 DEF ReduceReceipt
  <2>2. k \in Checkpoints \X Nat
    BY ReducerConstants DEF NamedCommands, TypeOK
  <2> DEFINE receipt == [id |-> r, command |-> k, status |-> status]
             e == [id |-> id, sequence |-> run.nextSequence, type |-> "receipt.recorded",
                   receipt |-> receipt]
  <2>3. receipt \in Receipt
    BY <2>2 DEF Receipt
  <2>4. e \in Event /\ e.sequence = run.nextSequence
    <3> HIDE DEF receipt
    <3> QED BY <1>2, <1>3, <2>3 DEF Event
  <2>5. Reduce(c, e)
    BY <2>1
  <2> HIDE DEF e
  <2> QED
    BY <1>1, <2>4, <2>5
<1> QED
  BY <1>4, <1>5, <1>6 DEF Next

----------------------------------------------------------------------------
(* Type correctness                                                        *)

LEMMA RunFields ==
    ASSUME TypeOK
    PROVE  DOMAIN run = Fields
BY DEF TypeOK, CreateRun, Fields

LEMMA EventTypes ==
    ASSUME NEW e \in Event
    PROVE  /\ e.type \in {"evidence.recorded", "checkpoint.evaluated", "receipt.recorded"}
           /\ e.id \in Nat
           /\ e.type = "evidence.recorded" => e.evidence \in Evidence
           /\ e.type = "checkpoint.evaluated" =>
                  e.checkpoint \in Checkpoints /\ e.refs \in Seq(EvidenceIds)
           /\ e.type = "receipt.recorded" => e.receipt \in Receipt
BY DEF Event

LEMMA InitTyped ==
    ASSUME Init
    PROVE  TypeOK
<1>1. run = CreateRun(bound.contract)
  BY DEF Init
<1>2. /\ run.nextSequence = 0 /\ run.eventIds = <<>> /\ run.evidence = <<>>
      /\ run.commands = {} /\ run.receipts = <<>> /\ run.receiptIds = {}
      /\ run.checkpoints = [c \in DOMAIN bound.contract |-> Undecided]
  BY <1>1 DEF CreateRun
<1>3. log = <<>> /\ Len(log) = 0 /\ DOMAIN log = {}
  BY DEF Init
<1> QED
  BY <1>1, <1>2, <1>3 DEF Init, TypeOK

LEMMA NextTyped ==
    ASSUME TypeOK, Next
    PROVE  TypeOK'
<1>1. PICK e \in Event :
          /\ e.sequence = run.nextSequence
          /\ bound' = bound
          /\ run' = ApplyEvent(bound, run, e)
          /\ log' = Append(log, e)
  BY ReduceIsApply
<1>2. /\ DOMAIN run' = Fields
      /\ run'.nextSequence = run.nextSequence + 1
      /\ run'.eventIds = Put(run.eventIds, e.id, e.sequence)
      /\ Follows(bound, run, run', e)
  BY <1>1, RunFields, EventTypes, ApplyFollows
<1>3. /\ log' \in Seq(Event)
      /\ Len(log') = Len(log) + 1
      /\ DOMAIN log' = DOMAIN log \cup {Len(log) + 1}
      /\ log'[Len(log) + 1] = e
      /\ \A i \in DOMAIN log : log'[i] = log[i]
  BY <1>1 DEF TypeOK
<1>4. DOMAIN run'.eventIds = {log'[i].id : i \in DOMAIN log'}
  <2>1. DOMAIN run'.eventIds = DOMAIN run.eventIds \cup {e.id}
    BY <1>2 DEF Put
  <2>2. DOMAIN run.eventIds = {log[i].id : i \in DOMAIN log}
    BY DEF TypeOK
  <2> QED
    BY <1>3, <2>1, <2>2
<1>5. CASE OnlyFindings(run, run')
  BY <1>1, <1>2, <1>3, <1>4, <1>5, RunFields DEF TypeOK, OnlyFindings, CreateRun
<1>6. CASE Recorded(run, run', e)
  <2>1. e.evidence \in EvidenceRecord
    BY <1>6, EventTypes, ReducerConstants DEF Recorded
  <2> DEFINE v == e.evidence
  <2>2. run'.evidence = Put(run.evidence, v.id, v)
    BY <1>6 DEF Recorded
  <2>3. \A id \in DOMAIN run.evidence :
            run.evidence[id] \in EvidenceRecord /\ run.evidence[id].id = id
    BY DEF TypeOK
  <2> HIDE DEF v
  <2>4. /\ DOMAIN run'.evidence = DOMAIN run.evidence \cup {v.id}
        /\ run'.evidence[v.id] = v
        /\ \A id \in DOMAIN run.evidence : id # v.id => run'.evidence[id] = run.evidence[id]
    BY <2>2 DEF Put
  <2>5. \A id \in DOMAIN run'.evidence :
            run'.evidence[id] \in EvidenceRecord /\ run'.evidence[id].id = id
    BY <2>1, <2>3, <2>4 DEF v
  <2> QED
    BY <1>1, <1>2, <1>3, <1>4, <1>6, <2>5, RunFields DEF TypeOK, Recorded, CreateRun
<1>7. CASE DecidedNow(bound, run, run', e)
  <2> DEFINE d == Decide(bound, run, e)
  <2>1. d \in Decided /\ e.checkpoint \in Checkpoints
    BY <1>7, EventTypes, DecideTyped DEF DecidedNow, TypeOK
  <2> HIDE DEF d
  <2>2. /\ DOMAIN run'.checkpoints = DOMAIN bound.contract
        /\ \A c \in DOMAIN run'.checkpoints : run'.checkpoints[c] \in Decided \cup {Undecided}
    BY <1>7, <2>1 DEF DecidedNow, TypeOK, d
  <2>3. Command(e) \in Checkpoints \X Nat
    BY <1>1, <2>1 DEF Command, TypeOK
  <2>4. run'.commands \subseteq Checkpoints \X Nat
    BY <1>7, <2>3 DEF DecidedNow, TypeOK
  <2> QED
    BY <1>1, <1>2, <1>3, <1>4, <1>7, <2>2, <2>4, RunFields
    DEF TypeOK, DecidedNow, CreateRun
<1>8. CASE Receipted(run, run', e)
  <2>1. e.receipt \in Receipt /\ e.receipt.id \in ReceiptIds
    BY <1>8, EventTypes DEF Receipted, Receipt
  <2> DEFINE r == e.receipt
  <2>2. run'.receipts = Put(run.receipts, r.command, r)
    BY <1>8 DEF Receipted
  <2>3. \A k \in DOMAIN run.receipts : run.receipts[k] \in Receipt
    BY DEF TypeOK
  <2> HIDE DEF r
  <2>4. /\ DOMAIN run'.receipts = DOMAIN run.receipts \cup {r.command}
        /\ run'.receipts[r.command] = r
        /\ \A k \in DOMAIN run.receipts :
               k # r.command => run'.receipts[k] = run.receipts[k]
    BY <2>2 DEF Put
  <2>5. \A k \in DOMAIN run'.receipts : run'.receipts[k] \in Receipt
    BY <2>1, <2>3, <2>4 DEF r
  <2>6. run'.receiptIds \subseteq ReceiptIds
    BY <1>8, <2>1 DEF Receipted, TypeOK
  <2> QED
    BY <1>1, <1>2, <1>3, <1>4, <1>8, <2>5, <2>6, RunFields DEF TypeOK, Receipted, CreateRun
<1> QED
  BY <1>2, <1>5, <1>6, <1>7, <1>8 DEF Follows

\* The state of a run has its type, for every set of contracts, evidence and evaluations.
THEOREM RunTyped == Spec => []TypeOK
<1>1. Init => TypeOK
  BY InitTyped
<1>2. TypeOK /\ [Next]_vars => TypeOK'
  <2>1. ASSUME TypeOK, UNCHANGED vars
        PROVE  TypeOK'
    BY <2>1 DEF TypeOK, vars
  <2> QED
    BY <2>1, NextTyped
<1> QED
  BY <1>1, <1>2, PTL DEF Spec

----------------------------------------------------------------------------
(* One command for each accepted checkpoint                                *)

\* However its checkpoints are evaluated, a run has one command for each that is accepted and
\* emits one, and no other.
THEOREM OneCommand == Spec => []CommandsOnce
<1>1. Init => CommandsOnce
  <2> SUFFICES ASSUME Init PROVE CommandsOnce
    OBVIOUS
  <2>1. run.commands = {} /\ run.checkpoints = [c \in DOMAIN bound.contract |-> Undecided]
    BY DEF Init, CreateRun
  <2>2. \A c \in DOMAIN bound.contract : run.checkpoints[c].status = "pending"
    BY <2>1 DEF Undecided
  <2> QED
    BY <2>1, <2>2 DEF CommandsOnce
<1>2. ASSUME TypeOK, CommandsOnce, Next
      PROVE  CommandsOnce'
  <2>1. PICK e \in Event :
            /\ e.sequence = run.nextSequence
            /\ bound' = bound
            /\ run' = ApplyEvent(bound, run, e)
    BY <1>2, ReduceIsApply
  <2>2. Follows(bound, run, run', e)
    BY <1>2, <2>1, RunFields, EventTypes, ApplyFollows
  <2>3. CASE OnlyFindings(run, run') \/ Recorded(run, run', e) \/ Receipted(run, run', e)
    <3>1. run'.commands = run.commands /\ run'.checkpoints = run.checkpoints
      BY <2>3 DEF OnlyFindings, Recorded, Receipted
    <3> QED
      BY <1>2, <2>1, <3>1 DEF CommandsOnce
  <2>4. CASE DecidedNow(bound, run, run', e)
    <3> DEFINE d == Decide(bound, run, e)
               c0 == e.checkpoint
               emits == d.status = "accepted" /\ bound.contract[c0].emits
    <3>1. /\ c0 \in DOMAIN bound.contract
          /\ run.checkpoints[c0].status # "accepted"
          /\ run'.checkpoints = [run.checkpoints EXCEPT ![c0] = d]
          /\ run'.commands = IF emits THEN run.commands \cup {Command(e)} ELSE run.commands
      BY <2>4 DEF DecidedNow, Finalized
    <3>2. /\ DOMAIN run.checkpoints = DOMAIN bound.contract
          /\ run'.checkpoints[c0] = d
          /\ \A c \in DOMAIN bound.contract : c # c0 => run'.checkpoints[c] = run.checkpoints[c]
      BY <1>2, <3>1 DEF TypeOK
    <3>3. \A k \in run.commands : k[1] # c0
      BY <1>2, <3>1 DEF CommandsOnce
    <3>4. Command(e)[1] = c0
      BY DEF Command
    <3> HIDE DEF d, c0
    <3>5. ASSUME NEW k \in run'.commands, NEW l \in run'.commands, k[1] = l[1]
          PROVE  k = l
      BY <1>2, <3>1, <3>3, <3>4, <3>5 DEF CommandsOnce
    <3>6. ASSUME NEW c \in DOMAIN bound.contract
          PROVE  (\E k \in run'.commands : k[1] = c)
                     <=> run'.checkpoints[c].status = "accepted" /\ bound.contract[c].emits
      <4>1. CASE c = c0
        BY <3>1, <3>2, <3>3, <3>4, <4>1
      <4>2. CASE c # c0
        <5>1. (\E k \in run'.commands : k[1] = c) <=> (\E k \in run.commands : k[1] = c)
          BY <3>1, <3>4, <4>2
        <5> QED
          BY <1>2, <3>2, <4>2, <5>1 DEF CommandsOnce
      <4> QED BY <4>1, <4>2
    <3> QED
      BY <2>1, <3>5, <3>6 DEF CommandsOnce
  <2> QED
    BY <2>2, <2>3, <2>4 DEF Follows
<1>3. ASSUME CommandsOnce, UNCHANGED vars
      PROVE  CommandsOnce'
  BY <1>3 DEF CommandsOnce, vars
<1>4. TypeOK /\ CommandsOnce /\ [Next]_vars => CommandsOnce'
  BY <1>2, <1>3
<1> QED
  BY <1>1, <1>4, RunTyped, PTL DEF Spec

----------------------------------------------------------------------------
(* Receipts and commands                                                   *)

\* ReceiptsJoin is preserved only because the index of receipt IDs holds every ID in use and a
\* command is older than whatever comes next.
JoinInv ==
    /\ ReceiptsJoin
    /\ \A k \in DOMAIN run.receipts : run.receipts[k].id \in run.receiptIds
    /\ \A k \in run.commands : k[2] < Len(log)

\* The event that a receipt comes from.
Source(i, k) ==
    /\ Fresh(i) /\ i - 1 > k[2]
    /\ log[i].type = "receipt.recorded"
    /\ log[i].receipt = run.receipts[k] /\ log[i].receipt.command = k

LEMMA NextJoins ==
    ASSUME TypeOK, JoinInv, Next
    PROVE  JoinInv'
<1>1. PICK e \in Event :
          /\ e.sequence = run.nextSequence
          /\ run' = ApplyEvent(bound, run, e)
          /\ log' = Append(log, e)
  BY ReduceIsApply
<1>2. Follows(bound, run, run', e)
  BY <1>1, RunFields, EventTypes, ApplyFollows
<1>3. /\ Len(log) \in Nat /\ DOMAIN log = 1 .. Len(log)
      /\ Len(log') = Len(log) + 1 /\ DOMAIN log' = 1 .. Len(log) + 1
      /\ log'[Len(log) + 1] = e
      /\ \A i \in DOMAIN log : log'[i] = log[i]
  BY <1>1 DEF TypeOK
<1>4. ASSUME NEW k, k \in DOMAIN run.receipts, k \in DOMAIN run'.receipts,
             run'.receipts[k] = run.receipts[k], k \in run'.commands
      PROVE  /\ k \in run'.commands
             /\ \E i \in DOMAIN log' : Source(i, k)'
  <2>1. PICK i \in DOMAIN log : Source(i, k)
    BY <1>4 DEF JoinInv, ReceiptsJoin, Source
  <2>2. i \in DOMAIN log' /\ log'[i] = log[i] /\ \A j \in 1 .. i - 1 : log'[j] = log[j]
    BY <1>3
  <2>3. Fresh(i)'
    BY <2>1, <2>2 DEF Fresh, Source
  <2> QED
    BY <1>4, <2>1, <2>2, <2>3 DEF Source
<1>5. ASSUME run'.receipts = run.receipts, run'.receiptIds = run.receiptIds,
             run.commands \subseteq run'.commands,
             \A k \in run'.commands : k[2] < Len(log')
      PROVE  JoinInv'
  <2>1. \A k \in DOMAIN run.receipts : k \in run.commands
    BY DEF JoinInv, ReceiptsJoin
  <2>2. \A k \in DOMAIN run'.receipts : k \in run'.commands /\ \E i \in DOMAIN log' : Source(i, k)'
    BY <1>4, <1>5, <2>1
  <2>3. \A k, l \in DOMAIN run'.receipts : run'.receipts[k].id = run'.receipts[l].id => k = l
    BY <1>5 DEF JoinInv, ReceiptsJoin
  <2>4. ReceiptsJoin'
    BY <2>2, <2>3 DEF ReceiptsJoin, Source
  <2> QED
    BY <1>5, <2>4 DEF JoinInv
<1>6. \A k \in run.commands : k[2] < Len(log')
  <2>1. \A k \in run.commands : k[2] \in Nat
    BY DEF TypeOK
  <2> QED
    BY <1>3, <2>1 DEF JoinInv
<1>7. CASE OnlyFindings(run, run') \/ Recorded(run, run', e)
  BY <1>5, <1>6, <1>7 DEF OnlyFindings, Recorded
<1>8. CASE DecidedNow(bound, run, run', e)
  <2>1. run'.receipts = run.receipts /\ run'.receiptIds = run.receiptIds
    BY <1>8 DEF DecidedNow
  <2>2. run'.commands \in {run.commands, run.commands \cup {Command(e)}}
    BY <1>8 DEF DecidedNow
  <2>3. Command(e)[2] < Len(log')
    BY <1>1, <1>3 DEF Command, TypeOK
  <2> QED
    BY <1>5, <1>6, <2>1, <2>2, <2>3
<1>9. CASE Receipted(run, run', e)
  <2> DEFINE r == e.receipt
  <2>1. /\ run'.receipts = Put(run.receipts, r.command, r)
        /\ run'.receiptIds = run.receiptIds \cup {r.id}
        /\ run'.commands = run.commands
        /\ r.command \in run.commands
        /\ r.command \notin DOMAIN run.receipts
        /\ r.id \notin run.receiptIds
        /\ e.id \notin DOMAIN run.eventIds
        /\ e.type = "receipt.recorded"
    BY <1>9 DEF Receipted
  <2>2. /\ DOMAIN run'.receipts = DOMAIN run.receipts \cup {r.command}
        /\ run'.receipts[r.command] = r
        /\ \A k \in DOMAIN run.receipts : run'.receipts[k] = run.receipts[k]
    BY <2>1 DEF Put
  <2>3. \A k \in DOMAIN run.receipts : k \in run.commands /\ run.receipts[k].id \in run.receiptIds
    BY DEF JoinInv, ReceiptsJoin
  <2>4. PICK n \in Nat : n = Len(log) + 1
    BY <1>3
  <2>5. Source(n, r.command)'
    <3>1. Fresh(n)'
      <4>1. \A i \in DOMAIN log : log[i].id # e.id
        BY <2>1 DEF TypeOK
      <4> QED
        BY <1>3, <2>4, <4>1 DEF Fresh
    <3>2. Len(log) > r.command[2]
      <4>1. r.command[2] \in Nat
        BY <2>1 DEF TypeOK
      <4> QED
        BY <1>3, <2>1, <4>1 DEF JoinInv
    <3> QED
      BY <1>3, <2>1, <2>2, <2>4, <3>1, <3>2 DEF Source
  <2>6. ASSUME NEW k \in DOMAIN run'.receipts
        PROVE  k \in run'.commands /\ \E i \in DOMAIN log' : Source(i, k)'
    <3>1. CASE k = r.command
      <4>1. n \in DOMAIN log'
        BY <1>3, <2>4
      <4>2. Source(n, k)'
        BY <2>5, <3>1
      <4> QED
        BY <2>1, <3>1, <4>1, <4>2
    <3>2. CASE k # r.command
      <4>1. k \in DOMAIN run.receipts /\ run'.receipts[k] = run.receipts[k]
        BY <2>2, <3>2
      <4> QED
        BY <1>4, <2>1, <2>3, <2>6, <4>1
    <3> QED
      BY <3>1, <3>2
  <2>7. \A k \in DOMAIN run'.receipts : run'.receipts[k].id \in run'.receiptIds
    BY <2>1, <2>2, <2>3
  <2>8. \A k, l \in DOMAIN run'.receipts : run'.receipts[k].id = run'.receipts[l].id => k = l
    BY <2>1, <2>2, <2>3 DEF JoinInv, ReceiptsJoin
  <2>9. ReceiptsJoin'
    BY <2>6, <2>8 DEF ReceiptsJoin, Source
  <2> QED
    BY <1>6, <2>1, <2>7, <2>9 DEF JoinInv
<1> QED
  BY <1>2, <1>7, <1>8, <1>9 DEF Follows

\* A receipt answers a command that an earlier event emitted, and no receipt ID answers two, in
\* every stream of events.
THEOREM ReceiptsAnswerCommands == Spec => []ReceiptsJoin
<1>1. Init => JoinInv
  <2> SUFFICES ASSUME Init PROVE JoinInv
    OBVIOUS
  <2>1. run.receipts = <<>> /\ run.commands = {}
    BY DEF Init, CreateRun
  <2> QED
    BY <2>1 DEF JoinInv, ReceiptsJoin
<1>2. TypeOK /\ JoinInv /\ [Next]_vars => JoinInv'
  <2>1. ASSUME JoinInv, UNCHANGED vars
        PROVE  JoinInv'
    BY <2>1 DEF JoinInv, ReceiptsJoin, Fresh, vars
  <2> QED
    BY <2>1, NextJoins
<1>3. JoinInv => ReceiptsJoin
  BY DEF JoinInv
<1> QED
  BY <1>1, <1>2, <1>3, RunTyped, PTL DEF Spec

----------------------------------------------------------------------------
(* What the stream means                                                   *)

Lt == {pair \in Nat \X Nat : pair[1] < pair[2]}

\* Min is the least element of a set of numbers.
LEMMA MinLeast ==
    ASSUME NEW S \in SUBSET Nat, S # {}
    PROVE  Min(S) \in S /\ \A i \in S : Min(S) =< i
<1>1. IsWellFoundedOn(Lt, Nat)
  BY NatLessThanWellFounded DEF OpToRel, Lt
<1>2. PICK m \in S : \A i \in S : ~(<<i, m>> \in Lt)
  BY <1>1, WFMin
<1>3. ASSUME NEW i \in S
      PROVE  m =< i
  <2>1. m \in Nat /\ i \in Nat
    OBVIOUS
  <2>2. ~(i < m)
    BY <1>2, <2>1 DEF Lt
  <2> QED
    BY <2>1, <2>2
<1> QED
  BY <1>3 DEF Min

\* A number above all others changes no least element, and is the greatest.
LEMMA MinStays ==
    ASSUME NEW S \in SUBSET Nat, S # {}, NEW n \in Nat, \A i \in S : i < n
    PROVE  Min(S \cup {n}) = Min(S)
<1>1. Min(S) \in S /\ \A i \in S : Min(S) =< i
  BY MinLeast
<1>2. /\ Min(S \cup {n}) \in S \cup {n}
      /\ \A i \in S \cup {n} : Min(S \cup {n}) =< i
  <2>1. S \cup {n} \in SUBSET Nat /\ S \cup {n} # {}
    OBVIOUS
  <2> QED
    BY <2>1, MinLeast
<1> DEFINE m == Min(S)
           l == Min(S \cup {n})
<1>3. m =< l /\ l =< m /\ m \in Nat /\ l \in Nat
  <2>1. m < n /\ m \in Nat /\ l \in Nat
    BY <1>1, <1>2
  <2>2. l =< m
    BY <1>1, <1>2
  <2> HIDE DEF m, l
  <2>3. l # n
    BY <2>1, <2>2
  <2>4. l \in S
    BY <1>2, <2>3 DEF l
  <2> QED
    BY <1>1, <2>1, <2>2, <2>4 DEF m
<1> HIDE DEF m, l
<1>4. m = l
  BY <1>3
<1> QED
  BY <1>4 DEF m, l

LEMMA MinOne ==
    ASSUME NEW n \in Nat
    PROVE  Min({n}) = n
BY MinLeast

LEMMA MaxLatest ==
    ASSUME NEW S \in SUBSET Nat, NEW n \in Nat, \A i \in S : i < n
    PROVE  Max(S \cup {n}) = n
<1>1. \A i \in S \cup {n} : n >= i
  OBVIOUS
<1>2. ASSUME NEW m \in S \cup {n}, \A i \in S \cup {n} : m >= i
      PROVE  m = n
  BY <1>2
<1> QED
  BY <1>1, <1>2 DEF Max

\* A set of numbers below a bound has a greatest one.
LEMMA MaxIn ==
    ASSUME NEW S \in SUBSET Nat, S # {}, NEW n \in Nat, \A i \in S : i < n
    PROVE  Max(S) \in S
<1> DEFINE T == {n - i : i \in S}
<1>1. T \in SUBSET Nat /\ T # {}
  <2>1. \A i \in S : n - i \in Nat
    OBVIOUS
  <2> QED
    BY <2>1
<1>2. PICK i \in S : Min(T) = n - i
  BY <1>1, MinLeast
<1>3. ASSUME NEW j \in S
      PROVE  i >= j
  <2>1. n - i =< n - j
    BY <1>1, <1>2, MinLeast
  <2> QED
    BY <2>1
<1> QED
  BY <1>3 DEF Max

\* The state and the stream after one more event.
Extended(e) ==
    /\ e \in Event /\ e.sequence = run.nextSequence
    /\ bound' = bound
    /\ log' = Append(log, e)

\* An event changes nothing in what the stream before it means.
LEMMA PastMeaning ==
    ASSUME TypeOK, NEW e, Extended(e)
    PROVE  /\ Len(log) \in Nat /\ DOMAIN log = 1 .. Len(log)
           /\ DOMAIN log' = 1 .. Len(log) + 1 /\ log'[Len(log) + 1] = e
           /\ \A i \in DOMAIN log : log'[i] = log[i] /\ (Fresh(i)' <=> Fresh(i))
           /\ \A i \in 1 .. Len(log) + 1 : \A id :
                  /\ RecordedBefore(i, id)' = RecordedBefore(i, id)
                  /\ RecordedBefore(i, id) \subseteq 1 .. i - 1
                  /\ RecordedBefore(i, id) # {} =>
                        EvidenceBefore(i, id)' = EvidenceBefore(i, id)
<1>1. /\ Len(log) \in Nat /\ DOMAIN log = 1 .. Len(log)
      /\ DOMAIN log' = 1 .. Len(log) + 1 /\ log'[Len(log) + 1] = e
      /\ \A i \in DOMAIN log : log'[i] = log[i]
  BY DEF Extended, TypeOK
<1>2. ASSUME NEW i \in DOMAIN log
      PROVE  Fresh(i)' <=> Fresh(i)
  <2>1. \A j \in 1 .. i - 1 : j \in DOMAIN log
    BY <1>1
  <2> QED
    BY <1>1, <2>1 DEF Fresh
<1>3. ASSUME NEW i \in 1 .. Len(log) + 1, NEW id
      PROVE  /\ RecordedBefore(i, id)' = RecordedBefore(i, id)
             /\ RecordedBefore(i, id) \subseteq 1 .. i - 1
             /\ RecordedBefore(i, id) # {} => EvidenceBefore(i, id)' = EvidenceBefore(i, id)
  <2>1. \A j \in 1 .. i - 1 : j \in DOMAIN log /\ (Fresh(j)' <=> Fresh(j)) /\ log'[j] = log[j]
    BY <1>1, <1>2
  <2>2. RecordedBefore(i, id)' = RecordedBefore(i, id)
    BY <2>1 DEF RecordedBefore
  <2>3. RecordedBefore(i, id) \subseteq 1 .. i - 1 /\ RecordedBefore(i, id) \in SUBSET Nat
    BY <1>1 DEF RecordedBefore
  <2>4. ASSUME RecordedBefore(i, id) # {}
        PROVE  EvidenceBefore(i, id)' = EvidenceBefore(i, id)
    <3>1. Min(RecordedBefore(i, id)) \in RecordedBefore(i, id)
      BY <2>3, <2>4, MinLeast
    <3>2. log'[Min(RecordedBefore(i, id))] = log[Min(RecordedBefore(i, id))]
      BY <2>1, <2>3, <3>1
    <3> QED
      BY <2>2, <3>2 DEF EvidenceBefore
  <2> QED
    BY <2>2, <2>3, <2>4
<1> QED
  BY <1>1, <1>2, <1>3

LEMMA PastDecisions ==
    ASSUME TypeOK, NEW e, Extended(e), NEW i \in DOMAIN log, NEW c
    PROVE  (Sound(i, c)' <=> Sound(i, c)) /\ (Covering(i, c)' <=> Covering(i, c))
<1>1. /\ i \in 1 .. Len(log) + 1 /\ log'[i] = log[i] /\ (Fresh(i)' <=> Fresh(i))
      /\ bound' = bound
      /\ \A id : /\ RecordedBefore(i, id)' = RecordedBefore(i, id)
                 /\ RecordedBefore(i, id) # {} => EvidenceBefore(i, id)' = EvidenceBefore(i, id)
  BY PastMeaning DEF Extended
<1>2. Sound(i, c)' <=> Sound(i, c)
  BY <1>1 DEF Sound
<1>3. Sound(i, c) =>
          \A id \in Range(log[i].refs) : EvidenceBefore(i, id)' = EvidenceBefore(i, id)
  BY <1>1 DEF Sound
<1> QED
  BY <1>1, <1>2, <1>3 DEF Covering

\* The evidence of the state is what the stream records first under each ID.
EvidenceMatches ==
    \A id \in EvidenceIds :
        /\ id \in DOMAIN run.evidence <=> RecordedBefore(Len(log) + 1, id) # {}
        /\ id \in DOMAIN run.evidence => run.evidence[id] = EvidenceBefore(Len(log) + 1, id)

\* What the new event records is there for the next one.
LEMMA NewEvidence ==
    ASSUME TypeOK, NEW e, Extended(e), NEW id, NEW n \in Nat, n = Len(log) + 1
    PROVE  LET records == /\ e.id \notin DOMAIN run.eventIds
                          /\ e.type = "evidence.recorded" /\ e.evidence.id = id
           IN RecordedBefore(n + 1, id)' =
                  RecordedBefore(n, id) \cup (IF records THEN {n} ELSE {})
<1> DEFINE records == /\ e.id \notin DOMAIN run.eventIds
                      /\ e.type = "evidence.recorded" /\ e.evidence.id = id
<1>1. /\ n \in Nat /\ DOMAIN log = 1 .. n - 1 /\ DOMAIN log' = 1 .. n /\ log'[n] = e
      /\ \A i \in DOMAIN log : log'[i] = log[i]
      /\ RecordedBefore(n, id)' = RecordedBefore(n, id)
  BY PastMeaning
<1>2. Fresh(n)' <=> e.id \notin DOMAIN run.eventIds
  <2>1. DOMAIN run.eventIds = {log[i].id : i \in DOMAIN log}
    BY DEF TypeOK
  <2> QED
    BY <1>1, <2>1 DEF Fresh
<1>3. (n + 1) - 1 = n /\ 1 .. n = 1 .. n - 1 \cup {n}
  BY <1>1
<1>4. RecordedBefore(n + 1, id)' =
          {j \in 1 .. n : /\ Fresh(j)' /\ log'[j].type = "evidence.recorded"
                          /\ log'[j].evidence.id = id}
  BY <1>3 DEF RecordedBefore
<1>5. RecordedBefore(n, id)' =
          {j \in 1 .. n - 1 : /\ Fresh(j)' /\ log'[j].type = "evidence.recorded"
                              /\ log'[j].evidence.id = id}
  BY DEF RecordedBefore
<1>6. (Fresh(n)' /\ log'[n].type = "evidence.recorded" /\ log'[n].evidence.id = id) <=> records
  BY <1>1, <1>2
<1> HIDE DEF records
<1>7. RecordedBefore(n + 1, id)' = RecordedBefore(n, id)' \cup (IF records THEN {n} ELSE {})
  BY <1>3, <1>4, <1>5, <1>6
<1> QED
  BY <1>1, <1>7 DEF records

LEMMA EvidenceStays ==
    ASSUME TypeOK, EvidenceMatches, NEW e, Extended(e), run' = ApplyEvent(bound, run, e)
    PROVE  EvidenceMatches'
<1>0. PICK n \in Nat : n = Len(log) + 1
  BY DEF TypeOK
<1>1. /\ n = Len(log) + 1 /\ log'[n] = e /\ Len(log') = n /\ n \in 1 .. n
      /\ \A i \in 1 .. n - 1 : log'[i] = log[i]
      /\ DOMAIN log = 1 .. n - 1
  BY <1>0, PastMeaning DEF Extended, TypeOK
<1>2. /\ IF Takes(bound, run, e)
         THEN Recorded(run, run', e) \/ DecidedNow(bound, run, run', e) \/ Receipted(run, run', e)
         ELSE OnlyFindings(run, run')
  BY RunFields, EventTypes, ApplyFollows DEF Extended
<1>3. SUFFICES ASSUME NEW id \in EvidenceIds
               PROVE  /\ id \in DOMAIN run'.evidence <=> RecordedBefore(n + 1, id)' # {}
                      /\ id \in DOMAIN run'.evidence =>
                             run'.evidence[id] = EvidenceBefore(n + 1, id)'
  BY <1>1 DEF EvidenceMatches
<1> DEFINE old == RecordedBefore(n, id)
           records == /\ e.id \notin DOMAIN run.eventIds
                      /\ e.type = "evidence.recorded" /\ e.evidence.id = id
<1>4. /\ RecordedBefore(n + 1, id)' = old \cup (IF records THEN {n} ELSE {})
      /\ old \in SUBSET Nat /\ \A i \in old : i < n /\ i \in 1 .. n - 1
  <2>1. old \subseteq 1 .. n - 1
    BY <1>1, PastMeaning
  <2> QED
    BY <1>1, <2>1, NewEvidence
<1>5. /\ id \in DOMAIN run.evidence <=> old # {}
      /\ id \in DOMAIN run.evidence => run.evidence[id] = log[Min(old)].evidence
  BY <1>1 DEF EvidenceMatches, EvidenceBefore
<1>6. EvidenceBefore(n + 1, id)' = log'[Min(RecordedBefore(n + 1, id)')].evidence
  BY DEF EvidenceBefore
<1> HIDE DEF old, records
<1>7. CASE ~records /\ run'.evidence = run.evidence
  <2>1. old # {} => log'[Min(old)] = log[Min(old)]
    BY <1>1, <1>4, MinLeast
  <2> QED
    BY <1>4, <1>5, <1>6, <1>7, <2>1
<1>8. CASE records /\ old # {} /\ run'.evidence = run.evidence
  <2>1. Min(old \cup {n}) = Min(old) /\ Min(old) \in old
    BY <1>1, <1>4, <1>8, MinLeast, MinStays
  <2>2. log'[Min(old)] = log[Min(old)]
    BY <1>1, <1>4, <2>1
  <2> QED
    BY <1>4, <1>5, <1>6, <1>8, <2>1, <2>2
<1>9. CASE records /\ old = {} /\ run'.evidence = Put(run.evidence, id, e.evidence)
  <2>1. RecordedBefore(n + 1, id)' = {n} /\ Min({n}) = n
    BY <1>1, <1>4, <1>9, MinOne
  <2>2. id \in DOMAIN run'.evidence /\ run'.evidence[id] = e.evidence
    BY <1>9 DEF Put
  <2> QED
    BY <1>1, <1>6, <2>1, <2>2
<1>10. CASE ~records /\ Takes(bound, run, e) /\ Recorded(run, run', e)
  <2>1. e.evidence.id # id
    BY <1>10 DEF Recorded, Takes, records
  <2>2. /\ id \in DOMAIN run'.evidence <=> id \in DOMAIN run.evidence
        /\ id \in DOMAIN run.evidence => run'.evidence[id] = run.evidence[id]
    BY <1>10, <2>1 DEF Recorded, Put
  <2>3. old # {} => log'[Min(old)] = log[Min(old)]
    BY <1>1, <1>4, MinLeast
  <2> QED
    BY <1>4, <1>5, <1>6, <1>10, <2>2, <2>3
<1>11. CASE Takes(bound, run, e)
  <2>1. CASE Recorded(run, run', e)
    <3>1. e.type = "evidence.recorded" /\ e.id \notin DOMAIN run.eventIds
          /\ e.evidence.id \notin DOMAIN run.evidence
      BY <1>11, <2>1 DEF Takes, TakesEvidence, TakesEvaluation, TakesReceipt, Recorded
    <3>2. CASE records
      BY <1>5, <1>9, <2>1, <3>1, <3>2 DEF Recorded, records
    <3> QED
      BY <1>10, <1>11, <2>1, <3>2
  <2>2. CASE DecidedNow(bound, run, run', e) \/ Receipted(run, run', e)
    <3>1. e.type # "evidence.recorded" /\ run'.evidence = run.evidence
      BY <2>2 DEF DecidedNow, Receipted
    <3> QED
      BY <1>7, <3>1 DEF records
  <2> QED
    BY <1>2, <1>11, <2>1, <2>2
<1>12. CASE ~Takes(bound, run, e)
  <2>1. run'.evidence = run.evidence
    BY <1>2, <1>12 DEF OnlyFindings
  <2>2. records => old # {}
    BY <1>5, <1>12 DEF Takes, TakesEvidence, records
  <2> QED
    BY <1>7, <1>8, <2>1, <2>2
<1> QED
  BY <1>11, <1>12

\* The evaluations of a checkpoint so far: the sound ones and, of these, the covering ones.
SoundOnes(c) == {i \in DOMAIN log : Sound(i, c)}
CoveringOnes(c) == {i \in DOMAIN log : Covering(i, c)}

\* What StateMatchesLog says of one checkpoint.
Matches(c) ==
    LET decision == run.checkpoints[c]
        commands == {k \in run.commands : k[1] = c}
    IN IF CoveringOnes(c) # {}
       THEN /\ decision.status = "accepted"
            /\ decision.refs = log[Min(CoveringOnes(c))].refs
            /\ commands = IF bound.contract[c].emits
                          THEN {<<c, Min(CoveringOnes(c)) - 1>>} ELSE {}
       ELSE /\ commands = {}
            /\ IF SoundOnes(c) = {} THEN decision = Undecided
               ELSE decision.status = "rejected" /\ decision.refs = log[Max(SoundOnes(c))].refs

LEMMA MatchesEach ==
    StateMatchesLog <=> \A c \in DOMAIN bound.contract : Matches(c)
BY DEF StateMatchesLog, Matches, SoundOnes, CoveringOnes

\* The new event, if it is taken, decides as the stream says.
LEMMA NewDecision ==
    ASSUME TypeOK, EvidenceMatches, NEW e, Extended(e), NEW c \in DOMAIN bound.contract,
           NEW n \in Nat, n = Len(log) + 1
    PROVE  /\ Sound(n, c)' <=> /\ e.id \notin DOMAIN run.eventIds
                               /\ e.type = "checkpoint.evaluated" /\ e.checkpoint = c
                               /\ Admissible(bound, run, e)
           /\ Sound(n, c)' =>
                 (Covering(n, c)' <=> Decide(bound, run, e).status = "accepted")
<1>1. /\ DOMAIN log = 1 .. n - 1 /\ log'[n] = e /\ n \in 1 .. n
      /\ bound' = bound
      /\ \A i \in DOMAIN log : log'[i] = log[i]
      /\ \A id : /\ RecordedBefore(n, id)' = RecordedBefore(n, id)
                 /\ RecordedBefore(n, id) # {} => EvidenceBefore(n, id)' = EvidenceBefore(n, id)
  BY PastMeaning DEF Extended
<1>2. Fresh(n)' <=> e.id \notin DOMAIN run.eventIds
  <2>1. DOMAIN run.eventIds = {log[i].id : i \in DOMAIN log}
    BY DEF TypeOK
  <2> QED
    BY <1>1, <2>1 DEF Fresh
<1>3. \A id \in EvidenceIds :
          /\ Known(run, id) <=> RecordedBefore(n, id)' # {}
          /\ Known(run, id) => run.evidence[id] = EvidenceBefore(n, id)'
  BY <1>1 DEF EvidenceMatches, Known
<1>4. e.type = "checkpoint.evaluated" => \A id \in Range(e.refs) : id \in EvidenceIds
  <2>1. e \in Event
    BY DEF Extended
  <2>2. e.type = "checkpoint.evaluated" => e.refs \in Seq(EvidenceIds)
    BY <2>1, EventTypes
  <2> QED
    BY <2>2 DEF Range
<1>5. ASSUME e.type = "checkpoint.evaluated", e.checkpoint = c
      PROVE  Admissible(bound, run, e) <=>
                 \A id \in Range(e.refs) :
                    /\ RecordedBefore(n, id)' # {}
                    /\ bound.version = "v0alpha2" =>
                          EvidenceBefore(n, id)'.policy = bound.contract[c].policy
  BY <1>3, <1>4, <1>5 DEF Admissible, Mismatched
<1>6. Sound(n, c)' <=> /\ e.id \notin DOMAIN run.eventIds
                       /\ e.type = "checkpoint.evaluated" /\ e.checkpoint = c
                       /\ Admissible(bound, run, e)
  BY <1>1, <1>2, <1>5 DEF Sound
<1>7. ASSUME Sound(n, c)'
      PROVE  Covering(n, c)' <=> Decide(bound, run, e).status = "accepted"
  <2>1. \A id \in Range(e.refs) : run.evidence[id] = EvidenceBefore(n, id)'
    BY <1>3, <1>4, <1>6, <1>7 DEF Admissible
  <2> DEFINE claims == UNION {run.evidence[id].claims : id \in Range(e.refs)}
             needed == bound.contract[c].requirements
  <2>2. Decide(bound, run, e).status = "accepted" <=> needed \ claims = {}
    BY <1>6, <1>7 DEF Decide
  <2>3. Covering(n, c)' <=> \A claim \in needed :
                                \E id \in Range(e.refs) : claim \in EvidenceBefore(n, id)'.claims
    BY <1>1, <1>7 DEF Covering
  <2>4. \A claim : claim \in claims <=>
                       \E id \in Range(e.refs) : claim \in EvidenceBefore(n, id)'.claims
    BY <2>1
  <2> HIDE DEF claims, needed
  <2> QED
    BY <2>2, <2>3, <2>4
<1> QED
  BY <1>6, <1>7

\* The sets of evaluations grow by the new one or not at all.
LEMMA OnesGrow ==
    ASSUME TypeOK, NEW e, Extended(e), NEW c, NEW n \in Nat, n = Len(log) + 1
    PROVE  /\ SoundOnes(c)' = SoundOnes(c) \cup (IF Sound(n, c)' THEN {n} ELSE {})
           /\ CoveringOnes(c)' = CoveringOnes(c) \cup (IF Covering(n, c)' THEN {n} ELSE {})
           /\ SoundOnes(c) \in SUBSET Nat /\ \A i \in SoundOnes(c) : i < n
           /\ CoveringOnes(c) \in SUBSET Nat /\ \A i \in CoveringOnes(c) : i < n
           /\ \A i \in SoundOnes(c) \cup CoveringOnes(c) : log'[i] = log[i]
<1>1. /\ DOMAIN log = 1 .. n - 1 /\ DOMAIN log' = 1 .. n
      /\ \A i \in DOMAIN log : log'[i] = log[i]
  BY PastMeaning
<1>2. DOMAIN log' = DOMAIN log \cup {n} /\ DOMAIN log \in SUBSET Nat /\ \A i \in DOMAIN log : i < n
  BY <1>1
<1>3. \A i \in DOMAIN log : (Sound(i, c)' <=> Sound(i, c)) /\ (Covering(i, c)' <=> Covering(i, c))
  BY PastDecisions
<1> QED
  BY <1>1, <1>2, <1>3 DEF SoundOnes, CoveringOnes

LEMMA MatchesStays ==
    ASSUME TypeOK, EvidenceMatches, NEW e, Extended(e), run' = ApplyEvent(bound, run, e),
           NEW c \in DOMAIN bound.contract, Matches(c)
    PROVE  Matches(c)'
<1>1. PICK n \in Nat : n = Len(log) + 1
  BY DEF TypeOK
<1>2. IF Takes(bound, run, e)
      THEN Recorded(run, run', e) \/ DecidedNow(bound, run, run', e) \/ Receipted(run, run', e)
      ELSE OnlyFindings(run, run')
  BY RunFields, EventTypes, ApplyFollows DEF Extended
<1>3. /\ log'[n] = e /\ bound' = bound /\ e.sequence = n - 1
  BY <1>1, PastMeaning DEF Extended, TypeOK
<1> DEFINE sound == SoundOnes(c)
           covering == CoveringOnes(c)
           takes == /\ e.id \notin DOMAIN run.eventIds
                    /\ e.type = "checkpoint.evaluated" /\ e.checkpoint = c
                    /\ Admissible(bound, run, e)
           commands == {k \in run.commands : k[1] = c}
           emits == bound.contract[c].emits
<1>4. /\ sound \in SUBSET Nat /\ \A i \in sound : i < n /\ log'[i] = log[i]
      /\ covering \in SUBSET Nat /\ \A i \in covering : i < n /\ log'[i] = log[i]
      /\ SoundOnes(c)' = sound \cup (IF Sound(n, c)' THEN {n} ELSE {})
      /\ CoveringOnes(c)' = covering \cup (IF Covering(n, c)' THEN {n} ELSE {})
      /\ covering \subseteq sound
  <2>1. covering \subseteq sound
    BY DEF SoundOnes, CoveringOnes, Covering
  <2> QED
    BY <1>1, <2>1, OnesGrow
<1>5. /\ Sound(n, c)' <=> takes
      /\ Covering(n, c)' <=> takes /\ Decide(bound, run, e).status = "accepted"
  <2>1. Covering(n, c)' => Sound(n, c)'
    BY DEF Covering
  <2> QED
    BY <1>1, <2>1, NewDecision
<1>6. IF covering # {}
      THEN /\ run.checkpoints[c].status = "accepted"
           /\ run.checkpoints[c].refs = log[Min(covering)].refs
           /\ commands = IF emits THEN {<<c, Min(covering) - 1>>} ELSE {}
      ELSE /\ commands = {}
           /\ IF sound = {} THEN run.checkpoints[c] = Undecided
              ELSE /\ run.checkpoints[c].status = "rejected"
                   /\ run.checkpoints[c].refs = log[Max(sound)].refs
  BY DEF Matches
<1>7. SUFFICES
        IF CoveringOnes(c)' # {}
        THEN /\ run'.checkpoints[c].status = "accepted"
             /\ run'.checkpoints[c].refs = log'[Min(CoveringOnes(c)')].refs
             /\ {k \in run'.commands : k[1] = c} =
                    IF emits THEN {<<c, Min(CoveringOnes(c)') - 1>>} ELSE {}
        ELSE /\ {k \in run'.commands : k[1] = c} = {}
             /\ IF SoundOnes(c)' = {} THEN run'.checkpoints[c] = Undecided
                ELSE /\ run'.checkpoints[c].status = "rejected"
                     /\ run'.checkpoints[c].refs = log'[Max(SoundOnes(c)')].refs
  BY <1>3 DEF Matches
<1>8. Finalized(run, c) <=> covering # {}
  BY <1>6 DEF Finalized, Undecided
<1> HIDE DEF sound, covering, takes, commands, emits
<1>9. ASSUME run'.checkpoints[c] = run.checkpoints[c],
             {k \in run'.commands : k[1] = c} = commands,
             takes => covering # {}
      PROVE  /\ covering # {} =>
                   /\ Min(CoveringOnes(c)') = Min(covering)
                   /\ log'[Min(covering)] = log[Min(covering)]
             /\ covering = {} => /\ CoveringOnes(c)' = {} /\ SoundOnes(c)' = sound
                                 /\ sound # {} => log'[Max(sound)] = log[Max(sound)]
  <2>1. ASSUME covering # {}
        PROVE  /\ Min(CoveringOnes(c)') = Min(covering)
               /\ log'[Min(covering)] = log[Min(covering)]
    <3>1. Min(covering) \in covering
      BY <1>4, <2>1, MinLeast
    <3>2. Min(covering \cup {n}) = Min(covering)
      BY <1>4, <2>1, MinStays
    <3>3. covering \cup {} = covering
      OBVIOUS
    <3> QED
      BY <1>4, <3>1, <3>2, <3>3
  <2>2. ASSUME covering = {}
        PROVE  CoveringOnes(c)' = {} /\ SoundOnes(c)' = sound
    BY <1>4, <1>5, <1>9, <2>2
  <2>3. ASSUME sound # {}
        PROVE  log'[Max(sound)] = log[Max(sound)]
    <3>1. Max(sound) \in sound
      BY <1>1, <1>4, <2>3, MaxIn
    <3> QED
      BY <1>4, <3>1
  <2> QED
    BY <2>1, <2>2, <2>3
<1>10. CASE /\ run'.checkpoints[c] = run.checkpoints[c]
            /\ {k \in run'.commands : k[1] = c} = commands
            /\ takes => covering # {}
  <2>1. CASE covering # {}
    <3>1. CoveringOnes(c)' # {}
      BY <1>4, <2>1
    <3> QED
      BY <1>6, <1>9, <1>10, <2>1, <3>1
  <2>2. CASE covering = {}
    BY <1>6, <1>9, <1>10, <2>2
  <2> QED
    BY <2>1, <2>2
<1>11. CASE takes /\ covering = {}
  <2> DEFINE d == Decide(bound, run, e)
  <2>1. Takes(bound, run, e) /\ e.checkpoint = c /\ e.type = "checkpoint.evaluated"
    BY <1>8, <1>11 DEF Takes, TakesEvaluation, takes
  <2>2. DecidedNow(bound, run, run', e)
    BY <1>2, <2>1 DEF Recorded, Receipted
  <2>3. d.refs = e.refs /\ d.status \in {"accepted", "rejected"}
    BY DEF Decide
  <2>4. run'.checkpoints[c] = d
    BY <2>1, <2>2 DEF DecidedNow, TypeOK
  <2>5. run'.commands = IF d.status = "accepted" /\ emits
                        THEN run.commands \cup {<<c, n - 1>>} ELSE run.commands
    BY <1>3, <2>1, <2>2 DEF DecidedNow, Command, emits
  <2>6. commands = {} /\ \A k \in run.commands : k[1] # c
    BY <1>6, <1>11 DEF commands
  <2> HIDE DEF d
  <2>7. CASE d.status = "accepted"
    <3>1. CoveringOnes(c)' = {n} /\ Min({n}) = n
      BY <1>4, <1>5, <1>11, <2>7, MinOne DEF d
    <3>2. {k \in run'.commands : k[1] = c} = IF emits THEN {<<c, n - 1>>} ELSE {}
      BY <2>5, <2>6, <2>7
    <3> QED
      BY <1>3, <2>3, <2>4, <2>7, <3>1, <3>2
  <2>8. CASE d.status = "rejected"
    <3>1. CoveringOnes(c)' = {} /\ SoundOnes(c)' = sound \cup {n}
      BY <1>4, <1>5, <1>11, <2>8 DEF d
    <3>2. Max(sound \cup {n}) = n
      BY <1>4, MaxLatest
    <3>3. {k \in run'.commands : k[1] = c} = {}
      BY <2>5, <2>6, <2>8
    <3> QED
      BY <1>3, <2>3, <2>4, <2>8, <3>1, <3>2, <3>3
  <2> QED
    BY <2>3, <2>7, <2>8
<1>12. CASE ~takes \/ covering # {}
  <2>1. ~(Takes(bound, run, e) /\ e.type = "checkpoint.evaluated" /\ e.checkpoint = c)
    BY <1>8, <1>12 DEF Takes, TakesEvidence, TakesEvaluation, TakesReceipt, takes
  <2>2. /\ run'.checkpoints[c] = run.checkpoints[c]
        /\ {k \in run'.commands : k[1] = c} = commands
    <3>1. CASE DecidedNow(bound, run, run', e) /\ Takes(bound, run, e)
      <4>1. e.checkpoint # c
        BY <2>1, <3>1 DEF DecidedNow
      <4>2. run'.checkpoints[c] = run.checkpoints[c]
        BY <3>1, <4>1 DEF DecidedNow, TypeOK
      <4>3. Command(e)[1] # c
        BY <4>1 DEF Command
      <4> QED
        BY <3>1, <4>2, <4>3 DEF DecidedNow, commands
    <3>2. CASE Recorded(run, run', e) \/ Receipted(run, run', e) \/ OnlyFindings(run, run')
      BY <3>2 DEF Recorded, Receipted, OnlyFindings, commands
    <3> QED
      BY <1>2, <3>1, <3>2
  <2> QED
    BY <1>10, <1>12, <2>2
<1> QED
  BY <1>11, <1>12

\* The part of the invariant about evidence and decisions, and that it is inductive.
Meaning == EvidenceMatches /\ \A c \in DOMAIN bound.contract : Matches(c)

LEMMA MeaningInit ==
    ASSUME Init
    PROVE  Meaning
<1>1. /\ log = <<>> /\ run.evidence = <<>> /\ run.commands = {}
      /\ run.checkpoints = [c \in DOMAIN bound.contract |-> Undecided]
  BY DEF Init, CreateRun
<1>2. Len(log) = 0 /\ DOMAIN log = {} /\ DOMAIN run.evidence = {}
  BY <1>1
<1>3. EvidenceMatches
  BY <1>2 DEF EvidenceMatches, RecordedBefore
<1>4. ASSUME NEW c \in DOMAIN bound.contract
      PROVE  Matches(c)
  BY <1>1, <1>2 DEF Matches, SoundOnes, CoveringOnes
<1> QED
  BY <1>3, <1>4 DEF Meaning

LEMMA SameMeaning ==
    ASSUME UNCHANGED vars
    PROVE  /\ \A i : Fresh(i)' <=> Fresh(i)
           /\ \A i, id : /\ RecordedBefore(i, id)' = RecordedBefore(i, id)
                         /\ EvidenceBefore(i, id)' = EvidenceBefore(i, id)
           /\ \A i, c : (Sound(i, c)' <=> Sound(i, c)) /\ (Covering(i, c)' <=> Covering(i, c))
           /\ Meaning => Meaning'
<1>1. \A i : Fresh(i)' <=> Fresh(i)
  BY DEF vars, Fresh
<1>2. \A i, id : /\ RecordedBefore(i, id)' = RecordedBefore(i, id)
                 /\ EvidenceBefore(i, id)' = EvidenceBefore(i, id)
  BY <1>1 DEF vars, RecordedBefore, EvidenceBefore
<1>3. \A i, c : Sound(i, c)' <=> Sound(i, c)
  BY <1>1, <1>2 DEF vars, Sound
<1>4. \A i, c : Covering(i, c)' <=> Covering(i, c)
  BY <1>2, <1>3 DEF vars, Covering
<1>5. \A c : SoundOnes(c)' = SoundOnes(c) /\ CoveringOnes(c)' = CoveringOnes(c)
  BY <1>3, <1>4 DEF vars, SoundOnes, CoveringOnes
<1>6. \A c : Matches(c)' <=> Matches(c)
  BY <1>5 DEF vars, Matches
<1>7. EvidenceMatches => EvidenceMatches'
  BY <1>2 DEF vars, EvidenceMatches
<1> QED
  BY <1>1, <1>2, <1>3, <1>4, <1>6, <1>7 DEF vars, Meaning

LEMMA MeaningNext ==
    ASSUME TypeOK, Meaning, [Next]_vars
    PROVE  Meaning'
<1>1. CASE Next
  <2>1. PICK e : Extended(e) /\ run' = ApplyEvent(bound, run, e)
    BY <1>1, ReduceIsApply DEF Extended
  <2>2. EvidenceMatches'
    BY <2>1, EvidenceStays DEF Meaning
  <2>3. \A c \in DOMAIN bound.contract : Matches(c)'
    BY <2>1, MatchesStays DEF Meaning
  <2>4. bound' = bound
    BY <2>1 DEF Extended
  <2> QED
    BY <2>2, <2>3, <2>4 DEF Meaning
<1> QED
  BY <1>1, SameMeaning

\* What a run has decided is what its stream means: for every stream of events and either version,
\* the first covering evaluation decides a checkpoint for good and emits its command, and until
\* then the last sound one does.
THEOREM StateIsMeaning == Spec => []StateMatchesLog
<1>1. Init => Meaning
  BY MeaningInit
<1>2. TypeOK /\ Meaning /\ [Next]_vars => Meaning'
  BY MeaningNext
<1>3. Meaning => StateMatchesLog
  BY MatchesEach DEF Meaning
<1> QED
  BY <1>1, <1>2, <1>3, RunTyped, PTL DEF Spec

----------------------------------------------------------------------------
(* What a verified run is made of                                          *)

\* Event i did what it says, as the events before it see it.
Worked(i) ==
    /\ Fresh(i)
    /\ log[i].type = "evidence.recorded" => RecordedBefore(i, log[i].evidence.id) = {}
    /\ log[i].type = "checkpoint.evaluated" =>
          /\ log[i].checkpoint \in DOMAIN bound.contract
          /\ Sound(i, log[i].checkpoint)
          /\ \A j \in 1 .. i - 1 : ~Covering(j, log[i].checkpoint)
    /\ log[i].type = "receipt.recorded" =>
          /\ log[i].receipt.command \in DOMAIN run.receipts
          /\ log[i].receipt.id \in run.receiptIds
          /\ \A j \in 1 .. i - 1 : log[j].type = "receipt.recorded" =>
                /\ log[j].receipt.command # log[i].receipt.command
                /\ log[j].receipt.id # log[i].receipt.id

\* As long as there are no findings, every event worked.
CleanInv ==
    /\ Sequential(run.findings)
    /\ run.findings = <<>> => \A i \in DOMAIN log : Worked(i)

\* What worked is not undone.
LEMMA WorkedStays ==
    ASSUME TypeOK, NEW e, Extended(e), NEW i \in DOMAIN log, Worked(i),
           DOMAIN run.receipts \subseteq DOMAIN run'.receipts,
           run.receiptIds \subseteq run'.receiptIds
    PROVE  Worked(i)'
<1>1. /\ i \in 1 .. Len(log) + 1 /\ i \in 1 .. Len(log) /\ Len(log) \in Nat
      /\ log'[i] = log[i] /\ (Fresh(i)' <=> Fresh(i)) /\ bound' = bound
      /\ \A id : RecordedBefore(i, id)' = RecordedBefore(i, id)
      /\ \A c : Sound(i, c)' <=> Sound(i, c)
  BY PastMeaning, PastDecisions DEF Extended
<1>2. ASSUME NEW j \in 1 .. i - 1
      PROVE  log'[j] = log[j] /\ \A c : Covering(j, c)' <=> Covering(j, c)
  <2>1. j \in DOMAIN log
    BY <1>1, PastMeaning
  <2> QED
    BY <2>1, PastMeaning, PastDecisions
<1> QED
  BY <1>1, <1>2 DEF Worked

\* What a reducer takes works.
LEMMA TakenWorks ==
    ASSUME TypeOK, EvidenceMatches, \A c \in DOMAIN bound.contract : Matches(c),
           NEW e, Extended(e), Takes(bound, run, e),
           Recorded(run, run', e) \/ DecidedNow(bound, run, run', e) \/ Receipted(run, run', e),
           \A i \in DOMAIN log : Worked(i), NEW n \in Nat, n = Len(log) + 1
    PROVE  Worked(n)'
<1>1. /\ DOMAIN log = 1 .. n - 1 /\ log'[n] = e /\ n \in 1 .. n /\ bound' = bound
      /\ \A i \in DOMAIN log : log'[i] = log[i]
      /\ \A id : RecordedBefore(n, id)' = RecordedBefore(n, id)
  BY PastMeaning DEF Extended
<1>2. Fresh(n)'
  <2>1. DOMAIN run.eventIds = {log[i].id : i \in DOMAIN log} /\ e.id \notin DOMAIN run.eventIds
    BY DEF TypeOK, Takes
  <2> QED
    BY <1>1, <2>1 DEF Fresh
<1>3. CASE TakesEvidence(run, e)
  <2>1. e.type = "evidence.recorded" /\ e.evidence \in Evidence
    BY <1>3, EventTypes DEF TakesEvidence, Extended
  <2>2. e.evidence.id \in EvidenceIds
    BY <2>1, ReducerConstants DEF EvidenceRecord
  <2>3. RecordedBefore(n, e.evidence.id) = {}
    BY <1>3, <2>2 DEF TakesEvidence, EvidenceMatches
  <2> QED
    BY <1>1, <1>2, <2>1, <2>3 DEF Worked
<1>4. CASE TakesEvaluation(bound, run, e)
  <2> DEFINE c == e.checkpoint
  <2>1. /\ e.type = "checkpoint.evaluated" /\ c \in DOMAIN bound.contract
        /\ ~Finalized(run, c) /\ Admissible(bound, run, e)
    BY <1>4 DEF TakesEvaluation
  <2> HIDE DEF c
  <2>2. Sound(n, c)'
    BY <2>1, NewDecision DEF Takes, c
  <2>3. \A j \in DOMAIN log : ~Covering(j, c)
    BY <2>1 DEF Finalized, Matches, CoveringOnes
  <2>4. \A j \in 1 .. n - 1 : ~Covering(j, c)'
    BY <1>1, <2>3, PastDecisions
  <2> QED
    BY <1>1, <1>2, <2>1, <2>2, <2>4 DEF Worked, c
<1>5. CASE TakesReceipt(run, e)
  <2> DEFINE r == e.receipt
  <2>1. /\ e.type = "receipt.recorded" /\ r.command \notin DOMAIN run.receipts
        /\ r.id \notin run.receiptIds
    BY <1>5 DEF TakesReceipt
  <2>2. r.command \in DOMAIN run'.receipts /\ r.id \in run'.receiptIds
    BY <2>1 DEF Recorded, DecidedNow, Receipted, Put
  <2>3. \A j \in 1 .. n - 1 : log'[j].type = "receipt.recorded" =>
            log'[j].receipt.command # r.command /\ log'[j].receipt.id # r.id
    BY <1>1, <2>1 DEF Worked
  <2> QED
    BY <1>1, <1>2, <2>1, <2>2, <2>3 DEF Worked
<1> QED
  BY <1>3, <1>4, <1>5 DEF Takes

LEMMA CleanStays ==
    ASSUME TypeOK, EvidenceMatches, \A c \in DOMAIN bound.contract : Matches(c), CleanInv,
           NEW e, Extended(e), run' = ApplyEvent(bound, run, e)
    PROVE  CleanInv'
<1>1. IF Takes(bound, run, e)
      THEN /\ run'.findings = run.findings
           /\ Recorded(run, run', e) \/ DecidedNow(bound, run, run', e) \/ Receipted(run, run', e)
      ELSE MoreFindings(run.findings, run'.findings)
  BY RunFields, EventTypes, ApplyFollows DEF Extended
<1>2. CASE ~Takes(bound, run, e)
  BY <1>1, <1>2 DEF CleanInv, MoreFindings
<1>3. CASE Takes(bound, run, e)
  <2>1. ASSUME run'.findings = <<>>, NEW i \in DOMAIN log'
        PROVE  Worked(i)'
    <3>1. \A j \in DOMAIN log : Worked(j)
      BY <1>1, <1>3, <2>1 DEF CleanInv
    <3>2. PICK n \in Nat : n = Len(log) + 1
      BY DEF TypeOK
    <3>3. CASE i = n
      BY <1>1, <1>3, <3>1, <3>2, <3>3, TakenWorks
    <3>4. CASE i # n
      <4>1. i \in DOMAIN log
        BY <3>2, <3>4, PastMeaning
      <4>2. /\ DOMAIN run.receipts \subseteq DOMAIN run'.receipts
            /\ run.receiptIds \subseteq run'.receiptIds
        BY <1>1, <1>3 DEF Recorded, DecidedNow, Receipted, Put
      <4> QED
        BY <3>1, <4>1, <4>2, WorkedStays
    <3> QED
      BY <3>3, <3>4
  <2> QED
    BY <1>1, <1>3, <2>1 DEF CleanInv
<1> QED
  BY <1>2, <1>3

\* Without findings, events that worked are effective, also as later ones see them.
LEMMA WorkedIsEffective ==
    ASSUME TypeOK, \A i \in DOMAIN log : Worked(i), NEW i \in DOMAIN log
    PROVE  Effective(i)
<1>1. DOMAIN log = 1 .. Len(log) /\ Len(log) \in Nat
      /\ log[i].type \in {"evidence.recorded", "checkpoint.evaluated", "receipt.recorded"}
  BY EventTypes DEF TypeOK
<1>2. ASSUME NEW j \in DOMAIN log, j # i, log[i].type = "receipt.recorded",
             log[j].type = "receipt.recorded"
      PROVE  /\ log[j].receipt.command # log[i].receipt.command
             /\ log[j].receipt.id # log[i].receipt.id
  <2>1. CASE j < i
    <3>1. j \in 1 .. i - 1
      BY <1>1, <2>1
    <3> QED
      BY <1>2, <3>1 DEF Worked
  <2>2. CASE i < j
    <3>1. i \in 1 .. j - 1
      BY <1>1, <2>2
    <3> QED
      BY <1>2, <3>1 DEF Worked
  <2> QED
    BY <1>1, <1>2, <2>1, <2>2
<1> QED
  BY <1>1, <1>2 DEF Worked, Effective

LEMMA VerifiedIsClean ==
    ASSUME TypeOK, CleanInv, StateMatchesLog, ReceiptsJoin
    PROVE  OkMeansClean
<1>1. SUFFICES ASSUME VerifyRun(run)
               PROVE  /\ \A i \in DOMAIN log : Effective(i)
                      /\ \A c \in DOMAIN bound.contract : \E i \in DOMAIN log :
                            /\ Covering(i, c)
                            /\ bound.contract[c].emits =>
                                  \E j \in i + 1 .. Len(log) :
                                      /\ log[j].type = "receipt.recorded"
                                      /\ log[j].receipt.command = <<c, i - 1>>
                                      /\ log[j].receipt.status = "succeeded"
  BY DEF OkMeansClean
<1>2. \A i \in DOMAIN log : Effective(i)
  BY <1>1, WorkedIsEffective DEF VerifyRun, CleanInv
<1>3. ASSUME NEW c \in DOMAIN bound.contract
      PROVE  \E i \in DOMAIN log :
                /\ Covering(i, c)
                /\ bound.contract[c].emits =>
                      \E j \in i + 1 .. Len(log) :
                          /\ log[j].type = "receipt.recorded"
                          /\ log[j].receipt.command = <<c, i - 1>>
                          /\ log[j].receipt.status = "succeeded"
  <2>1. run.checkpoints[c].status = "accepted"
    BY <1>1 DEF VerifyRun, TypeOK
  <2>2. Matches(c)
    BY MatchesEach
  <2>3. CoveringOnes(c) # {}
    BY <2>1, <2>2 DEF Matches, Undecided
  <2>4. CoveringOnes(c) \in SUBSET Nat /\ DOMAIN log = 1 .. Len(log) /\ Len(log) \in Nat
    BY DEF CoveringOnes, TypeOK
  <2> DEFINE i == Min(CoveringOnes(c))
  <2>5. i \in CoveringOnes(c)
    BY <2>3, <2>4, MinLeast
  <2> HIDE DEF i
  <2>6. i \in DOMAIN log /\ Covering(i, c) /\ i \in Nat
    BY <2>4, <2>5 DEF CoveringOnes
  <2>7. ASSUME bound.contract[c].emits
        PROVE  \E j \in i + 1 .. Len(log) :
                  /\ log[j].type = "receipt.recorded"
                  /\ log[j].receipt.command = <<c, i - 1>>
                  /\ log[j].receipt.status = "succeeded"
    <3>1. <<c, i - 1>> \in run.commands
      BY <2>2, <2>3, <2>7 DEF Matches, i
    <3>2. <<c, i - 1>> \in DOMAIN run.receipts /\ run.receipts[<<c, i - 1>>].status = "succeeded"
      BY <1>1, <3>1 DEF VerifyRun, Succeeded
    <3>3. PICK j \in DOMAIN log :
              /\ j - 1 > <<c, i - 1>>[2]
              /\ log[j].type = "receipt.recorded"
              /\ log[j].receipt = run.receipts[<<c, i - 1>>]
              /\ log[j].receipt.command = <<c, i - 1>>
      BY <3>2 DEF ReceiptsJoin
    <3>4. j \in i + 1 .. Len(log)
      BY <2>4, <2>6, <3>3
    <3> QED
      BY <3>2, <3>3, <3>4
  <2> QED
    BY <2>6, <2>7
<1> QED
  BY <1>2, <1>3

\* A run that verifies has only effective events, and each checkpoint was covered by one of them
\* whose command, if it emits one, a later receipt says succeeded: for every stream of events.
THEOREM VerifiedRunsAreClean == Spec => []OkMeansClean
<1> DEFINE Inv == Meaning /\ CleanInv
<1>1. Init => Inv
  <2> SUFFICES ASSUME Init PROVE Inv
    OBVIOUS
  <2>1. run.findings = <<>> /\ log = <<>>
    BY DEF Init, CreateRun
  <2>2. run.findings \in Seq({}) /\ DOMAIN log = {}
    BY <2>1
  <2>3. CleanInv
    BY <2>2 DEF CleanInv, Sequential
  <2> QED
    BY <2>3, MeaningInit
<1>2. TypeOK /\ Inv /\ [Next]_vars => Inv'
  <2>1. ASSUME TypeOK, Inv, Next
        PROVE  Inv'
    <3>1. PICK e : Extended(e) /\ run' = ApplyEvent(bound, run, e)
      BY <2>1, ReduceIsApply DEF Extended
    <3>2. CleanInv'
      BY <2>1, <3>1, CleanStays DEF Meaning
    <3> QED
      BY <2>1, <3>2, MeaningNext
  <2>2. ASSUME TypeOK, Inv, UNCHANGED vars
        PROVE  Inv'
    <3>1. \A i : (Worked(i)' <=> Worked(i))
      BY <2>2, SameMeaning DEF Worked, vars
    <3>2. CleanInv'
      BY <2>2, <3>1 DEF CleanInv, vars
    <3> QED
      BY <2>2, <3>2, MeaningNext
  <2> QED
    BY <2>1, <2>2
<1>3. TypeOK /\ Inv /\ ReceiptsJoin => OkMeansClean
  BY VerifiedIsClean, MatchesEach DEF Meaning
<1> QED
  BY <1>1, <1>2, <1>3, RunTyped, ReceiptsAnswerCommands, PTL DEF Spec

----------------------------------------------------------------------------
(* Replay                                                                  *)

\* Induction up to a number, for a set of numbers.
LEMMA UpTo ==
    ASSUME NEW n \in Nat, NEW T, 0 \in T, \A i \in 1 .. n : i - 1 \in T => i \in T
    PROVE  0 .. n \subseteq T
<1> DEFINE Bad == {i \in 0 .. n : i \notin T}
<1>1. SUFFICES ASSUME Bad # {} PROVE FALSE
  OBVIOUS
<1>2. PICK i \in Bad : \A m \in Bad : i =< m
  <2>1. Bad \in SUBSET Nat
    OBVIOUS
  <2> HIDE DEF Bad
  <2> QED
    BY <1>1, <2>1, MinLeast
<1>3. i \in 1 .. n /\ i - 1 \in 0 .. n /\ i - 1 \notin Bad
  BY <1>2
<1> QED
  BY <1>3

\* The states of a replay, between its events.
States(h, b, events) ==
    /\ h[0] = CreateRun(b.contract)
    /\ \A i \in 1 .. Len(events) : h[i] = ApplyEvent(b, h[i - 1], events[i])

\* Replay is the last of them.
LEMMA ReplayStates ==
    ASSUME NEW b, NEW events, Len(events) \in Nat
    PROVE  \E h : States(h, b, events) /\ Replay(b, events) = h[Len(events)]
<1> DEFINE n == Len(events)
           start == CreateRun(b.contract)
           Step(i, s) == ApplyEvent(b, s, events[i])
           Whole(h, k) == [i \in 0 .. k |-> IF i = 0 THEN start ELSE Step(i, h[i - 1])]
           T == {k \in 0 .. n : \E h : h = Whole(h, k)}
<1>1. n \in Nat
  OBVIOUS
<1> HIDE DEF n, start, Step
<1>2. 0 \in T
  <2>1. PICK h : h = [i \in 0 .. 0 |-> start]
    OBVIOUS
  <2>2. h = Whole(h, 0)
    BY <2>1
  <2> QED
    BY <1>1, <2>2
<1>3. ASSUME NEW k \in 1 .. n, k - 1 \in T
      PROVE  k \in T
  <2>1. PICK h : h = Whole(h, k - 1)
    BY <1>3
  <2>2. PICK g : g = [i \in 0 .. k |-> IF i = k THEN Step(k, h[k - 1]) ELSE h[i]]
    OBVIOUS
  <2>3. ASSUME NEW i \in 0 .. k
        PROVE  g[i] = IF i = 0 THEN start ELSE Step(i, g[i - 1])
    <3>1. CASE i = 0
      <4>1. 0 \in 0 .. k - 1 /\ h[0] = start /\ g[0] = h[0]
        BY <1>1, <2>1, <2>2
      <4> QED
        BY <3>1, <4>1
    <3>2. CASE i # 0
      <4>1. i - 1 \in 0 .. k /\ i - 1 # k /\ g[i - 1] = h[i - 1]
        BY <1>1, <2>2, <3>2
      <4>2. i # k => i \in 0 .. k - 1 /\ g[i] = h[i] /\ h[i] = Step(i, h[i - 1])
        BY <1>1, <2>1, <2>2, <3>2
      <4>3. i = k => g[i] = Step(i, h[i - 1])
        BY <1>1, <2>2, <3>2
      <4> QED
        BY <3>2, <4>1, <4>2, <4>3
    <3> QED
      BY <3>1, <3>2
  <2>4. g = Whole(g, k)
    BY <2>2, <2>3
  <2> QED
    BY <2>4
<1>4. n \in T
  <2> HIDE DEF T
  <2>1. 0 .. n \subseteq T
    BY <1>1, <1>2, <1>3, UpTo
  <2> QED
    BY <1>1, <2>1
<1>5. PICK h : h = CHOOSE g : g = Whole(g, n)
  OBVIOUS
<1>6. h = Whole(h, n)
  BY <1>4, <1>5
<1>7. Replay(b, events) = h[n]
  BY <1>5 DEF Replay, n, start, Step
<1>8. States(h, b, events)
  <2>1. h[0] = start /\ \A i \in 1 .. n : h[i] = Step(i, h[i - 1])
    BY <1>1, <1>6
  <2> QED
    BY <2>1 DEF States, n, start, Step
<1> QED
  BY <1>7, <1>8 DEF n

\* One more event is applied to what the others leave.
LEMMA ReplayAppends ==
    ASSUME NEW b, NEW S, NEW events \in Seq(S), NEW e \in S
    PROVE  Replay(b, Append(events, e)) = ApplyEvent(b, Replay(b, events), e)
<1>1. PICK n : n = Len(events)
  OBVIOUS
<1>2. PICK more : more = Append(events, e)
  OBVIOUS
<1>3. /\ n \in Nat /\ Len(more) = n + 1 /\ more[n + 1] = e
      /\ \A i \in 1 .. n : more[i] = events[i]
  BY <1>1, <1>2
<1>4. PICK h : States(h, b, events) /\ Replay(b, events) = h[n]
  BY <1>1, <1>3, ReplayStates
<1>5. PICK g : States(g, b, more) /\ Replay(b, more) = g[n + 1]
  BY <1>3, ReplayStates
<1> DEFINE T == {i \in 0 .. n : g[i] = h[i]}
<1>6. 0 \in T
  BY <1>3, <1>4, <1>5 DEF States
<1>7. ASSUME NEW i \in 1 .. n, i - 1 \in T
      PROVE  i \in T
  <2>1. i \in 1 .. n + 1 /\ i \in 0 .. n
    BY <1>3
  <2>2. g[i] = ApplyEvent(b, g[i - 1], more[i]) /\ h[i] = ApplyEvent(b, h[i - 1], events[i])
    BY <1>1, <1>3, <1>4, <1>5, <2>1 DEF States
  <2> QED
    BY <1>3, <1>7, <2>1, <2>2
<1>8. g[n] = h[n]
  <2>1. 0 .. n \subseteq T
    <3> HIDE DEF T
    <3> QED
      BY <1>3, <1>6, <1>7, UpTo
  <2> QED
    BY <1>3, <2>1
<1>9. g[n + 1] = ApplyEvent(b, g[n], e)
  <2>1. n + 1 \in 1 .. n + 1 /\ (n + 1) - 1 = n
    BY <1>3
  <2> QED
    BY <1>3, <1>5, <2>1 DEF States
<1> QED
  BY <1>2, <1>4, <1>5, <1>8, <1>9

\* The state that a host holds is what its events replay to, for any stream.
RunIsReplay == run = Replay(bound, log)

\* Each reduction is the next event of the replay.
LEMMA ReplayNext ==
    ASSUME TypeOK, RunIsReplay, [Next]_vars
    PROVE  RunIsReplay'
<1>1. CASE Next
  <2>1. PICK e \in Event : /\ bound' = bound
                           /\ run' = ApplyEvent(bound, run, e)
                           /\ log' = Append(log, e)
    BY <1>1, ReduceIsApply
  <2>2. PICK b, s, events : b = bound /\ s = run /\ events = log
    OBVIOUS
  <2>3. events \in Seq(Event) /\ s = Replay(b, events)
    BY <2>2 DEF TypeOK, RunIsReplay
  <2>4. Replay(b, Append(events, e)) = ApplyEvent(b, s, e)
    BY <2>3, ReplayAppends
  <2> QED
    BY <2>1, <2>2, <2>4 DEF RunIsReplay
<1>2. CASE UNCHANGED vars
  BY <1>2 DEF RunIsReplay, vars
<1> QED
  BY <1>1, <1>2

LEMMA ReplayInit ==
    ASSUME Init
    PROVE  RunIsReplay
<1>1. log = <<>> /\ run = CreateRun(bound.contract)
  BY DEF Init
<1>2. Len(<<>>) = 0
  OBVIOUS
<1>3. PICK h : States(h, bound, <<>>) /\ Replay(bound, <<>>) = h[0]
  BY <1>2, ReplayStates
<1> QED
  BY <1>1, <1>3 DEF RunIsReplay, States

----------------------------------------------------------------------------
(* The migrated document                                                   *)

\* What bindCheckpointPolicies and bindEvidencePolicies accept.
Binds(doc, contract, policies, fallback) ==
    /\ doc \in Seq(Event) /\ contract \in Contracts /\ policies \in [DOMAIN contract -> Policies]
    /\ BindsCheckpoints(doc, policies) /\ BindsEvidence(doc, policies, fallback)

\* What the two versions bind a run to.
Old(contract) == [version |-> "v0alpha1", contract |-> contract]
New(contract, policies) ==
    [version |-> "v0alpha2", contract |-> MigratedContract(contract, policies)]

\* The states of the two versions, after the same number of events.
Alike(s, t, doc, contract, policies, fallback) ==
    /\ DOMAIN s = Fields /\ DOMAIN t = Fields
    /\ \A f \in Fields \ {"checkpoints", "evidence"} : s[f] = t[f]
    /\ DOMAIN s.evidence = DOMAIN t.evidence
    /\ \A id \in DOMAIN s.evidence :
          /\ s.evidence[id].claims = t.evidence[id].claims
          /\ t.evidence[id].policy = EvidencePolicy(doc, policies, fallback, id)
    /\ DOMAIN s.checkpoints = DOMAIN contract /\ DOMAIN t.checkpoints = DOMAIN contract
    /\ \A c \in DOMAIN contract : SameDecision(s.checkpoints[c], t.checkpoints[c])

\* Migration gives a contract its policies and leaves the rest.
LEMMA MigratedRules ==
    ASSUME NEW contract \in Contracts, NEW policies \in [DOMAIN contract -> Policies]
    PROVE  LET b == New(contract, policies)
           IN /\ DOMAIN b.contract = DOMAIN contract /\ b.version = "v0alpha2"
              /\ \A c \in DOMAIN contract :
                    /\ b.contract[c].requirements = contract[c].requirements
                    /\ b.contract[c].emits = contract[c].emits
                    /\ b.contract[c].policy = policies[c]
<1>1. PICK used \in SUBSET Checkpoints : contract \in [used -> Rule]
  BY ReducerConstants
<1>2. ASSUME NEW c \in DOMAIN contract, NEW rule, rule = [contract[c] EXCEPT !.policy = policies[c]]
      PROVE  /\ rule.requirements = contract[c].requirements
             /\ rule.emits = contract[c].emits
             /\ rule.policy = policies[c]
  <2>1. contract[c] \in Rule
    BY <1>1
  <2> QED
    BY <1>2, <2>1 DEF Rule
<1>3. New(contract, policies).contract = MigratedContract(contract, policies)
      /\ New(contract, policies).version = "v0alpha2"
  BY DEF New
<1>4. DOMAIN MigratedContract(contract, policies) = DOMAIN contract
  BY DEF MigratedContract
<1>5. \A c \in DOMAIN contract :
          MigratedContract(contract, policies)[c] = [contract[c] EXCEPT !.policy = policies[c]]
  BY DEF MigratedContract
<1> QED
  BY <1>2, <1>3, <1>4, <1>5

\* A finding more on each side.
LEMMA FindAlike ==
    ASSUME NEW s, NEW t, NEW doc, NEW contract, NEW policies, NEW fallback,
           Alike(s, t, doc, contract, policies, fallback),
           NEW code, NEW e, NEW m, e.id = m.id, NEW detail
    PROVE  Alike(Find(s, code, e, detail), Find(t, code, m, detail),
                 doc, contract, policies, fallback)
<1>1. PICK finding : finding = [code |-> code, event |-> e.id, detail |-> detail]
  OBVIOUS
<1>2. PICK u, v : u = Find(s, code, e, detail) /\ v = Find(t, code, m, detail)
  OBVIOUS
<1>3. /\ u = [s EXCEPT !.findings = Append(@, finding)]
      /\ v = [t EXCEPT !.findings = Append(@, finding)]
  BY <1>1, <1>2 DEF Find
<1>4. DOMAIN s = Fields /\ DOMAIN t = Fields
  BY DEF Alike
<1>5. /\ DOMAIN u = Fields /\ DOMAIN v = Fields
      /\ u.findings = Append(s.findings, finding) /\ v.findings = Append(t.findings, finding)
      /\ \A f \in Fields \ {"findings"} : u[f] = s[f] /\ v[f] = t[f]
  BY <1>3, <1>4 DEF Fields
<1>6. Alike(u, v, doc, contract, policies, fallback)
  BY <1>5 DEF Alike, Fields
<1> QED
  BY <1>2, <1>6

\* Evidence that the i-th event refers to is migrated to the policy of its checkpoint.
LEMMA ReferredPolicy ==
    ASSUME NEW doc, NEW contract, NEW policies, NEW fallback,
           Binds(doc, contract, policies, fallback),
           NEW i \in DOMAIN doc, doc[i].type = "checkpoint.evaluated",
           NEW id \in Range(doc[i].refs)
    PROVE  EvidencePolicy(doc, policies, fallback, id) = policies[doc[i].checkpoint]
<1>1. /\ DOMAIN doc = 1 .. Len(doc) /\ Len(doc) \in Nat /\ doc[i] \in Event
  BY DEF Binds
<1>2. id \in EvidenceIds
  <2>1. doc[i].refs \in Seq(EvidenceIds)
    BY <1>1 DEF Event
  <2> QED
    BY <2>1 DEF Range
<1>3. PICK R : R = Referring(doc, id)
  OBVIOUS
<1>4. R \in SUBSET Nat /\ i \in R /\ \A j \in R : j < Len(doc) + 1
  BY <1>1, <1>3 DEF Referring
<1>5. Max(R) \in R
  <2>1. Len(doc) + 1 \in Nat
    BY <1>1
  <2> QED
    BY <1>4, <2>1, MaxIn
<1>6. EvidencePolicy(doc, policies, fallback, id) = policies[doc[Max(R)].checkpoint]
  BY <1>3, <1>4 DEF EvidencePolicy
<1>7. policies[doc[Max(R)].checkpoint] = policies[doc[i].checkpoint]
  BY <1>2, <1>3, <1>4, <1>5 DEF Binds, BindsEvidence
<1> QED
  BY <1>6, <1>7

\* The findings on the references, for a set of references to find fault with.
FindingsOn(bad, s, e) ==
    LET nth(n) == e.refs[CHOOSE i \in bad : Cardinality({j \in bad : j <= i}) = n]
        finding(id) ==
            [code |-> IF Known(s, id) THEN "timeline.evidence.policy_mismatch"
                      ELSE "timeline.evidence.unknown",
             event |-> e.id, detail |-> id]
    IN [n \in 1 .. Cardinality(bad) |-> finding(nth(n))]

\* The places of references that an evaluation has findings on.
BadRefs(b, s, e) ==
    {i \in DOMAIN e.refs : ~Known(s, e.refs[i]) \/ Mismatched(b, s, e, e.refs[i])}

\* The findings are the same if the same evidence is known and mismatched.
LEMMA SameRefFindings ==
    ASSUME NEW b, NEW s, NEW c, NEW t, NEW e, DOMAIN s.evidence = DOMAIN t.evidence,
           \A id \in Range(e.refs) :
               Known(s, id) => (Mismatched(b, s, e, id) <=> Mismatched(c, t, e, id))
    PROVE  RefFindings(b, s, e) = RefFindings(c, t, e)
<1>1. \A id : Known(s, id) <=> Known(t, id)
  BY DEF Known
<1>2. BadRefs(b, s, e) = BadRefs(c, t, e)
  BY <1>1 DEF BadRefs, Range
<1>3. /\ RefFindings(b, s, e) = FindingsOn(BadRefs(b, s, e), s, e)
      /\ RefFindings(c, t, e) = FindingsOn(BadRefs(c, t, e), t, e)
  BY DEF RefFindings, FindingsOn, BadRefs
<1>4. ASSUME NEW bad
      PROVE  FindingsOn(bad, s, e) = FindingsOn(bad, t, e)
  BY <1>1 DEF FindingsOn
<1> QED
  BY <1>2, <1>3, <1>4

\* Of references that are known, the two versions make the same decision.
LEMMA SameDecide ==
    ASSUME NEW s, NEW t, NEW doc, NEW contract, NEW policies, NEW fallback,
           Binds(doc, contract, policies, fallback),
           Alike(s, t, doc, contract, policies, fallback),
           NEW i \in DOMAIN doc, NEW e, e = doc[i], e.type = "checkpoint.evaluated",
           \A id \in Range(e.refs) : Known(s, id)
    PROVE  /\ SameDecision(Decide(Old(contract), s, e), Decide(New(contract, policies), t, e))
           /\ Decide(Old(contract), s, e).status # "pending"
<1>1. PICK c : c = e.checkpoint
  OBVIOUS
<1>2. PICK b : b = New(contract, policies)
  OBVIOUS
<1>3. c \in DOMAIN contract /\ e.policyRef = policies[c].ref
  BY <1>1 DEF Binds, BindsCheckpoints
<1>4. /\ b.contract[c].requirements = contract[c].requirements
      /\ b.contract[c].policy = policies[c] /\ b.version = "v0alpha2"
  BY <1>2, <1>3, MigratedRules DEF Binds
<1>5. UNION {s.evidence[id].claims : id \in Range(e.refs)} =
      UNION {t.evidence[id].claims : id \in Range(e.refs)}
  BY DEF Alike, Known
<1>6. PICK missing : missing = contract[c].requirements
                                  \ UNION {s.evidence[id].claims : id \in Range(e.refs)}
  OBVIOUS
<1>7. PICK status : status = IF missing = {} THEN "accepted" ELSE "rejected"
  OBVIOUS
<1>8. Decide(Old(contract), s, e) =
          [status |-> status, policy |-> e.policyRef, refs |-> e.refs, missing |-> missing]
  BY <1>1, <1>6, <1>7 DEF Decide, Old
<1>9. Decide(b, t, e) =
          [status |-> status, policy |-> policies[c], refs |-> e.refs, missing |-> missing]
  BY <1>1, <1>4, <1>5, <1>6, <1>7 DEF Decide
<1>10. SameDecision(Decide(Old(contract), s, e), Decide(b, t, e))
  BY <1>3, <1>8, <1>9 DEF SameDecision
<1> QED
  BY <1>2, <1>7, <1>8, <1>10

----------------------------------------------------------------------------
(* The two versions, event by event                                        *)

\* The fields that every event sets.
Counted(s, e) == [s EXCEPT !.nextSequence = @ + 1, !.eventIds = Put(@, e.id, e.sequence)]

LEMMA CountedAlike ==
    ASSUME NEW s, NEW t, NEW doc, NEW contract, NEW policies, NEW fallback,
           Alike(s, t, doc, contract, policies, fallback),
           NEW e, NEW m, e.id = m.id, e.sequence = m.sequence
    PROVE  Alike(Counted(s, e), Counted(t, m), doc, contract, policies, fallback)
<1>1. PICK u, v : u = Counted(s, e) /\ v = Counted(t, m)
  OBVIOUS
<1>2. DOMAIN s = Fields /\ DOMAIN t = Fields
  BY DEF Alike
<1>3. /\ DOMAIN u = Fields /\ DOMAIN v = Fields
      /\ u.nextSequence = s.nextSequence + 1 /\ v.nextSequence = t.nextSequence + 1
      /\ u.eventIds = Put(s.eventIds, e.id, e.sequence)
      /\ v.eventIds = Put(t.eventIds, e.id, e.sequence)
      /\ \A f \in Fields \ {"nextSequence", "eventIds"} : u[f] = s[f] /\ v[f] = t[f]
  BY <1>1, <1>2 DEF Counted, Fields
<1>4. s.nextSequence = t.nextSequence /\ s.eventIds = t.eventIds
  BY DEF Alike, Fields
<1>5. Alike(u, v, doc, contract, policies, fallback)
  BY <1>3, <1>4 DEF Alike, Fields
<1> QED
  BY <1>1, <1>5

LEMMA EvidenceAlike ==
    ASSUME NEW s, NEW t, NEW doc, NEW contract, NEW policies, NEW fallback,
           Alike(s, t, doc, contract, policies, fallback),
           NEW e, NEW m, e.id = m.id, e.evidence.id = m.evidence.id,
           e.evidence.claims = m.evidence.claims,
           m.evidence.policy = EvidencePolicy(doc, policies, fallback, e.evidence.id)
    PROVE  Alike(RecordEvidence(s, e), RecordEvidence(t, m), doc, contract, policies, fallback)
<1>1. PICK id : id = e.evidence.id
  OBVIOUS
<1>2. DOMAIN s = Fields /\ DOMAIN t = Fields /\ DOMAIN s.evidence = DOMAIN t.evidence
  BY DEF Alike
<1>3. CASE id \in DOMAIN s.evidence
  <2>1. /\ RecordEvidence(s, e) = Find(s, "timeline.evidence.duplicate", e, id)
        /\ RecordEvidence(t, m) = Find(t, "timeline.evidence.duplicate", m, id)
    BY <1>1, <1>2, <1>3 DEF RecordEvidence
  <2> QED
    BY <2>1, FindAlike
<1>4. CASE id \notin DOMAIN s.evidence
  <2>1. PICK u, v : u = RecordEvidence(s, e) /\ v = RecordEvidence(t, m)
    OBVIOUS
  <2>2. /\ u = [s EXCEPT !.evidence = Put(@, id, e.evidence)]
        /\ v = [t EXCEPT !.evidence = Put(@, id, m.evidence)]
    BY <1>1, <1>2, <1>4, <2>1 DEF RecordEvidence
  <2>3. /\ DOMAIN u = Fields /\ DOMAIN v = Fields
        /\ u.evidence = Put(s.evidence, id, e.evidence)
        /\ v.evidence = Put(t.evidence, id, m.evidence)
        /\ \A f \in Fields \ {"evidence"} : u[f] = s[f] /\ v[f] = t[f]
    BY <1>2, <2>2 DEF Fields
  <2>4. /\ DOMAIN u.evidence = DOMAIN v.evidence
        /\ \A k \in DOMAIN u.evidence :
              /\ u.evidence[k].claims = v.evidence[k].claims
              /\ v.evidence[k].policy = EvidencePolicy(doc, policies, fallback, k)
    BY <1>1, <1>2, <2>3 DEF Put, Alike
  <2>5. Alike(u, v, doc, contract, policies, fallback)
    BY <2>3, <2>4 DEF Alike, Fields
  <2> QED
    BY <2>1, <2>5
<1> QED
  BY <1>3, <1>4

LEMMA ReceiptAlike ==
    ASSUME NEW s, NEW t, NEW doc, NEW contract, NEW policies, NEW fallback,
           Alike(s, t, doc, contract, policies, fallback), NEW e
    PROVE  Alike(RecordReceipt(s, e), RecordReceipt(t, e), doc, contract, policies, fallback)
<1>1. /\ DOMAIN s = Fields /\ DOMAIN t = Fields /\ s.commands = t.commands
      /\ s.receipts = t.receipts /\ s.receiptIds = t.receiptIds
  BY DEF Alike, Fields
<1>2. CASE e.receipt.command \notin s.commands
  BY <1>1, <1>2, FindAlike DEF RecordReceipt
<1>3. CASE e.receipt.command \in s.commands /\ e.receipt.command \in DOMAIN s.receipts
  BY <1>1, <1>3, FindAlike DEF RecordReceipt
<1>4. CASE /\ e.receipt.command \in s.commands /\ e.receipt.command \notin DOMAIN s.receipts
           /\ e.receipt.id \in s.receiptIds
  BY <1>1, <1>4, FindAlike DEF RecordReceipt
<1>5. CASE /\ e.receipt.command \in s.commands /\ e.receipt.command \notin DOMAIN s.receipts
           /\ e.receipt.id \notin s.receiptIds
  <2>1. PICK u, v : u = RecordReceipt(s, e) /\ v = RecordReceipt(t, e)
    OBVIOUS
  <2>2. /\ u = [s EXCEPT !.receipts = Put(@, e.receipt.command, e.receipt),
                         !.receiptIds = @ \cup {e.receipt.id}]
        /\ v = [t EXCEPT !.receipts = Put(@, e.receipt.command, e.receipt),
                         !.receiptIds = @ \cup {e.receipt.id}]
    BY <1>1, <1>5, <2>1 DEF RecordReceipt
  <2>3. /\ DOMAIN u = Fields /\ DOMAIN v = Fields
        /\ u.receipts = v.receipts /\ u.receiptIds = v.receiptIds
        /\ \A f \in Fields \ {"receipts", "receiptIds"} : u[f] = s[f] /\ v[f] = t[f]
    BY <1>1, <2>2 DEF Fields
  <2>4. Alike(u, v, doc, contract, policies, fallback)
    BY <2>3 DEF Alike, Fields
  <2> QED
    BY <2>1, <2>4
<1> QED
  BY <1>2, <1>3, <1>4, <1>5

\* An evaluation finds the evidence it refers to under the policy of its checkpoint, so v0alpha2
\* has no mismatch to report.
LEMMA EvaluationAlike ==
    ASSUME NEW s, NEW t, NEW doc, NEW contract, NEW policies, NEW fallback,
           Binds(doc, contract, policies, fallback),
           Alike(s, t, doc, contract, policies, fallback),
           NEW i \in DOMAIN doc, NEW e, e = doc[i], e.type = "checkpoint.evaluated"
    PROVE  Alike(EvaluateCheckpoint(Old(contract), s, e),
                 EvaluateCheckpoint(New(contract, policies), t, e),
                 doc, contract, policies, fallback)
<1>1. PICK a, b, c, u, v : /\ a = Old(contract) /\ b = New(contract, policies)
                           /\ c = e.checkpoint
                           /\ u = EvaluateCheckpoint(a, s, e) /\ v = EvaluateCheckpoint(b, t, e)
  OBVIOUS
<1>2. /\ c \in DOMAIN contract /\ a.contract = contract /\ a.version = "v0alpha1"
      /\ DOMAIN b.contract = DOMAIN contract /\ b.version = "v0alpha2"
      /\ b.contract[c].emits = contract[c].emits /\ b.contract[c].policy = policies[c]
  BY <1>1, MigratedRules DEF Binds, BindsCheckpoints, Old
<1>3. /\ DOMAIN s = Fields /\ DOMAIN t = Fields /\ DOMAIN s.evidence = DOMAIN t.evidence
      /\ DOMAIN s.checkpoints = DOMAIN contract /\ DOMAIN t.checkpoints = DOMAIN contract
      /\ s.commands = t.commands /\ s.findings = t.findings
      /\ Finalized(s, c) <=> Finalized(t, c)
  BY <1>2 DEF Alike, Fields, Finalized, SameDecision
<1>4. CASE Finalized(s, c)
  <2>1. /\ u = Find(s, "timeline.checkpoint.finalized", e, c)
        /\ v = Find(t, "timeline.checkpoint.finalized", e, c)
    BY <1>1, <1>2, <1>3, <1>4 DEF EvaluateCheckpoint
  <2>2. Alike(u, v, doc, contract, policies, fallback)
    BY <2>1, FindAlike
  <2> QED
    BY <1>1, <2>2
<1>5. PICK f : f = RefFindings(a, s, e)
  OBVIOUS
<1>6. RefFindings(b, t, e) = f
  <2>1. ASSUME NEW id \in Range(e.refs), Known(s, id)
        PROVE  ~Mismatched(a, s, e, id) /\ ~Mismatched(b, t, e, id)
    <3>1. t.evidence[id].policy = EvidencePolicy(doc, policies, fallback, id)
      BY <2>1 DEF Alike, Known
    <3>2. EvidencePolicy(doc, policies, fallback, id) = policies[c]
      BY <1>1, ReferredPolicy
    <3> QED
      BY <1>1, <1>2, <3>1, <3>2 DEF Mismatched
  <2> QED
    BY <1>3, <1>5, <2>1, SameRefFindings
<1>7. CASE ~Finalized(s, c) /\ f # <<>>
  <2>1. /\ u = [s EXCEPT !.findings = @ \o f]
        /\ v = [t EXCEPT !.findings = @ \o f]
    BY <1>1, <1>2, <1>3, <1>5, <1>6, <1>7 DEF EvaluateCheckpoint
  <2>2. /\ DOMAIN u = Fields /\ DOMAIN v = Fields /\ u.findings = v.findings
        /\ \A k \in Fields \ {"findings"} : u[k] = s[k] /\ v[k] = t[k]
    BY <1>3, <2>1 DEF Fields
  <2>3. Alike(u, v, doc, contract, policies, fallback)
    BY <2>2 DEF Alike, Fields
  <2> QED
    BY <1>1, <2>3
<1>8. CASE ~Finalized(s, c) /\ f = <<>>
  <2>1. PICK d, m : d = Decide(a, s, e) /\ m = Decide(b, t, e)
    OBVIOUS
  <2>2. e.refs \in Seq(EvidenceIds)
    BY DEF Binds, Event
  <2>3. \A id \in Range(e.refs) : Known(s, id)
    BY <1>5, <1>8, <2>2, RefFindingsExact DEF Admissible
  <2>4. SameDecision(d, m) /\ d.status = m.status
    BY <1>1, <2>1, <2>3, SameDecide DEF SameDecision
  <2>5. PICK k : k = IF d.status = "accepted" /\ contract[c].emits
                     THEN s.commands \cup {Command(e)} ELSE s.commands
    OBVIOUS
  <2>6. /\ u = [s EXCEPT !.checkpoints[c] = d, !.commands = k]
        /\ v = [t EXCEPT !.checkpoints[c] = m, !.commands = k]
    BY <1>1, <1>2, <1>3, <1>5, <1>6, <1>8, <2>1, <2>4, <2>5 DEF EvaluateCheckpoint
  <2>7. /\ DOMAIN u = Fields /\ DOMAIN v = Fields /\ u.commands = v.commands
        /\ u.checkpoints = [s.checkpoints EXCEPT ![c] = d]
        /\ v.checkpoints = [t.checkpoints EXCEPT ![c] = m]
        /\ \A x \in Fields \ {"checkpoints", "commands"} : u[x] = s[x] /\ v[x] = t[x]
    BY <1>3, <2>6 DEF Fields
  <2>8. /\ DOMAIN u.checkpoints = DOMAIN contract /\ DOMAIN v.checkpoints = DOMAIN contract
        /\ \A x \in DOMAIN contract : SameDecision(u.checkpoints[x], v.checkpoints[x])
    BY <1>2, <1>3, <2>4, <2>7 DEF Alike
  <2>9. Alike(u, v, doc, contract, policies, fallback)
    BY <2>7, <2>8 DEF Alike, Fields
  <2> QED
    BY <1>1, <2>9
<1> QED
  BY <1>4, <1>7, <1>8

\* Any event.
LEMMA ApplyAlike ==
    ASSUME NEW s, NEW t, NEW doc, NEW contract, NEW policies, NEW fallback,
           Binds(doc, contract, policies, fallback),
           Alike(s, t, doc, contract, policies, fallback), NEW i \in DOMAIN doc
    PROVE  Alike(ApplyEvent(Old(contract), s, doc[i]),
                 ApplyEvent(New(contract, policies), t,
                            MigrateEvent(doc, policies, fallback, doc[i])),
                 doc, contract, policies, fallback)
<1>1. PICK a, b, e, m : /\ a = Old(contract) /\ b = New(contract, policies) /\ e = doc[i]
                        /\ m = MigrateEvent(doc, policies, fallback, e)
  OBVIOUS
<1>2. e \in Event
  BY <1>1 DEF Binds
<1>3. e.type \in {"evidence.recorded", "checkpoint.evaluated", "receipt.recorded"}
  BY <1>2 DEF Event
<1>4. e.type # "evidence.recorded" => m = e
  BY <1>1 DEF MigrateEvent
<1>5. CASE e.type = "evidence.recorded"
  <2>1. PICK policy : policy = EvidencePolicy(doc, policies, fallback, e.evidence.id)
    OBVIOUS
  <2>2. m = [e EXCEPT !.evidence.policy = policy]
    BY <1>1, <1>5, <2>1 DEF MigrateEvent
  <2>3. e \in [id : Nat, sequence : Nat, type : {"evidence.recorded"}, evidence : Evidence]
    BY <1>2, <1>5 DEF Event
  <2>4. e.evidence \in EvidenceRecord
    BY <2>3, ReducerConstants
  <2>5. /\ m.id = e.id /\ m.sequence = e.sequence /\ m.type = e.type
        /\ m.evidence = [e.evidence EXCEPT !.policy = policy]
    BY <2>2, <2>3
  <2>6. /\ m.evidence.id = e.evidence.id /\ m.evidence.claims = e.evidence.claims
        /\ m.evidence.policy = policy
    BY <2>4, <2>5 DEF EvidenceRecord
  <2>7. PICK u, v : u = Counted(s, e) /\ v = Counted(t, m)
    OBVIOUS
  <2>8. Alike(u, v, doc, contract, policies, fallback)
    BY <2>5, <2>7, CountedAlike
  <2>9. /\ ApplyEvent(a, s, e) = IF e.id \in DOMAIN s.eventIds
                                 THEN Find(u, "timeline.event.duplicate", e, e.id)
                                 ELSE RecordEvidence(u, e)
        /\ ApplyEvent(b, t, m) = IF m.id \in DOMAIN t.eventIds
                                 THEN Find(v, "timeline.event.duplicate", m, m.id)
                                 ELSE RecordEvidence(v, m)
    BY <1>5, <2>5, <2>7 DEF ApplyEvent, Counted
  <2>10. s.eventIds = t.eventIds
    BY DEF Alike, Fields
  <2>11. Alike(Find(u, "timeline.event.duplicate", e, e.id),
               Find(v, "timeline.event.duplicate", m, m.id), doc, contract, policies, fallback)
    BY <2>5, <2>8, FindAlike
  <2>12. Alike(RecordEvidence(u, e), RecordEvidence(v, m), doc, contract, policies, fallback)
    BY <2>1, <2>5, <2>6, <2>8, EvidenceAlike
  <2>13. Alike(ApplyEvent(a, s, e), ApplyEvent(b, t, m), doc, contract, policies, fallback)
    BY <2>5, <2>9, <2>10, <2>11, <2>12
  <2> QED
    BY <1>1, <2>13
<1>6. CASE e.type # "evidence.recorded"
  <2>1. PICK u, v : u = Counted(s, e) /\ v = Counted(t, e)
    OBVIOUS
  <2>2. Alike(u, v, doc, contract, policies, fallback)
    BY <2>1, CountedAlike
  <2>3. s.eventIds = t.eventIds
    BY DEF Alike, Fields
  <2>4. CASE e.id \in DOMAIN s.eventIds
    <3>1. /\ ApplyEvent(a, s, e) = Find(u, "timeline.event.duplicate", e, e.id)
          /\ ApplyEvent(b, t, e) = Find(v, "timeline.event.duplicate", e, e.id)
      BY <2>1, <2>3, <2>4 DEF ApplyEvent, Counted
    <3>2. Alike(ApplyEvent(a, s, e), ApplyEvent(b, t, e), doc, contract, policies, fallback)
      BY <2>2, <3>1, FindAlike
    <3> QED
      BY <1>1, <1>4, <1>6, <3>2
  <2>5. CASE e.id \notin DOMAIN s.eventIds /\ e.type = "checkpoint.evaluated"
    <3>1. /\ ApplyEvent(a, s, e) = EvaluateCheckpoint(a, u, e)
          /\ ApplyEvent(b, t, e) = EvaluateCheckpoint(b, v, e)
      BY <2>1, <2>3, <2>5 DEF ApplyEvent, Counted
    <3>2. Alike(EvaluateCheckpoint(a, u, e), EvaluateCheckpoint(b, v, e),
                doc, contract, policies, fallback)
      BY <1>1, <2>2, <2>5, EvaluationAlike
    <3> QED
      BY <1>1, <1>4, <1>6, <3>1, <3>2
  <2>6. CASE e.id \notin DOMAIN s.eventIds /\ e.type = "receipt.recorded"
    <3>1. /\ ApplyEvent(a, s, e) = RecordReceipt(u, e)
          /\ ApplyEvent(b, t, e) = RecordReceipt(v, e)
      BY <2>1, <2>3, <2>6 DEF ApplyEvent, Counted
    <3>2. Alike(RecordReceipt(u, e), RecordReceipt(v, e), doc, contract, policies, fallback)
      BY <2>2, ReceiptAlike
    <3> QED
      BY <1>1, <1>4, <1>6, <3>1, <3>2
  <2> QED
    BY <1>3, <1>6, <2>4, <2>5, <2>6
<1> QED
  BY <1>5, <1>6

LEMMA CreatedAlike ==
    ASSUME NEW doc, NEW contract \in Contracts, NEW policies \in [DOMAIN contract -> Policies],
           NEW fallback
    PROVE  Alike(CreateRun(contract), CreateRun(New(contract, policies).contract),
                 doc, contract, policies, fallback)
<1>1. DOMAIN New(contract, policies).contract = DOMAIN contract
  BY MigratedRules
<1>2. PICK s : s = CreateRun(contract)
  OBVIOUS
<1>3. CreateRun(New(contract, policies).contract) = s
  BY <1>1, <1>2 DEF CreateRun
<1>4. /\ DOMAIN s = Fields /\ DOMAIN s.evidence = {} /\ DOMAIN s.checkpoints = DOMAIN contract
      /\ \A c \in DOMAIN contract : s.checkpoints[c] = Undecided
  BY <1>2 DEF CreateRun, Fields
<1>5. SameDecision(Undecided, Undecided)
  BY DEF SameDecision, Undecided
<1>6. Alike(s, s, doc, contract, policies, fallback)
  BY <1>4, <1>5 DEF Alike
<1> QED
  BY <1>2, <1>3, <1>6

\* The whole document, by induction over its events.
LEMMA ReplaysAlike ==
    ASSUME NEW doc, NEW contract, NEW policies, NEW fallback,
           Binds(doc, contract, policies, fallback)
    PROVE  Alike(Replay(Old(contract), doc),
                 Replay(New(contract, policies), Migrated(doc, policies, fallback)),
                 doc, contract, policies, fallback)
<1>1. PICK a, b, n, migrated :
         /\ a = Old(contract) /\ b = New(contract, policies) /\ n = Len(doc)
         /\ migrated = Migrated(doc, policies, fallback)
  OBVIOUS
<1>2. /\ n \in Nat /\ DOMAIN doc = 1 .. n /\ contract \in Contracts
      /\ policies \in [DOMAIN contract -> Policies] /\ a.contract = contract
  BY <1>1 DEF Binds, Old
<1>3. /\ \A i \in 1 .. n : migrated[i] = MigrateEvent(doc, policies, fallback, doc[i])
      /\ Len(migrated) = n
  BY <1>1, <1>2 DEF Migrated
<1>4. PICK h : States(h, a, doc) /\ Replay(a, doc) = h[n]
  BY <1>1, <1>2, ReplayStates
<1>5. PICK g : States(g, b, migrated) /\ Replay(b, migrated) = g[n]
  BY <1>2, <1>3, ReplayStates
<1> DEFINE T == {i \in 0 .. n : Alike(h[i], g[i], doc, contract, policies, fallback)}
<1>6. 0 \in T
  <2>1. Alike(CreateRun(contract), CreateRun(b.contract), doc, contract, policies, fallback)
    BY <1>1, <1>2, CreatedAlike
  <2>2. h[0] = CreateRun(contract) /\ g[0] = CreateRun(b.contract)
    BY <1>2, <1>4, <1>5 DEF States
  <2> QED
    BY <1>2, <2>1, <2>2
<1>7. ASSUME NEW i \in 1 .. n, i - 1 \in T
      PROVE  i \in T
  <2>1. PICK s, t : s = h[i - 1] /\ t = g[i - 1]
    OBVIOUS
  <2>2. h[i] = ApplyEvent(a, s, doc[i])
    BY <1>1, <1>4, <2>1 DEF States
  <2>3. g[i] = ApplyEvent(b, t, MigrateEvent(doc, policies, fallback, doc[i]))
    BY <1>3, <1>5, <2>1 DEF States
  <2>4. Alike(s, t, doc, contract, policies, fallback) /\ i \in DOMAIN doc /\ i \in 0 .. n
    BY <1>2, <1>7, <2>1
  <2>5. Alike(h[i], g[i], doc, contract, policies, fallback)
    BY <1>1, <2>2, <2>3, <2>4, ApplyAlike
  <2> QED
    BY <2>4, <2>5
<1>8. n \in T
  <2> HIDE DEF T
  <2>1. 0 .. n \subseteq T
    BY <1>2, <1>6, <1>7, UpTo
  <2> QED
    BY <1>2, <2>1
<1> QED
  BY <1>1, <1>4, <1>5, <1>8

\* A v0alpha1 document that migrates replays to the same decisions, commands, receipts and
\* findings (migrateRunV0Alpha1ToV0Alpha2), for any document, contract and choice of policies.
THEOREM MigrationIsFaithful == Spec => []MigrationKeepsHistory
<1>1. Init => RunIsReplay
  BY ReplayInit
<1>2. TypeOK /\ RunIsReplay /\ [Next]_vars => RunIsReplay'
  BY ReplayNext
<1>3. TypeOK /\ RunIsReplay => MigrationKeepsHistory
  <2>1. SUFFICES ASSUME TypeOK, RunIsReplay, bound.version = "v0alpha1",
                        NEW policies \in [DOMAIN bound.contract -> Policies],
                        NEW fallback \in Policies \cup {NoPolicy},
                        BindsCheckpoints(log, policies), BindsEvidence(log, policies, fallback)
                 PROVE  SameHistory(run, Replay([version |-> "v0alpha2",
                                            contract |-> MigratedContract(bound.contract, policies)],
                                           Migrated(log, policies, fallback)))
    BY DEF MigrationKeepsHistory
  <2>2. PICK doc, contract, s, t :
           /\ doc = log /\ contract = bound.contract /\ s = run
           /\ t = Replay(New(contract, policies), Migrated(doc, policies, fallback))
    OBVIOUS
  <2>3. bound = Old(contract)
    BY <2>1, <2>2 DEF TypeOK, Old
  <2>4. Binds(doc, contract, policies, fallback)
    BY <2>1, <2>2 DEF Binds, TypeOK
  <2>5. s = Replay(Old(contract), doc)
    BY <2>1, <2>2, <2>3 DEF RunIsReplay
  <2>6. Alike(s, t, doc, contract, policies, fallback)
    BY <2>2, <2>4, <2>5, ReplaysAlike
  <2>7. SameHistory(s, t)
    BY <2>6 DEF Alike, SameHistory, Fields
  <2> QED
    BY <2>2, <2>7 DEF New
<1> QED
  BY <1>1, <1>2, <1>3, RunTyped, PTL DEF Spec

============================================================================
