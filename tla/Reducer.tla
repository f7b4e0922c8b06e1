------------------------------ MODULE Reducer ------------------------------
(***************************************************************************)
(* The checkpoint reducers: run.ts (v0alpha1) and v0alpha2/run.ts.         *)
(*                                                                         *)
(* A run is a contract and a stream of events. Its state holds evidence,   *)
(* a decision for each checkpoint, the commands of accepted checkpoints,   *)
(* the receipts that answer them, and findings. A host reduces one event   *)
(* at a time from the state it has and keeps the event; another host       *)
(* replays the events.                                                     *)
(*                                                                         *)
(* The two versions differ in where the policy of a decision comes from:   *)
(* v0alpha1 takes the label in the event, v0alpha2 the binding in the      *)
(* contract, which the evidence must repeat.                               *)
(***************************************************************************)
EXTENDS Integers, SequencesExt

CONSTANTS
    Checkpoints,    \* checkpoint IDs an evaluation may name
    Claims,         \* claims
    Policies,       \* policy bindings: a reference (ref) and the digest of what it names
    EvidenceIds,    \* evidence IDs an evaluation may name
    ReceiptIds,     \* receipt IDs
    Contracts,      \* contracts a caller may pass
    Evidence,       \* evidence a caller may record
    Evaluations,    \* evaluations a caller may ask for
    Inherited,      \* evidence IDs that every JavaScript object has: "constructor"
    Versions,       \* versions of the reducer
    MaxEvents,      \* bound: events of a stream, at most the limit maxEvents of replay
    MaxRepeats      \* bound: events of a stream that repeat an ID

ReceiptStatus == {"succeeded", "failed", "indeterminate"}

\* What a contract says of one checkpoint.
Rule == [requirements : SUBSET Claims, policy : Policies, emits : BOOLEAN]

EvidenceRecord == [id : EvidenceIds, claims : SUBSET Claims, policy : Policies]

Evaluation ==
    [checkpoint : Checkpoints, refs : Seq(EvidenceIds), policyRef : {p.ref : p \in Policies}]

ASSUME ReducerConstants ==
    /\ Checkpoints # {}
    /\ \A c \in Contracts : \E used \in SUBSET Checkpoints : c \in [used -> Rule]
    /\ \A p \in Policies : "ref" \in DOMAIN p
    /\ Evidence \subseteq EvidenceRecord
    /\ Evaluations \subseteq Evaluation
    /\ Inherited \subseteq EvidenceIds
    /\ Versions \subseteq {"v0alpha1", "v0alpha2"}
    /\ MaxEvents \in Nat
    /\ MaxRepeats \in Nat

VARIABLES
    bound,       \* the version and the contract the state is bound to (StateMetadata)
    run,         \* the state the host holds
    log          \* the events accepted so far

vars == <<bound, run, log>>

----------------------------------------------------------------------------
(* State                                                                   *)

Undecided == [status |-> "pending"]

\* createRun
CreateRun(contract) ==
    [nextSequence |-> 0,
     eventIds |-> <<>>,
     checkpoints |-> [c \in DOMAIN contract |-> Undecided],
     evidence |-> <<>>,
     commands |-> {},
     receipts |-> <<>>,
     receiptIds |-> {},
     findings |-> <<>>]

\* object[key] = value
Put(object, key, value) ==
    [k \in DOMAIN object \cup {key} |-> IF k = key THEN value ELSE object[k]]

\* Mutation of CloneState: the index of receipt IDs is not copied.
CloneWithoutReceiptIds(s) == [s EXCEPT !.receiptIds = {}]

\* reduceRun works on a copy.
CloneState(s) == s

Find(s, code, e, detail) ==
    [s EXCEPT !.findings = Append(@, [code |-> code, event |-> e.id, detail |-> detail])]

----------------------------------------------------------------------------
(* applyEvent. An event is an ID, a sequence and a body of one of three types. *)

RecordEvidence(s, e) ==
    IF e.evidence.id \in DOMAIN s.evidence
    THEN Find(s, "timeline.evidence.duplicate", e, e.evidence.id)
    ELSE [s EXCEPT !.evidence = Put(@, e.evidence.id, e.evidence)]

Known(s, id) == id \in DOMAIN s.evidence

\* Mutation of Mismatched: the policies are not compared.
NeverMismatched(b, s, e, id) == FALSE

\* v0alpha2: the evidence was admitted under another policy than the checkpoint's.
Mismatched(b, s, e, id) ==
    /\ b.version = "v0alpha2"
    /\ s.evidence[id].policy # b.contract[e.checkpoint].policy

\* The findings on the references of an evaluation, in order.
RefFindings(b, s, e) ==
    LET bad == {i \in DOMAIN e.refs : ~Known(s, e.refs[i]) \/ Mismatched(b, s, e, e.refs[i])}
        nth(n) == e.refs[CHOOSE i \in bad : Cardinality({j \in bad : j <= i}) = n]
        finding(id) ==
            [code |-> IF Known(s, id) THEN "timeline.evidence.policy_mismatch"
                      ELSE "timeline.evidence.unknown",
             event |-> e.id, detail |-> id]
    IN [n \in 1 .. Cardinality(bad) |-> finding(nth(n))]

Decide(b, s, e) ==
    LET claims == UNION {s.evidence[id].claims : id \in Range(e.refs)}
        missing == b.contract[e.checkpoint].requirements \ claims
    IN [status |-> IF missing = {} THEN "accepted" ELSE "rejected",
        policy |-> IF b.version = "v0alpha2" THEN b.contract[e.checkpoint].policy
                   ELSE e.policyRef,
        refs |-> e.refs,
        missing |-> missing]

Finalized(s, c) == s.checkpoints[c].status = "accepted"

\* A command ID is made of the run, the checkpoint and the sequence of the evaluation.
Command(e) == <<e.checkpoint, e.sequence>>

EvaluateCheckpoint(b, s, e) ==
    LET d == Decide(b, s, e)
    IN IF e.checkpoint \notin DOMAIN b.contract
       THEN Find(s, "timeline.checkpoint.unknown", e, e.checkpoint)
       ELSE IF Finalized(s, e.checkpoint)
       THEN Find(s, "timeline.checkpoint.finalized", e, e.checkpoint)
       ELSE IF RefFindings(b, s, e) # <<>>
       THEN [s EXCEPT !.findings = @ \o RefFindings(b, s, e)]
       ELSE [s EXCEPT !.checkpoints[e.checkpoint] = d,
                      !.commands = IF d.status = "accepted" /\ b.contract[e.checkpoint].emits
                                   THEN @ \cup {Command(e)} ELSE @]

RecordReceipt(s, e) ==
    IF e.receipt.command \notin s.commands
    THEN Find(s, "timeline.command.unknown", e, e.receipt.command)
    ELSE IF e.receipt.command \in DOMAIN s.receipts
    THEN Find(s, "timeline.receipt.duplicate", e, e.receipt.command)
    ELSE IF e.receipt.id \in s.receiptIds
    THEN Find(s, "timeline.receipt.id_duplicate", e, e.receipt.id)
    ELSE [s EXCEPT !.receipts = Put(@, e.receipt.command, e.receipt),
                   !.receiptIds = @ \cup {e.receipt.id}]

\* applyEvent, for an event whose sequence is the next one.
ApplyEvent(b, s, e) ==
    LET t == [s EXCEPT !.nextSequence = @ + 1, !.eventIds = Put(@, e.id, e.sequence)]
    IN IF e.id \in DOMAIN s.eventIds
       THEN Find(t, "timeline.event.duplicate", e, e.id)
       ELSE IF e.type = "evidence.recorded" THEN RecordEvidence(t, e)
       ELSE IF e.type = "checkpoint.evaluated" THEN EvaluateCheckpoint(b, t, e)
       ELSE RecordReceipt(t, e)

\* v0alpha2 asks `state.evidence[id]` without hasOwn: an ID that the object inherits and the
\* run has not recorded is taken for evidence, and reading its authority throws.
Throws(b, s, e) ==
    /\ b.version = "v0alpha2"
    /\ e.type = "checkpoint.evaluated"
    /\ e.id \notin DOMAIN s.eventIds
    /\ e.checkpoint \in DOMAIN b.contract
    /\ ~Finalized(s, e.checkpoint)
    /\ \E id \in Range(e.refs) : id \in Inherited /\ ~Known(s, id)

\* replay: one accumulator over the whole stream.
Replay(b, events) ==
    LET state[i \in 0 .. Len(events)] ==
            IF i = 0 THEN CreateRun(b.contract) ELSE ApplyEvent(b, state[i - 1], events[i])
    IN state[Len(events)]

----------------------------------------------------------------------------
(* verifyRun                                                               *)

\* Mutation of Succeeded: any receipt resolves a command.
Answered(s, command) == command \in DOMAIN s.receipts

Succeeded(s, command) ==
    command \in DOMAIN s.receipts /\ s.receipts[command].status = "succeeded"

VerifyRun(s) ==
    /\ \A c \in DOMAIN s.checkpoints : s.checkpoints[c].status = "accepted"
    /\ \A command \in s.commands : Succeeded(s, command)
    /\ s.findings = <<>>

----------------------------------------------------------------------------
(* The host                                                                *)

Init ==
    /\ \E v \in Versions, c \in Contracts : bound = [version |-> v, contract |-> c]
    /\ run = CreateRun(bound.contract)
    /\ log = <<>>

Repeats == Len(log) - Cardinality({log[i].id : i \in DOMAIN log})

\* IDs a caller may give the next event: one in use, or a new one, named for its place.
NextIds ==
    {run.nextSequence} \cup (IF Repeats < MaxRepeats THEN {log[i].id : i \in DOMAIN log} ELSE {})

\* assertContract
SameContract(c) == c = bound.contract

\* reduceRun(c, run, e), e.sequence being the next one: the host keeps the new state and the
\* event. A call that throws changes nothing: another contract, another sequence, or Throws.
Reduce(c, e) ==
    LET b == [bound EXCEPT !.contract = c]
        next == ApplyEvent(b, CloneState(run), e)
    IN /\ SameContract(c)
       /\ Len(log) < MaxEvents
       /\ ~Throws(b, run, e)
       /\ run' = next
       /\ log' = Append(log, e)
       /\ UNCHANGED bound

ReduceEvidence ==
    \E c \in Contracts, id \in NextIds, v \in Evidence :
        Reduce(c, [id |-> id, sequence |-> run.nextSequence, type |-> "evidence.recorded",
                   evidence |-> v])

Evaluate(id, v) ==
    [id |-> id, sequence |-> run.nextSequence, type |-> "checkpoint.evaluated",
     checkpoint |-> v.checkpoint, refs |-> v.refs, policyRef |-> v.policyRef]

ReduceEvaluation ==
    \E c \in Contracts, id \in NextIds, v \in Evaluations : Reduce(c, Evaluate(id, v))

\* Receipts name a command of the run, or one that does not exist.
NamedCommands == run.commands \cup {<<CHOOSE c \in Checkpoints : TRUE, MaxEvents>>}

ReduceReceipt ==
    \E c \in Contracts, id \in NextIds, r \in ReceiptIds, k \in NamedCommands,
       status \in ReceiptStatus :
        Reduce(c, [id |-> id, sequence |-> run.nextSequence, type |-> "receipt.recorded",
                   receipt |-> [id |-> r, command |-> k, status |-> status]])

Next == ReduceEvidence \/ ReduceEvaluation \/ ReduceReceipt

Spec == Init /\ [][Next]_vars

----------------------------------------------------------------------------
(* Properties                                                              *)

Decided ==
    [status : {"accepted", "rejected"}, policy : Policies \cup {p.ref : p \in Policies},
     refs : Seq(EvidenceIds), missing : SUBSET Claims]

Receipt ==
    [id : ReceiptIds, command : Checkpoints \X Nat, status : ReceiptStatus]

Event ==
    [id : Nat, sequence : Nat, type : {"evidence.recorded"}, evidence : Evidence]
        \cup [id : Nat, sequence : Nat, type : {"checkpoint.evaluated"},
              checkpoint : Checkpoints, refs : Seq(EvidenceIds),
              policyRef : {p.ref : p \in Policies}]
        \cup [id : Nat, sequence : Nat, type : {"receipt.recorded"}, receipt : Receipt]

TypeOK ==
    /\ bound \in [version : Versions, contract : Contracts]
    /\ log \in Seq(Event)
    /\ DOMAIN run = DOMAIN CreateRun(bound.contract)
    /\ run.nextSequence = Len(log)
    /\ DOMAIN run.eventIds = {log[i].id : i \in DOMAIN log}
    /\ DOMAIN run.checkpoints = DOMAIN bound.contract
    /\ \A c \in DOMAIN run.checkpoints : run.checkpoints[c] \in Decided \cup {Undecided}
    /\ \A id \in DOMAIN run.evidence :
          run.evidence[id] \in EvidenceRecord /\ run.evidence[id].id = id
    /\ run.commands \subseteq Checkpoints \X Nat
    /\ \A k \in DOMAIN run.receipts : run.receipts[k] \in Receipt
    /\ run.receiptIds \subseteq ReceiptIds

\* The definitions up to StateMatchesLog say what the stream means, without a state.

Fresh(i) == \A j \in 1 .. i - 1 : log[j].id # log[i].id

\* The events before i that record evidence under an ID: the first one counts.
RecordedBefore(i, id) ==
    {j \in 1 .. i - 1 : Fresh(j) /\ log[j].type = "evidence.recorded" /\ log[j].evidence.id = id}

EvidenceBefore(i, id) == log[Min(RecordedBefore(i, id))].evidence

\* Event i evaluates checkpoint c on evidence that is there and is admissible.
Sound(i, c) ==
    /\ Fresh(i)
    /\ log[i].type = "checkpoint.evaluated"
    /\ log[i].checkpoint = c
    /\ \A id \in Range(log[i].refs) :
          /\ RecordedBefore(i, id) # {}
          /\ bound.version = "v0alpha2" =>
                EvidenceBefore(i, id).policy = bound.contract[c].policy

Covering(i, c) ==
    /\ Sound(i, c)
    /\ \A claim \in bound.contract[c].requirements :
          \E id \in Range(log[i].refs) : claim \in EvidenceBefore(i, id).claims

\* The first evaluation that covers the requirements decides for good; until then the last
\* sound one does. A command is emitted by the first covering evaluation and by nothing else.
StateMatchesLog ==
    \A c \in DOMAIN bound.contract :
        LET sound == {i \in DOMAIN log : Sound(i, c)}
            covering == {i \in DOMAIN log : Covering(i, c)}
            decision == run.checkpoints[c]
            commands == {k \in run.commands : k[1] = c}
        IN IF covering # {}
           THEN /\ decision.status = "accepted"
                /\ decision.refs = log[Min(covering)].refs
                /\ commands = IF bound.contract[c].emits THEN {<<c, Min(covering) - 1>>} ELSE {}
           ELSE /\ commands = {}
                /\ IF sound = {} THEN decision = Undecided
                   ELSE decision.status = "rejected" /\ decision.refs = log[Max(sound)].refs

\* A checkpoint has at most one command in a run, however often it is evaluated, and has it
\* exactly when it is accepted and its contract emits one.
CommandsOnce ==
    /\ \A k, l \in run.commands : k[1] = l[1] => k = l
    /\ \A c \in DOMAIN bound.contract :
          (\E k \in run.commands : k[1] = c)
              <=> run.checkpoints[c].status = "accepted" /\ bound.contract[c].emits

\* Receipts and commands are joined one to one: a receipt answers a command that an earlier
\* event emitted, and no receipt ID answers two commands.
ReceiptsJoin ==
    /\ \A k \in DOMAIN run.receipts :
          /\ k \in run.commands
          /\ \E i \in DOMAIN log :
                /\ Fresh(i) /\ i - 1 > k[2]
                /\ log[i].type = "receipt.recorded"
                /\ log[i].receipt = run.receipts[k] /\ log[i].receipt.command = k
    /\ \A k, l \in DOMAIN run.receipts : run.receipts[k].id = run.receipts[l].id => k = l

\* Event i did what it says, and no other event was turned away in its favour.
Effective(i) ==
    /\ Fresh(i)
    /\ CASE log[i].type = "evidence.recorded" -> RecordedBefore(i, log[i].evidence.id) = {}
         [] log[i].type = "checkpoint.evaluated" ->
                /\ log[i].checkpoint \in DOMAIN bound.contract
                /\ Sound(i, log[i].checkpoint)
                /\ \A j \in 1 .. i - 1 : ~Covering(j, log[i].checkpoint)
         [] log[i].type = "receipt.recorded" ->
                \A j \in DOMAIN log :
                    j # i /\ log[j].type = "receipt.recorded" =>
                        /\ log[j].receipt.command # log[i].receipt.command
                        /\ log[j].receipt.id # log[i].receipt.id

\* A run verifies only if each event had its effect, each checkpoint was covered, and each
\* command has a receipt that says it succeeded.
OkMeansClean ==
    VerifyRun(run) =>
        /\ \A i \in DOMAIN log : Effective(i)
        /\ \A c \in DOMAIN bound.contract : \E i \in DOMAIN log :
              /\ Covering(i, c)
              /\ bound.contract[c].emits =>
                    \E j \in i + 1 .. Len(log) :
                        /\ log[j].type = "receipt.recorded"
                        /\ log[j].receipt.command = <<c, i - 1>>
                        /\ log[j].receipt.status = "succeeded"

============================================================================
