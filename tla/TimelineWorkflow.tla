-------------------------- MODULE TimelineWorkflow --------------------------
(***************************************************************************)
(* timelineWorkflow of packages/temporal-adapter/src/workflows.ts and its  *)
(* activity: a Temporal workflow that collects events from signals until   *)
(* it is finalized, then evaluates them.                                   *)
(*                                                                         *)
(* Temporal itself is external, modelled from how the workflow uses it: it *)
(* records signals in a history, delivers a batch of them in one           *)
(* activation before the workflow's code resumes, rebuilds the workflow    *)
(* from its history after a worker restart (no state is lost), repeats an  *)
(* activity until it answers, and does not let a workflow complete while   *)
(* signals wait.  A handler that throws fails the activation for good, as  *)
(* the same history is delivered again.                                    *)
(***************************************************************************)
EXTENDS Naturals, Sequences, FiniteSets

CONSTANTS
    SignalClients,  \* who signals
    InitialEvents,  \* events of the document the workflow starts with
    MaxSignals,     \* bound on the history
    NoReport

ASSUME WorkflowConstants == InitialEvents \in Nat /\ MaxSignals \in Nat

VARIABLES
    history,    \* the signals in the order Temporal recorded them
    delivered,  \* how many of them the workflow has handled
    flow,       \* the workflow's status, events and finalized flag
    report,     \* the events that the returned report is about
    count       \* what each client takes for the number of events

workflowVars == <<history, delivered, flow, report, count>>

WorkflowInit ==
    /\ history = <<>>
    /\ delivered = 0
    /\ flow = [status |-> "new", events |-> [i \in 1..InitialEvents |-> i - 1],
               finalized |-> FALSE, threw |-> FALSE, document |-> <<>>]
    /\ report = NoReport
    /\ count = [c \in SignalClients |-> InitialEvents]

AppendSignal(sequence) == [type |-> "append", sequence |-> sequence]
FinalizeSignal == [type |-> "finalize", sequence |-> 0]

-----------------------------------------------------------------------------
\* A client sends its next event, numbered by its own count.
SendAppend(c) ==
    /\ flow.status # "done" /\ Len(history) < MaxSignals
    /\ history' = Append(history, AppendSignal(count[c]))
    /\ count' = [count EXCEPT ![c] = @ + 1]
    /\ UNCHANGED <<delivered, flow, report>>

SendFinalize ==
    /\ flow.status # "done" /\ Len(history) < MaxSignals
    /\ history' = Append(history, FinalizeSignal)
    /\ UNCHANGED <<delivered, flow, report, count>>

\* The query is answered from what the workflow has handled so far.
QueryCount(c) ==
    /\ flow.status \notin {"new", "stuck"}
    /\ count[c] # Len(flow.events)
    /\ count' = [count EXCEPT ![c] = Len(flow.events)]
    /\ UNCHANGED <<history, delivered, flow, report>>

-----------------------------------------------------------------------------
\* Mutation of OnSignal: a finalized run still takes events.
OnSignalAlways(f, s) ==
    IF f.threw THEN f
    ELSE IF s.type = "finalize" THEN [f EXCEPT !.finalized = TRUE]
    ELSE IF s.sequence # Len(f.events) THEN [f EXCEPT !.threw = TRUE]
    ELSE [f EXCEPT !.events = Append(@, s.sequence)]

\* The handlers of the two signals.
OnSignal(f, s) ==
    IF f.threw THEN f
    ELSE IF s.type = "finalize" THEN [f EXCEPT !.finalized = TRUE]
    ELSE IF f.finalized \/ s.sequence # Len(f.events) THEN [f EXCEPT !.threw = TRUE]
    ELSE [f EXCEPT !.events = Append(@, s.sequence)]

\* The signals of some types, handled one after the other.
Handled(f, signals, types) ==
    LET after[i \in 0 .. Len(signals)] ==
            IF i = 0 THEN f
            ELSE IF signals[i].type \in types THEN OnSignal(after[i - 1], signals[i])
            ELSE after[i - 1]
    IN  after[Len(signals)]

InOrder(f, signals) == Handled(f, signals, {"append", "finalize"})

\* Signals that came before the workflow ran are buffered, and may be handed
\* over as each handler is set: appends first, since theirs is set first.
ByHandler(f, signals) == Handled(Handled(f, signals, {"append"}), signals, {"finalize"})

\* Mutation of Continue: the condition is not looked at in the first activation.
ContinueLater(f) ==
    IF f.threw THEN [f EXCEPT !.status = "stuck"]
    ELSE IF f.finalized /\ f.status = "collecting"
         THEN [f EXCEPT !.status = "evaluating", !.document = f.events]
    ELSE IF f.status = "new" THEN [f EXCEPT !.status = "collecting"]
    ELSE f

\* The awaited condition, looked at once the batch is handled: the document
\* handed to the activity is that of this moment.
Continue(f) ==
    IF f.threw THEN [f EXCEPT !.status = "stuck"]
    ELSE IF f.finalized /\ f.status \in {"new", "collecting"}
         THEN [f EXCEPT !.status = "evaluating", !.document = f.events]
    ELSE IF f.status = "new" THEN [f EXCEPT !.status = "collecting"]
    ELSE f

\* One activation: a batch of waiting signals, then the workflow's own code.
Activate ==
    /\ flow.status \in {"new", "collecting", "evaluating"}
    /\ \E n \in delivered..Len(history) :
          LET batch == SubSeq(history, delivered + 1, n) IN
          /\ n > delivered \/ flow.status = "new"
          /\ \/ flow' = Continue(InOrder(flow, batch))
             \/ flow.status = "new" /\ flow' = Continue(ByHandler(flow, batch))
          /\ delivered' = n
    /\ UNCHANGED <<history, report, count>>

\* The activity answers, after any number of lost attempts: it is a pure
\* function of the document.  Waiting signals are handled first.
Evaluated ==
    /\ flow.status = "evaluating"
    /\ LET after == InOrder(flow, SubSeq(history, delivered + 1, Len(history)))
       IN  IF after.threw
           THEN flow' = Continue(after) /\ UNCHANGED report
           ELSE flow' = [after EXCEPT !.status = "done"] /\ report' = flow.document
    /\ delivered' = Len(history)
    /\ UNCHANGED <<history, count>>

WorkflowNext ==
    \/ \E c \in SignalClients : SendAppend(c) \/ QueryCount(c)
    \/ SendFinalize
    \/ Activate
    \/ Evaluated

WorkflowSpec == WorkflowInit /\ [][WorkflowNext]_workflowVars

-----------------------------------------------------------------------------
Appends(signals) == {i \in DOMAIN signals : signals[i].type = "append"}

\* A report leaves out no event that the workflow accepted: the initial events
\* and every appended one, in their order, without a gap.  Signals of the same
\* activation as the finalization, and those that come while the activity
\* runs, are where one could be lost.
ReportIsDelivered ==
    flow.status = "done" =>
        report = [i \in 1..(InitialEvents + Cardinality(Appends(history))) |-> i - 1]

\* A history in which each append carries the next number and none follows a
\* finalization.
Orderly ==
    \A i \in Appends(history) :
        /\ history[i].sequence = InitialEvents + i - 1
        /\ \A j \in 1 .. i - 1 : j \in Appends(history)

\* A finalized run whose clients kept to the order is reported, at the latest when nothing waits
\* for a worker any more.  One signal out of turn is enough to keep it from being reported.
OrderlyRunsReport ==
    /\ delivered = Len(history) /\ flow.status \notin {"new", "evaluating"}
    /\ \E i \in DOMAIN history : history[i].type = "finalize"
    /\ Orderly
    => flow.status = "done"
=============================================================================
