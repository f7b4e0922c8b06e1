---------------------------- MODULE EvalAttempts ----------------------------
(***************************************************************************)
(* The formal attempts of the v2 proposal benchmark: scripts/evaluate-     *)
(* model-proposal-boundary-v2.mjs keeps a ledger of at most two attempts,  *)
(* each prepared, claimed before the first provider request and completed  *)
(* by the gate; scripts/run-model-proposal-boundary-v2.mjs claims one and  *)
(* runs it through the OpenAI adapter.  Operators start these commands     *)
(* concurrently; a command may die or fail at any step.                    *)
(*                                                                         *)
(* An attempt is known by its ordinal.  Its artifact identifier and its    *)
(* start time are those of its claim, represented by the command that made *)
(* it.  Of an observation only the code it is recorded with is kept.       *)
(***************************************************************************)
EXTENDS Integers, Sequences

LOCAL INSTANCE FiniteSets

CONSTANTS
    Operators,          \* commands under way at the same time
    Paths,              \* where results may be written
    Checkouts,          \* states of the checkout
    Frozen,             \* the one the ledger is bound to
    ProviderEvents,     \* what may happen to a request
    RunObservations,    \* requests of a run
    MaxFailures,        \* failures that the thresholds let pass
    MaxCommands,        \* bound: commands started
    MaxCheckouts,       \* bound: changes of the checkout
    None

\* What may happen to a request, as the adapter tells it apart.
Happenings ==
    {"no connection", "status 429", "status 503", "status 401", "other model",
     "body breaks off", "body is not JSON", "refusal", "late", "answer"}

ASSUME AttemptConstants ==
    /\ Frozen \in Checkouts /\ ProviderEvents \subseteq Happenings
    /\ {RunObservations, MaxFailures, MaxCommands, MaxCheckouts} \subseteq Nat

VARIABLES
    ledger,     \* the attempts: the rest of the document follows from them
    locked,     \* whether the lock file exists
    files,      \* files[p]: the results published at p
    checkout,   \* the state of the checkout
    gates,      \* the gate documents written
    command,    \* command[o]: what o is doing
    started,    \* commands started so far
    moves       \* changes of the checkout so far

attemptVars == <<ledger, locked, files, checkout, gates, command, started, moves>>

----------------------------------------------------------------------------
(* The adapter: scripts/openai-responses-model-eval-adapter.mjs            *)

\* invokeOpenAI, parseOpenAIResponse: the code an event is recorded with, or None
\* for an answer.  A body that breaks off does not parse.
Recorded(event) ==
    CASE event = "no connection" -> "provider.transport"
      [] event = "status 429" -> "provider.http-429"
      [] event = "status 503" -> "provider.http-503"
      [] event = "status 401" -> "provider.http-401"
      [] event = "other model" -> "provider.model-revision"
      [] event \in {"body breaks off", "body is not JSON"} -> "provider.invalid-json"
      [] event = "refusal" -> "provider.refusal"
      [] event = "late" -> "adapter.timeout"
      [] event = "answer" -> None

Codes == {Recorded(event) : event \in Happenings}

\* errorScope: the run ends without results.
RunScoped(event) == Recorded(event) \in {"provider.http-401", "provider.model-revision"}

----------------------------------------------------------------------------
(* The gate                                                                *)

Operational(code) ==
    code \in {"provider.transport", "provider.http-429", "provider.http-503"}

FailedOnes(codes) == {i \in DOMAIN codes : codes[i] # None}

\* createModelProposalBoundaryV2Gate
Decision(codes) ==
    IF \E i \in DOMAIN codes : Operational(codes[i]) THEN "inconclusive"
    ELSE IF Cardinality(FailedOnes(codes)) =< MaxFailures THEN "continue"
    ELSE "kill"

\* The results of a run.
Result ==
    [attempt : Nat, claim : Nat, path : Paths, formal : BOOLEAN, over : BOOLEAN,
     checkout : Checkouts, codes : Seq(Codes), events : Seq(ProviderEvents)]

ASSUME NoneIsNoResult == None \notin Result

\* assertFrozenInputs: a complete formal run of this checkout, which is clean.
InputsFrozen(r) == r.formal /\ r.checkout = checkout /\ checkout = Frozen

----------------------------------------------------------------------------
(* The ledger                                                              *)

Decisive(a) == a.status = "complete" /\ a.decision # "inconclusive"

LedgerClosed(entries) ==
    \/ \E n \in DOMAIN entries : Decisive(entries[n])
    \/ Len(entries) = 2 /\ entries[2].status = "complete"

\* assertLedgerConsistency, in documents whose authority and closure are those above.
LedgerConsistent(entries) ==
    /\ \A n \in DOMAIN entries : entries[n].status # "complete" => n = Len(entries)
    /\ Len(entries) > 1 => ~Decisive(entries[1])

\* Mutation of MayPrepare: a decided ledger takes another attempt.
MayPrepareAgain(entries) ==
    /\ Len(entries) < 2
    /\ \A n \in DOMAIN entries : entries[n].status = "complete"

\* registerPreparedAttempt
MayPrepare(entries) ==
    /\ ~LedgerClosed(entries) /\ Len(entries) < 2
    /\ \A n \in DOMAIN entries : entries[n].status = "complete"

PreparedIn(entries) ==
    Append(entries, [status |-> "pending", path |-> None, claim |-> None,
                      decision |-> None, codes |-> None])

\* claimModelProposalBoundaryV2Attempt
MayClaim(entries) == entries # <<>> /\ entries[Len(entries)].status = "pending"

ClaimedIn(entries, path, claim) ==
    [entries EXCEPT ![Len(entries)] =
        [@ EXCEPT !.status = "claimed", !.path = path, !.claim = claim]]

\* completePreparedAttempt: the first time, and again for the same results.
MayComplete(entries, r) ==
    /\ r.attempt \in DOMAIN entries
    /\ IF entries[r.attempt].status = "complete"
       THEN entries[r.attempt].codes = r.codes
       ELSE /\ entries[r.attempt].status = "claimed" /\ r.attempt = Len(entries)
            /\ ~LedgerClosed(entries)
            /\ r.claim = entries[r.attempt].claim /\ r.path = entries[r.attempt].path

CompletedIn(entries, r) ==
    [entries EXCEPT ![r.attempt] =
        [@ EXCEPT !.status = "complete", !.decision = Decision(r.codes), !.codes = r.codes]]

----------------------------------------------------------------------------
(* Commands                                                                *)

Resting == [step |-> "idle"]

IsAt(o, step) == command[o].step = step

Goes(o, step) == command' = [command EXCEPT ![o].step = step]

Ends(o) == command' = [command EXCEPT ![o] = Resting]

\* The options of a command, the next ledger it has computed and the results it
\* reads or makes.
StartCommand(o, kind, options, result) ==
    /\ IsAt(o, "idle") /\ started < MaxCommands
    /\ started' = started + 1
    /\ command' = [command EXCEPT ![o] =
           [step |-> IF kind = "run" THEN "begin" ELSE "lock", kind |-> kind,
            options |-> options, serial |-> started, next |-> <<>>, result |-> result]]
    /\ UNCHANGED <<ledger, locked, files, checkout, gates, moves>>

Prepare(o) == StartCommand(o, "prepare", None, None)

\* The output must not exist when the claim begins.
Claim(o, path, complete) ==
    /\ files[path] = None
    /\ StartCommand(o, "claim", [path |-> path, overwrite |-> FALSE, complete |-> complete], None)

\* evaluateModelProposalBoundaryV2Gate, up to the ledger: the results are scored.
Gate(o, path) ==
    /\ files[path] # None /\ InputsFrozen(files[path])
    /\ StartCommand(o, "gate", None, files[path])

\* A run that claims nothing: scripts/run-model-proposal-eval.mjs by itself.
RunDirectly(o, path, overwrite) ==
    StartCommand(o, "run", [path |-> path, overwrite |-> overwrite, complete |-> TRUE], None)

\* acquireLedgerLock: a command that finds the lock gives up.
AcquireLock(o) ==
    /\ IsAt(o, "lock")
    /\ locked' = TRUE
    /\ IF locked THEN Ends(o) ELSE Goes(o, "read")
    /\ UNCHANGED <<ledger, files, checkout, gates, started, moves>>

\* Under the lock, the document is read and the next one computed, or refused.
ReadLedger(o) ==
    /\ IsAt(o, "read")
    /\ LET c == command[o]
           may == /\ LedgerConsistent(ledger)
                  /\ CASE c.kind = "prepare" -> MayPrepare(ledger)
                       [] c.kind = "claim" -> MayClaim(ledger)
                       [] c.kind = "gate" -> MayComplete(ledger, c.result)
           next == CASE c.kind = "prepare" -> PreparedIn(ledger)
                     [] c.kind = "claim" -> ClaimedIn(ledger, c.options.path, c.serial)
                     [] c.kind = "gate" -> CompletedIn(ledger, c.result)
       IN IF may
          THEN /\ command' = [command EXCEPT ![o] = [c EXCEPT !.step = "replace", !.next = next]]
               /\ UNCHANGED locked
          ELSE Ends(o) /\ locked' = FALSE
    /\ UNCHANGED <<ledger, files, checkout, gates, started, moves>>

\* replaceCanonical
ReplaceLedger(o) ==
    /\ IsAt(o, "replace")
    /\ ledger' = command[o].next /\ Goes(o, "release")
    /\ UNCHANGED <<locked, files, checkout, gates, started, moves>>

\* The replacement fails, and releaseLedgerLock follows.
ReplaceFails(o) ==
    /\ IsAt(o, "replace")
    /\ locked' = FALSE /\ Ends(o)
    /\ UNCHANGED <<ledger, files, checkout, gates, started, moves>>

\* releaseLedgerLock: a gate writes its document next, a claim runs.
ReleaseLock(o) ==
    /\ IsAt(o, "release")
    /\ locked' = FALSE
    /\ CASE command[o].kind = "prepare" -> Ends(o)
         [] command[o].kind = "gate" -> Goes(o, "write")
         [] command[o].kind = "claim" -> Goes(o, "begin")
    /\ UNCHANGED <<ledger, files, checkout, gates, started, moves>>

\* runModelProposalEval, up to its first request.
BeginRun(o) ==
    /\ IsAt(o, "begin")
    /\ LET c == command[o]
           claims == c.kind = "claim"
           run == [attempt |-> Len(c.next), claim |-> c.serial, path |-> c.options.path,
                   formal |-> claims /\ c.options.complete, over |-> c.options.overwrite,
                   checkout |-> checkout, codes |-> <<>>, events |-> <<>>]
           may == /\ claims => checkout = Frozen
                  /\ c.options.overwrite \/ files[c.options.path] = None
       IN command' = [command EXCEPT ![o] =
              IF may THEN [c EXCEPT !.step = "ask", !.result = run] ELSE Resting]
    /\ UNCHANGED <<ledger, locked, files, checkout, gates, started, moves>>

\* One observation.
AskProvider(o, event) ==
    /\ IsAt(o, "ask") /\ Len(command[o].result.codes) < RunObservations
    /\ IF RunScoped(event) THEN Ends(o)
       ELSE command' = [command EXCEPT
                ![o].result.codes = Append(@, Recorded(event)),
                ![o].result.events = Append(@, event)]
    /\ UNCHANGED <<ledger, locked, files, checkout, gates, started, moves>>

\* The checkout is compared with that at the start.
EndRun(o) ==
    /\ IsAt(o, "ask") /\ Len(command[o].result.codes) = RunObservations
    /\ IF checkout = command[o].result.checkout THEN Goes(o, "publish") ELSE Ends(o)
    /\ UNCHANGED <<ledger, locked, files, checkout, gates, started, moves>>

\* Mutation of LinkResults: an existing file is replaced.
LinkResultsOver(o) ==
    /\ IsAt(o, "publish")
    /\ files' = [files EXCEPT ![command[o].options.path] = command[o].result]
    /\ Ends(o)
    /\ UNCHANGED <<ledger, locked, checkout, gates, started, moves>>

\* The partial file is renamed to the output, or linked to it unless something is
\* there.
LinkResults(o) ==
    /\ IsAt(o, "publish")
    /\ LET c == command[o]
       IN files' = [files EXCEPT ![c.options.path] =
                       IF c.options.overwrite \/ @ = None THEN c.result ELSE @]
    /\ Ends(o)
    /\ UNCHANGED <<ledger, locked, checkout, gates, started, moves>>

\* bindGateToAttemptLedger, writeModelProposalBoundaryV2Artifact
WriteGate(o) ==
    /\ IsAt(o, "write")
    /\ LET r == command[o].result
           attempt == command[o].next[r.attempt]
       IN gates' = gates \cup
              {[attempt |-> r.attempt, decision |-> Decision(r.codes), events |-> r.events,
                authoritative |-> Decisive(attempt)]}
    /\ Ends(o)
    /\ UNCHANGED <<ledger, locked, files, checkout, started, moves>>

\* A command is killed, or fails where nothing is left to undo.
CommandDies(o) ==
    /\ ~IsAt(o, "idle")
    /\ Ends(o)
    /\ UNCHANGED <<ledger, locked, files, checkout, gates, started, moves>>

CheckoutMoves(s) ==
    /\ s # checkout /\ moves < MaxCheckouts
    /\ checkout' = s /\ moves' = moves + 1
    /\ UNCHANGED <<ledger, locked, files, gates, command, started>>

\* initializeModelProposalBoundaryV2Ledger has bound the ledger to the checkout.
AttemptInit ==
    /\ ledger = <<>> /\ locked = FALSE
    /\ files = [p \in Paths |-> None]
    /\ checkout = Frozen /\ gates = {}
    /\ command = [o \in Operators |-> Resting]
    /\ started = 0 /\ moves = 0

AttemptNext ==
    \/ \E o \in Operators :
        \/ Prepare(o)
        \/ \E p \in Paths : Gate(o, p) \/ \E b \in BOOLEAN : Claim(o, p, b) \/ RunDirectly(o, p, b)
        \/ AcquireLock(o) \/ ReadLedger(o) \/ ReplaceLedger(o) \/ ReplaceFails(o)
        \/ ReleaseLock(o)
        \/ BeginRun(o) \/ EndRun(o) \/ LinkResults(o) \/ WriteGate(o) \/ CommandDies(o)
        \/ \E e \in ProviderEvents : AskProvider(o, e)
    \/ \E s \in Checkouts : CheckoutMoves(s)

AttemptSpec == AttemptInit /\ [][AttemptNext]_attemptVars

----------------------------------------------------------------------------
(* Properties                                                              *)

StatusSteps == {<<"pending", "claimed">>, <<"claimed", "complete">>}

\* The ledger only moves forward, one status at a time, whoever updates it
\* concurrently and wherever a command dies: an attempt that was claimed keeps its
\* claim, one that is complete never changes, and a second one follows only an
\* inconclusive first.
LedgerMovesForward ==
    [][ledger' # ledger =>
          \/ /\ ledger' = PreparedIn(ledger)
             /\ \A n \in DOMAIN ledger : ledger[n].decision = "inconclusive"
          \/ /\ Len(ledger') = Len(ledger)
             /\ \E n \in DOMAIN ledger :
                    /\ <<ledger[n].status, ledger'[n].status>> \in StatusSteps
                    /\ ledger[n].claim # None => ledger'[n].claim = ledger[n].claim
                    /\ \A m \in DOMAIN ledger \ {n} : ledger'[m] = ledger[m]
       ]_attemptVars

\* What is decided is what one run saw: formal results come from the run that
\* claimed their attempt, at the path it claimed, and the results an attempt was
\* decided on stay there, unless a run was told to overwrite them.
DecidedByClaimant ==
    /\ \A p \in Paths :
           files[p] # None /\ files[p].formal =>
               /\ files[p].path = p
               /\ files[p].attempt \in DOMAIN ledger
               /\ ledger[files[p].attempt].claim = files[p].claim
    /\ \A n \in DOMAIN ledger :
           ledger[n].status = "complete" =>
               LET r == files[ledger[n].path]
               IN r # None /\ (r.over \/ (r.attempt = n /\ r.codes = ledger[n].codes))

=============================================================================
