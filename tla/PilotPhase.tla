----------------------------- MODULE PilotPhase -----------------------------
(***************************************************************************)
(* One phase of the real-model pilot: processes that run `resume` over one *)
(* state directory, one ledger and one MCP run.                            *)
(*                                                                         *)
(* The process that reserves the phase in the ledger drives it: it invokes *)
(* the provider once, captures the answer, previews the proposal, writes   *)
(* the proposal-ready receipt, claims the phase decision, admits the       *)
(* proposal through an MCP server, verifies and records the result. Every  *)
(* other process, and the same one after a crash, recovers: it looks at    *)
(* what is on disk, claims the decision for itself, fences the run by a    *)
(* compare-and-swap append, and installs the outcome the run shows. All    *)
(* files are installed by hard link: the first content stays.              *)
(***************************************************************************)
EXTENDS Naturals, Sequences, FiniteSets

CONSTANTS
    Processes,
    Null,         \* no file, no entry, nothing known
    MaxFaults,    \* bound: crashes and failed calls of a behaviour
    MaxOutside    \* bound: appends to the run by others than the pilot

ASSUME PilotConstants ==
    /\ MaxFaults \in Nat
    /\ MaxOutside \in Nat
    /\ Null \notin Processes
    /\ Null \notin {"rejected", "wrong", "right"}
    /\ Null # <<"admission">>
    /\ Null \notin {"admission-authorized", "recovery-terminal"}

VARIABLES
    ledger,    \* the phase's two slots: who reserved it, and its outcome
    files,     \* the phase's files in the state directory
    run,       \* what was appended to the MCP run since the phase's base
    orphans,   \* appends in MCP servers that no client waits for any more
    proc,      \* proc[p]: the resume that p runs
    invoked,   \* provider invocations (history)
    abandoned, \* the driver gave its admission up while the server was at it (history)
    faults     \* faults so far

vars == <<ledger, files, run, orphans, proc, invoked, abandoned, faults>>

----------------------------------------------------------------------------
(* Values                                                                  *)

\* What the provider may answer: something that fails before any preview, a proposal whose
\* admission does not give the expected conclusion, and one whose admission does.
Answers == {"rejected", "wrong", "right"}

Decisions == {"admission-authorized", "recovery-terminal"}

Appends == {"admission", "fence", "outside"}
Runs == Seq(Appends)

\* Failure codes; "local" stands for those that replaying the capture gives again.
Codes == {"local", "proposal.preview", "proposal.admission", "proposal.post-admission",
          "proposal.interrupted-before-admission", "proposal.mcp-state-diverged",
          "adapter.interrupted-before-proposal-ready"}
Completed == "completed"
Outcomes == Codes \cup {Completed}

\* A failure bundle: its code, the receipt and the decision it binds, whether it rests on the
\* recovery observation, and the run it shows.
Failure == [code : Codes, ready : BOOLEAN, decision : Decisions \cup {Null},
            observed : BOOLEAN, found : Runs]

ASSUME NullIsNoFailure == Null \notin Failure

Observation == [ready : BOOLEAN, found : Runs]

Files == [capture : Answers \cup {Null}, ready : BOOLEAN, decision : Decisions \cup {Null},
          observation : Observation \cup {Null}, failure : Failure \cup {Null},
          result : Runs \cup {Null}]

Ledger == [owner : Processes \cup {Null}, outcome : Outcomes \cup {Null}]

\* The steps at which a process that drives may see a call fail and go on.
Driving == {"preview", "writeReady", "authorize", "admit", "verify", "result", "complete"}
Steps == Driving \cup
         {"rest", "reserve", "invoke", "capture", "record", "look", "inspect", "finish", "base",
          "reconstruct", "claim", "claimLate", "observe", "fence", "refenced", "late", "persist",
          "conclude", "install", "judge", "fail"}

Process == [at : Steps, drives : BOOLEAN, snapshot : Outcomes \cup {Null}, retained : BOOLEAN,
            ready : BOOLEAN, decision : Decisions \cup {Null}, sees : Runs, attempt : 0 .. 2,
            code : Codes \cup {Null}, exact : BOOLEAN, failure : Failure \cup {Null},
            told : Outcomes \cup {Null}]

\* A process between two resumes, with what the last one reported.
Rest(outcome) ==
    [at |-> "rest", drives |-> FALSE, snapshot |-> Null, retained |-> FALSE, ready |-> FALSE,
     decision |-> Null, sees |-> <<>>, attempt |-> 0, code |-> Null, exact |-> FALSE,
     failure |-> Null, told |-> outcome]

\* recoveryDispositionV2
Disposition(ready, r) ==
    CASE r = <<>> -> "exact-base"
      [] r = <<"admission">> /\ ready -> "exact-admission"
      [] r = <<"fence">> -> "exact-recovery-fence"
      [] OTHER -> "state-diverged"

\* replayLocalFailure of the capture finds a failure.
Replays == files.capture = "rejected"

\* expectedRecoveryFailureV2, for a disposition other than exact-admission
ExpectedFailure(ready, r) ==
    CASE Disposition(ready, r) = "state-diverged" -> "proposal.mcp-state-diverged"
      [] Disposition(ready, r) # "state-diverged" /\ ready ->
            "proposal.interrupted-before-admission"
      [] r = <<>> /\ ~ready /\ Replays -> "local"
      [] OTHER -> "adapter.interrupted-before-proposal-ready"

\* Installation by hard link: what is there stays.
Linked(old, new) == IF old = Null THEN new ELSE old

\* An append that names the base as the run it expects.
AppendAtBase(what) == run' = IF run = <<>> THEN <<what>> ELSE run

----------------------------------------------------------------------------
(* Steps of one process                                                    *)

At(p, step) == proc[p].at = step
Go(p, step) == proc' = [proc EXCEPT ![p].at = step]

\* The resume ends: with an error that tells no outcome, or reporting one (as the terminal
\* failure it throws, or by going on to publish).
Stop(p) == proc' = [proc EXCEPT ![p] = Rest(Null)]
Report(p, outcome) == proc' = [proc EXCEPT ![p] = Rest(outcome)]

\* The driver's catch: record the failure of the stage it was in.
Blame(p, code, exact) ==
    proc' = [proc EXCEPT ![p].at = "record", ![p].code = code, ![p].exact = exact]

\* An error of the driver is recorded, one of a recovery ends it.
BlameOrStop(p) ==
    IF proc[p].drives THEN Blame(p, "proposal.post-admission", FALSE) ELSE Stop(p)

Init ==
    /\ ledger = [owner |-> Null, outcome |-> Null]
    /\ files = [capture |-> Null, ready |-> FALSE, decision |-> Null, observation |-> Null,
                failure |-> Null, result |-> Null]
    /\ run = <<>>
    /\ orphans = {}
    /\ proc = [p \in Processes |-> Rest(Null)]
    /\ invoked = 0
    /\ abandoned = FALSE
    /\ faults = 0

\* resume loads the ledger. With no reservation it will drive the phase, if the run is still
\* at the prefix that the initial phase recorded; otherwise it recovers.
BeginDrive(p) ==
    /\ At(p, "rest")
    /\ ledger.owner = Null
    /\ run = <<>>
    /\ proc' = [proc EXCEPT ![p] = [Rest(Null) EXCEPT !.at = "reserve", !.drives = TRUE]]
    /\ UNCHANGED <<ledger, files, run, orphans, invoked, abandoned, faults>>

BeginRecovery(p) ==
    /\ At(p, "rest")
    /\ ledger.owner # Null
    /\ proc' = [proc EXCEPT ![p] =
                    [Rest(Null) EXCEPT !.at = "look", !.snapshot = ledger.outcome]]
    /\ UNCHANGED <<ledger, files, run, orphans, invoked, abandoned, faults>>

----------------------------------------------------------------------------
(* The driver                                                              *)

\* claimProviderInvocation: the loser's entry names another invocation and is refused.
Reserve(p) ==
    /\ At(p, "reserve")
    /\ ledger' = [ledger EXCEPT !.owner = Linked(@, p)]
    /\ \/ ledger.owner = Null /\ Go(p, "invoke")
       \/ ledger.owner # Null /\ Stop(p)
    /\ UNCHANGED <<files, run, orphans, invoked, abandoned, faults>>

Invoke(p) ==
    /\ At(p, "invoke")
    /\ invoked' = invoked + 1
    /\ Go(p, "capture")
    /\ UNCHANGED <<ledger, files, run, orphans, abandoned, faults>>

\* The adapter's raw answer is written before it is looked at.
Capture(p) ==
    /\ At(p, "capture")
    /\ files.capture = Null
    /\ \E answer \in Answers :
        /\ files' = [files EXCEPT !.capture = answer]
        /\ \/ answer = "rejected" /\ Blame(p, "local", FALSE)
           \/ answer # "rejected" /\ Go(p, "preview")
    /\ UNCHANGED <<ledger, run, orphans, invoked, abandoned, faults>>

\* previewProposal names the base, and checks that the run has not moved.
Preview(p) ==
    /\ At(p, "preview")
    /\ \/ run = <<>> /\ Go(p, "writeReady")
       \/ run # <<>> /\ Blame(p, "proposal.preview", FALSE)
    /\ UNCHANGED <<ledger, files, run, orphans, invoked, abandoned, faults>>

\* The receipt is the same whoever makes it, so finding it there is success.
WriteReady(p) ==
    /\ At(p, "writeReady")
    /\ files' = [files EXCEPT !.ready = TRUE]
    /\ proc' = [proc EXCEPT ![p].ready = TRUE,
                            ![p].at = IF proc[p].drives THEN "authorize" ELSE "claim"]
    /\ UNCHANGED <<ledger, run, orphans, invoked, abandoned, faults>>

\* Mutation of Authorize: the decision that is there is not looked at.
AuthorizeBlindly(p) ==
    /\ At(p, "authorize")
    /\ files' = [files EXCEPT !.decision = Linked(@, "admission-authorized")]
    /\ Go(p, "admit")
    /\ UNCHANGED <<ledger, run, orphans, invoked, abandoned, faults>>

\* The driver claims the phase decision, and yields when a recovery owns it.
Authorize(p) ==
    /\ At(p, "authorize")
    /\ files' = [files EXCEPT !.decision = Linked(@, "admission-authorized")]
    /\ \/ files'.decision = "admission-authorized" /\ Go(p, "admit")
       \/ files'.decision # "admission-authorized" /\ Stop(p)
    /\ UNCHANGED <<ledger, run, orphans, invoked, abandoned, faults>>

\* timeline_admit_model_proposal at the base
Admit(p) ==
    /\ At(p, "admit")
    /\ AppendAtBase("admission")
    /\ \/ run = <<>> /\ Go(p, "verify")
       \/ run # <<>> /\ Blame(p, "proposal.admission", FALSE)
    /\ UNCHANGED <<ledger, files, orphans, invoked, abandoned, faults>>

\* A failure bundle as p would write it.
FailureOf(p, code, observed, found) ==
    [code |-> code, ready |-> proc[p].ready, decision |-> proc[p].decision,
     observed |-> observed, found |-> found]

\* The conclusions on the admitted run depend on the proposal alone. A recovery that finds them
\* wrong has its failure bundle ready.
Verify(p) ==
    /\ At(p, "verify")
    /\ \/ files.capture = "right" /\ Go(p, "result")
       \/ /\ files.capture # "right" /\ proc[p].drives
          /\ Blame(p, "proposal.post-admission", TRUE)
       \/ /\ files.capture # "right" /\ ~proc[p].drives
          /\ proc' = [proc EXCEPT ![p].at = "install", ![p].failure =
                          FailureOf(p, "proposal.post-admission", TRUE, proc[p].sees)]
    /\ UNCHANGED <<ledger, files, run, orphans, invoked, abandoned, faults>>

\* writePhaseResultBundle: the driver reads the run again, a recovery has its observation.
WriteResult(p) ==
    LET found == IF proc[p].drives THEN run ELSE proc[p].sees IN
    /\ At(p, "result")
    /\ files' = [files EXCEPT !.result = Linked(@, found)]
    /\ \/ files'.result = found /\ Go(p, "complete")
       \/ files'.result # found /\ BlameOrStop(p)
    /\ UNCHANGED <<ledger, run, orphans, invoked, abandoned, faults>>

\* completeAttemptPhase: the slot is free, or holds the same entry.
Complete(p) ==
    /\ At(p, "complete")
    /\ ledger' = [ledger EXCEPT !.outcome = Linked(@, Completed)]
    /\ \/ ledger'.outcome = Completed /\ Report(p, Completed)
       \/ ledger'.outcome # Completed /\ BlameOrStop(p)
    /\ UNCHANGED <<files, run, orphans, invoked, abandoned, faults>>

\* recordPhaseFailure: what the driver saw becomes terminal unless the run shows an admission
\* it has not verified, or a fence, or the decision cannot be read.
Record(p) ==
    LET disposition == Disposition(proc[p].ready, run)
        decision == IF proc[p].ready THEN files.decision ELSE Null
        recoverable ==
            \/ proc[p].ready /\ decision = Null
            \/ disposition = "exact-admission" /\ ~proc[p].exact
            \/ disposition = "exact-recovery-fence"
    IN
    /\ At(p, "record")
    /\ \/ recoverable /\ Stop(p)
       \/ /\ ~recoverable
          /\ proc' = [proc EXCEPT ![p].at = "install", ![p].failure =
                          [FailureOf(p, proc[p].code, FALSE, run) EXCEPT !.decision = decision]]
    /\ UNCHANGED <<ledger, files, run, orphans, invoked, abandoned, faults>>

----------------------------------------------------------------------------
(* Recovery                                                                *)

Look(p) ==
    /\ At(p, "look")
    /\ proc' = [proc EXCEPT ![p].at = "inspect", ![p].retained = files.failure # Null]
    /\ UNCHANGED <<ledger, files, run, orphans, invoked, abandoned, faults>>

\* Mutation of HasResult: a phase without an entry is taken to have its result.
HasResultUnlessFailed(p) == ~proc[p].retained /\ proc[p].snapshot \in {Completed, Null}

\* There is a result, or the phase was reserved and nothing came of it.
HasResult(p) ==
    /\ ~proc[p].retained
    /\ \/ proc[p].snapshot = Completed
       \/ proc[p].snapshot = Null /\ (files.result # Null \/ files.capture = Null)

Conflicts(p) ==
    \/ proc[p].snapshot = Completed /\ proc[p].retained
    \/ /\ proc[p].snapshot # Completed /\ files.result # Null
       /\ proc[p].retained \/ proc[p].snapshot # Null

\* A capture without an outcome, with and without the receipt.
Resumes(p) ==
    /\ ~proc[p].retained /\ ~HasResult(p) /\ ~Conflicts(p)
    /\ files.capture # Null

\* The head of recoverFailedPhase. A failure bundle says itself whether it binds the receipt.
Inspect(p) ==
    /\ At(p, "inspect")
    /\ \/ HasResult(p) /\ Go(p, "finish")
       \/ Conflicts(p) /\ Stop(p)
       \/ /\ proc[p].retained /\ ~Conflicts(p)
          /\ proc' = [proc EXCEPT ![p].at = "judge", ![p].ready = files.failure.ready,
                 ![p].decision = IF files.failure.ready THEN files.decision ELSE Null]
       \/ /\ Resumes(p) /\ files.ready
          /\ proc' = [proc EXCEPT ![p].ready = TRUE, ![p].decision = files.decision,
                 ![p].at = IF files.decision = Null THEN "claim" ELSE "observe"]
       \/ /\ Resumes(p) /\ ~files.ready
          /\ Go(p, IF Replays THEN "observe" ELSE "base")
    /\ UNCHANGED <<ledger, files, run, orphans, invoked, abandoned, faults>>

\* completedCorrectionBundle: the result must show the admitted run.
Finish(p) ==
    /\ At(p, "finish")
    /\ \/ files.result # <<"admission">> /\ Stop(p)
       \/ files.result = <<"admission">> /\ proc[p].snapshot = Null /\ Go(p, "complete")
       \/ /\ files.result = <<"admission">> /\ proc[p].snapshot = Completed
          /\ Report(p, Completed)
    /\ UNCHANGED <<ledger, files, run, orphans, invoked, abandoned, faults>>

\* Without a receipt and at the base, recovery makes the receipt from the capture.
LookBeforePreview(p) ==
    /\ At(p, "base")
    /\ Go(p, IF run = <<>> THEN "reconstruct" ELSE "observe")
    /\ UNCHANGED <<ledger, files, run, orphans, invoked, abandoned, faults>>

Reconstruct(p) ==
    /\ At(p, "reconstruct")
    /\ \/ files.ready /\ proc' = [proc EXCEPT ![p].at = "claim", ![p].ready = TRUE]
       \/ ~files.ready /\ run = <<>> /\ Go(p, "writeReady")
       \/ ~files.ready /\ run # <<>> /\ Stop(p)
    /\ UNCHANGED <<ledger, files, run, orphans, invoked, abandoned, faults>>

\* Recovery claims the phase decision, and goes on with the one that is there.
Claim(p) ==
    /\ proc[p].at \in {"claim", "claimLate"}
    /\ files' = [files EXCEPT !.decision = Linked(@, "recovery-terminal")]
    /\ proc' = [proc EXCEPT ![p].decision = files'.decision,
                            ![p].at = IF @ = "claim" THEN "observe" ELSE "persist"]
    /\ UNCHANGED <<ledger, run, orphans, invoked, abandoned, faults>>

\* Mutation of Observe: the base is taken for an outcome without a fence.
ObserveOnly(p) ==
    /\ At(p, "observe")
    /\ proc' = [proc EXCEPT ![p].sees = run, ![p].at = "late"]
    /\ UNCHANGED <<ledger, files, run, orphans, invoked, abandoned, faults>>

\* readRecoveryState; a base that an admission may still change is fenced.
Observe(p) ==
    /\ At(p, "observe")
    /\ proc' = [proc EXCEPT ![p].sees = run, ![p].at =
                    IF run = <<>> /\ (proc[p].ready \/ ~Replays) THEN "fence" ELSE "late"]
    /\ UNCHANGED <<ledger, files, run, orphans, invoked, abandoned, faults>>

\* fenceRecoveryState: the append's result is ignored, the run is read again, thrice at most.
Fence(p) ==
    /\ At(p, "fence")
    /\ AppendAtBase("fence")
    /\ Go(p, "refenced")
    /\ UNCHANGED <<ledger, files, orphans, invoked, abandoned, faults>>

ObserveFence(p) ==
    /\ At(p, "refenced")
    /\ \/ /\ run # <<>>
          /\ proc' = [proc EXCEPT ![p].sees = run, ![p].at = "late", ![p].attempt = 0]
       \/ /\ run = <<>> /\ proc[p].attempt < 2
          /\ proc' = [proc EXCEPT ![p].at = "fence", ![p].attempt = @ + 1]
       \/ run = <<>> /\ proc[p].attempt = 2 /\ Stop(p)
    /\ UNCHANGED <<ledger, files, run, orphans, invoked, abandoned, faults>>

\* A receipt that appeared since is adopted, with the decision that is there or a new one.
AdoptLateReady(p) ==
    LET late == ~proc[p].ready /\ ~Replays /\ files.ready
        unowned == files.decision = Null
        admitted == proc[p].sees = <<"admission">>
    IN
    /\ At(p, "late")
    /\ \/ ~late /\ Go(p, "persist")
       \/ late /\ unowned /\ admitted /\ Stop(p)
       \/ /\ late /\ ~(unowned /\ admitted)
          /\ proc' = [proc EXCEPT ![p].ready = TRUE, ![p].decision = files.decision,
                                  ![p].at = IF unowned THEN "claimLate" ELSE "persist"]
    /\ UNCHANGED <<ledger, files, run, orphans, invoked, abandoned, faults>>

\* installRecoveryObservation: another one of the same receipt and run will do. An admitted
\* run is verified if the decision authorized it.
Persist(p) ==
    LET seen == [ready |-> proc[p].ready, found |-> proc[p].sees]
        admitted == Disposition(proc[p].ready, proc[p].sees) = "exact-admission"
        authorized == proc[p].decision = "admission-authorized"
    IN
    /\ At(p, "persist")
    /\ files' = [files EXCEPT !.observation = Linked(@, seen)]
    /\ \/ files'.observation # seen /\ Stop(p)
       \/ files'.observation = seen /\ admitted /\ ~authorized /\ Stop(p)
       \/ files'.observation = seen /\ admitted /\ authorized /\ Go(p, "verify")
       \/ files'.observation = seen /\ ~admitted /\ Go(p, "conclude")
    /\ UNCHANGED <<ledger, run, orphans, invoked, abandoned, faults>>

\* A failure bundle that appeared since is used, otherwise the expected one is made.
Conclude(p) ==
    /\ At(p, "conclude")
    /\ \/ files.failure # Null /\ Go(p, "judge")
       \/ /\ files.failure = Null
          /\ proc' = [proc EXCEPT ![p].at = "install", ![p].failure =
                 FailureOf(p, ExpectedFailure(proc[p].ready, proc[p].sees), TRUE, proc[p].sees)]
    /\ UNCHANGED <<ledger, files, run, orphans, invoked, abandoned, faults>>

\* installFailureBundle, and the driver's writePhaseFailureBundle
Install(p) ==
    /\ At(p, "install")
    /\ files' = [files EXCEPT !.failure = Linked(@, proc[p].failure)]
    /\ \/ files'.failure # proc[p].failure /\ Stop(p)
       \/ /\ files'.failure = proc[p].failure
          /\ proc' = [proc EXCEPT ![p].failure = Null,
                                  ![p].at = IF proc[p].drives THEN "fail" ELSE "judge"]
    /\ UNCHANGED <<ledger, run, orphans, invoked, abandoned, faults>>

\* validateRecoveredFailure: the bundle agrees with the capture, the receipt, the decision and
\* the observation it binds.
Valid(p, failure) ==
    LET admitted == failure.ready /\ failure.found = <<"admission">>
        post == failure.code = "proposal.post-admission"
    IN
    /\ failure.ready = proc[p].ready
    /\ failure.decision = proc[p].decision
    /\ failure.observed =>
        /\ failure.found = files.observation.found
        /\ \/ post /\ admitted
           \/ /\ Disposition(proc[p].ready, failure.found) # "exact-admission"
              /\ failure.code = ExpectedFailure(proc[p].ready, failure.found)
    /\ failure.code = "local" => Replays /\ failure.found = <<>>
    /\ post => admitted /\ proc[p].decision = "admission-authorized"

Judge(p) ==
    /\ At(p, "judge")
    /\ \/ Valid(p, files.failure) /\ proc[p].snapshot = Null /\ Go(p, "fail")
       \/ /\ Valid(p, files.failure) /\ proc[p].snapshot = files.failure.code
          /\ Report(p, files.failure.code)
       \/ ~Valid(p, files.failure) /\ Stop(p)
    /\ UNCHANGED <<ledger, files, run, orphans, invoked, abandoned, faults>>

\* failAttemptPhaseV2, with the entry read again when the slot is taken
Fail(p) ==
    /\ At(p, "fail")
    /\ ledger' = [ledger EXCEPT !.outcome = Linked(@, files.failure.code)]
    /\ \/ ledger'.outcome = files.failure.code /\ Report(p, files.failure.code)
       \/ ledger'.outcome # files.failure.code /\ Stop(p)
    /\ UNCHANGED <<files, run, orphans, invoked, abandoned, faults>>

----------------------------------------------------------------------------
(* Faults and the outside                                                  *)

Fault == faults < MaxFaults /\ faults' = faults + 1

\* The process dies, or a call throws what nobody converts. An append it had sent may still be
\* with the MCP server.
Crash(p) ==
    /\ Fault
    /\ ~At(p, "rest")
    /\ Stop(p)
    /\ orphans' = orphans \cup (IF At(p, "admit") THEN {"admission"} ELSE {})
                          \cup (IF At(p, "fence") THEN {"fence"} ELSE {})
    /\ UNCHANGED <<ledger, files, run, invoked, abandoned>>

\* The failure code of the driver's stage.
StageCode(step) ==
    CASE step \in {"preview", "writeReady"} -> "proposal.preview"
      [] step \in {"authorize", "admit"} -> "proposal.admission"
      [] OTHER -> "proposal.post-admission"

\* A call of the driver fails: without effect; or the answer to its admission is lost; or the
\* admission times out, and the server, whose session stays open, commits it later or never.
DriverCallFails(p) ==
    /\ Fault
    /\ proc[p].drives /\ proc[p].at \in Driving
    /\ Blame(p, StageCode(proc[p].at), FALSE)
    /\ \/ UNCHANGED <<run, orphans, abandoned>>
       \/ At(p, "admit") /\ AppendAtBase("admission") /\ UNCHANGED <<orphans, abandoned>>
       \/ /\ At(p, "admit") /\ UNCHANGED run
          /\ orphans' = orphans \cup {"admission"} /\ abandoned' = TRUE
    /\ UNCHANGED <<ledger, files, invoked>>

\* The driver cannot read the run after a local failure: it records the base.
RecordBlindly(p) ==
    /\ Fault
    /\ At(p, "record") /\ proc[p].code = "local"
    /\ proc' = [proc EXCEPT ![p].at = "install",
                            ![p].failure = FailureOf(p, "local", FALSE, <<>>)]
    /\ UNCHANGED <<ledger, files, run, orphans, invoked, abandoned>>

\* The fence is refused, its server fails, or it times out and may still be appended.
FenceFails(p) ==
    /\ Fault
    /\ At(p, "fence")
    /\ Go(p, "refenced")
    /\ UNCHANGED orphans \/ orphans' = orphans \cup {"fence"}
    /\ UNCHANGED <<ledger, files, run, invoked, abandoned>>

\* A server that nobody waits for commits what it was sent, or does not.
OrphanSettles ==
    \E what \in orphans :
        /\ orphans' = orphans \ {what}
        /\ UNCHANGED run \/ AppendAtBase(what)
        /\ UNCHANGED <<ledger, files, proc, invoked, abandoned, faults>>

\* Someone else appends to the run after the phase was reserved.
Outside ==
    /\ ledger.owner # Null
    /\ Cardinality({i \in DOMAIN run : run[i] = "outside"}) < MaxOutside
    /\ run' = Append(run, "outside")
    /\ UNCHANGED <<ledger, files, orphans, proc, invoked, abandoned, faults>>

----------------------------------------------------------------------------
Drive(p) ==
    \/ Reserve(p) \/ Invoke(p) \/ Capture(p) \/ Preview(p) \/ Authorize(p) \/ Admit(p)
    \/ Record(p)

Recover(p) ==
    \/ Look(p) \/ Inspect(p) \/ Finish(p) \/ LookBeforePreview(p) \/ Reconstruct(p)
    \/ Claim(p) \/ Observe(p) \/ Fence(p) \/ ObserveFence(p) \/ AdoptLateReady(p)
    \/ Persist(p) \/ Conclude(p) \/ Judge(p)

Shared(p) ==
    WriteReady(p) \/ Verify(p) \/ WriteResult(p) \/ Complete(p) \/ Install(p) \/ Fail(p)

Resume(p) == BeginDrive(p) \/ BeginRecovery(p) \/ Drive(p) \/ Recover(p) \/ Shared(p)

Disturb(p) == Crash(p) \/ DriverCallFails(p) \/ RecordBlindly(p) \/ FenceFails(p)

Next == (\E p \in Processes : Resume(p) \/ Disturb(p)) \/ OrphanSettles \/ Outside

Spec == Init /\ [][Next]_vars

\* A resume that has started runs on, and resumes are started again.
FairSpec == Spec /\ \A p \in Processes : WF_vars(Resume(p))

----------------------------------------------------------------------------
(* Properties                                                              *)

\* The type of the state.
TypeOK ==
    /\ ledger \in Ledger
    /\ files \in Files
    /\ run \in Runs
    /\ orphans \subseteq {"admission", "fence"}
    /\ proc \in [Processes -> Process]
    /\ invoked \in Nat
    /\ abandoned \in BOOLEAN
    /\ faults \in 0 .. MaxFaults

Holds(what) == \E i \in DOMAIN run : run[i] = what
Undisturbed == ~Holds("outside")

\* Whatever crashes and however many processes resume, the provider is invoked once, and only
\* for a reservation that is in the ledger (claimProviderInvocation).
ProviderOnce == invoked <= 1 /\ (invoked = 1 => ledger.owner # Null)

\* The run is only written by who may: an admission has the receipt and an authorizing
\* decision, a fence has the receipt and a decision, and never are both in the run.
WritesAreOwned ==
    /\ Holds("admission") => files.ready /\ files.decision = "admission-authorized"
    /\ Holds("fence") => files.ready /\ files.decision # Null
    /\ ~(Holds("admission") /\ Holds("fence"))

\* The outcome in the ledger is what the run shows, now and ever after: completed for a good
\* admission, failed after verification for a bad one, any other failure for none. The one
\* exception is a driver that gave its admission up, found the base and recorded that the
\* admission failed: the server may have been slower than the record.
OutcomeMatchesRun ==
    (Undisturbed /\ ledger.outcome # Null) =>
        CASE ledger.outcome = Completed -> run = <<"admission">> /\ files.capture = "right"
          [] ledger.outcome = "proposal.post-admission" ->
                run = <<"admission">> /\ files.capture = "wrong"
          [] OTHER -> run = <<"admission">> =>
                          abandoned /\ ledger.outcome = "proposal.admission"

\* "a successful fence closes the phase as interrupted, while a successful candidate admission
\* is recovered from its exact state" (docs/real-model-pilot.md:232-234): what was admitted is
\* not the run of a phase that ended before its admission.
AdmissionIsRecovered ==
    (Undisturbed /\ run = <<"admission">>) =>
        ledger.outcome \in {Null, Completed, "proposal.post-admission"}

\* The driver recorded the failure of an admission it had given up, a recovery the result of
\* that admission, and both died before the ledger: no resume chooses between the two.
Contradicted == abandoned /\ files.failure # Null /\ files.result # Null

\* Once the adapter's answer is captured, resuming ends the phase, unless others write to
\* the run, or its two records contradict each other.
CaptureIsDecided ==
    files.capture # Null ~> (ledger.outcome # Null \/ ~Undisturbed \/ Contradicted)

\* "If a synchronized result, failure bundle, or raw adapter capture already exists, `resume`
\* validates those bytes and completes the missing ledger entry"
\* (docs/real-model-pilot.md:240), for failure bundles.
BundleIsCompleted == files.failure # Null ~> ledger.outcome # Null

=============================================================================
