----------------------------- MODULE PilotProofs -----------------------------
(***************************************************************************)
(* Theorems about one phase of the pilot, for any number of processes,     *)
(* faults and appends from outside: who invokes the provider, who writes   *)
(* to the run, and that the outcome in the ledger is what the run shows.   *)
(*                                                                         *)
(* The last argument: one process at most drives, so once it is past its   *)
(* admission, or is dead and its append settled, none comes any more. A    *)
(* recovery that concludes without an admission has first put its fence    *)
(* at the base, or judges an answer that is never previewed.               *)
(*                                                                         *)
(* And about PilotPublication and FailedPublication: whatever publishers   *)
(* and exporters start, contend, take over and die, the staging of one     *)
(* that is at work is kept, and what a run has reported stays published.   *)
(* Claims are numbered in the order they are linked, so a claim that was   *)
(* seen dead is never linked again, and only stagings of claims seen dead  *)
(* are removed. In the export of a failed attempt the claim that is taken  *)
(* over is a dead one too, unless an output was whole before; and a        *)
(* directory has one entry of each name, so an output that verifies as     *)
(* whole was written as a whole.                                           *)
(***************************************************************************)
EXTENDS PilotPhase, PilotPublication, FailedPublication, TLAPS

----------------------------------------------------------------------------
(* Types                                                                   *)

\* Each process goes on with what its step needs: a recovery that judges has a failure bundle
\* on disk, and a process that records or installs one knows what.
Equipped ==
    /\ \A p \in Processes :
        /\ At(p, "record") => proc[p].code \in Codes
        /\ At(p, "install") => proc[p].failure \in Failure
        /\ At(p, "judge") \/ At(p, "fail") \/ proc[p].retained => files.failure \in Failure

\* The type of a process that is between two resumes.
LEMMA RestType ==
    ASSUME NEW outcome \in Outcomes \cup {Null}
    PROVE  Rest(outcome) \in Process
  BY DEF Rest, Process, Steps, Driving, Runs

LEMMA ExpectedType ==
    ASSUME NEW ready \in BOOLEAN, NEW r \in Runs
    PROVE  ExpectedFailure(ready, r) \in Codes
  BY DEF ExpectedFailure, Codes

LEMMA FailureType ==
    ASSUME TypeOK, NEW p \in Processes, NEW code \in Codes, NEW observed \in BOOLEAN,
           NEW found \in Runs
    PROVE  FailureOf(p, code, observed, found) \in Failure
  BY DEF FailureOf, Failure, TypeOK, Process


\* Every field of a process may be set to a value of its type.
LEMMA SetFields ==
    ASSUME NEW r \in Process
    PROVE  /\ \A x \in Steps : [r EXCEPT !.at = x] \in Process
           /\ \A x \in BOOLEAN : [r EXCEPT !.drives = x] \in Process
           /\ \A x \in Outcomes \cup {Null} : [r EXCEPT !.snapshot = x] \in Process
           /\ \A x \in BOOLEAN : [r EXCEPT !.retained = x] \in Process
           /\ \A x \in BOOLEAN : [r EXCEPT !.ready = x] \in Process
           /\ \A x \in Decisions \cup {Null} : [r EXCEPT !.decision = x] \in Process
           /\ \A x \in Runs : [r EXCEPT !.sees = x] \in Process
           /\ \A x \in 0 .. 2 : [r EXCEPT !.attempt = x] \in Process
           /\ \A x \in Codes \cup {Null} : [r EXCEPT !.code = x] \in Process
           /\ \A x \in BOOLEAN : [r EXCEPT !.exact = x] \in Process
           /\ \A x \in Failure \cup {Null} : [r EXCEPT !.failure = x] \in Process
  BY DEF Process

\* A process that moves, with what it needs, leaves all equipped.
LEMMA MoveEquipped ==
    ASSUME TypeOK, Equipped, NEW p \in Processes, NEW r \in Process,
           proc' = [proc EXCEPT ![p] = r],
           files.failure \in Failure => files'.failure \in Failure,
           r.at = "record" => r.code \in Codes,
           r.at = "install" => r.failure \in Failure,
           r.at \in {"judge", "fail"} \/ r.retained => files'.failure \in Failure
    PROVE  proc' \in [Processes -> Process] /\ Equipped'
  BY DEF Equipped, At, TypeOK

\* So does one that moves past what it would need, and leaves the failure bundle alone.
LEMMA QuietMove ==
    ASSUME TypeOK, Equipped, NEW p \in Processes, NEW r \in Process,
           proc' = [proc EXCEPT ![p] = r],
           files'.failure = files.failure,
           r.at \notin {"record", "install", "judge", "fail"},
           r.retained = proc[p].retained
    PROVE  proc' \in [Processes -> Process] /\ Equipped'
  <1>1. proc[p].retained => files.failure \in Failure
    BY DEF Equipped
  <1>. QED
    BY <1>1, MoveEquipped

\* Most steps only move a process, end its resume or blame a failure.
Plain(p) ==
    \/ \E step \in Steps \ {"record", "install", "judge", "fail"} : Go(p, step)
    \/ \E outcome \in Outcomes \cup {Null} : Report(p, outcome)
    \/ \E code \in Codes, exact \in BOOLEAN : Blame(p, code, exact)

LEMMA PlainStep ==
    ASSUME TypeOK, Equipped, NEW p \in Processes, Plain(p),
           files.failure \in Failure => files'.failure \in Failure
    PROVE  proc' \in [Processes -> Process] /\ Equipped'
  <1>1. proc[p] \in Process
    BY DEF TypeOK
  <1>2. proc[p].retained => files.failure \in Failure
    BY DEF Equipped
  <1>3. ASSUME NEW step \in Steps \ {"record", "install", "judge", "fail"}, Go(p, step)
        PROVE  proc' \in [Processes -> Process] /\ Equipped'
    <2> DEFINE r == [proc[p] EXCEPT !.at = step]
    <2>1. r \in Process
      BY <1>1, SetFields
    <2>2. proc' = [proc EXCEPT ![p] = r]
      BY <1>3 DEF Go
    <2>3. r.at = step /\ r.retained = proc[p].retained
      BY <1>1 DEF Process
    <2>. QED
      BY <1>2, <2>1, <2>2, <2>3, MoveEquipped
  <1>4. ASSUME NEW outcome \in Outcomes \cup {Null}, Report(p, outcome)
        PROVE  proc' \in [Processes -> Process] /\ Equipped'
    <2>1. Rest(outcome) \in Process /\ Rest(outcome).at = "rest" /\ ~Rest(outcome).retained
      BY RestType DEF Rest
    <2>. QED
      BY <1>4, <2>1, MoveEquipped DEF Report
  <1>5. ASSUME NEW code \in Codes, NEW exact \in BOOLEAN, Blame(p, code, exact)
        PROVE  proc' \in [Processes -> Process] /\ Equipped'
    <2> DEFINE r == [[[proc[p] EXCEPT !.at = "record"] EXCEPT !.code = code] EXCEPT !.exact = exact]
    <2>1. r \in Process
      BY <1>1, SetFields DEF Steps
    <2>2. proc' = [proc EXCEPT ![p] = r]
      BY <1>5 DEF TypeOK, Blame
    <2>3. r.at = "record" /\ r.code = code /\ r.retained = proc[p].retained
      BY <1>1 DEF Process
    <2>. QED
      BY <1>2, <2>1, <2>2, <2>3, MoveEquipped
  <1>. QED
    BY <1>3, <1>4, <1>5 DEF Plain

\* An append at the base, and one at the end, give a run.
LEMMA AppendType ==
    ASSUME TypeOK, NEW what \in Appends, AppendAtBase(what)
    PROVE  run' \in Runs
  BY DEF AppendAtBase, TypeOK, Runs


\* The driver's own steps.
LEMMA DriveTypes ==
    ASSUME TypeOK, Equipped, NEW p \in Processes, Drive(p)
    PROVE  TypeOK' /\ Equipped'
  <1>. USE DEF TypeOK
  <1>1. CASE Reserve(p)
    <2>1. Plain(p)
      BY <1>1 DEF Reserve, Plain, Go, Stop, Report, Steps, Driving
    <2>2. proc' \in [Processes -> Process] /\ Equipped'
      BY <1>1, <2>1, PlainStep DEF Reserve
    <2>. QED
      BY <1>1, <2>2 DEF Reserve, Ledger, Linked
  <1>2. CASE Invoke(p)
    <2>1. Plain(p)
      BY <1>2 DEF Invoke, Plain, Go, Stop, Report, Steps, Driving
    <2>2. proc' \in [Processes -> Process] /\ Equipped'
      BY <1>2, <2>1, PlainStep DEF Invoke
    <2>. QED
      BY <1>2, <2>2 DEF Invoke
  <1>3. CASE Capture(p)
    <2>1. Plain(p)
      BY <1>3 DEF Capture, Plain, Go, Codes, Blame, Steps, Driving
    <2>2. proc' \in [Processes -> Process] /\ Equipped'
      BY <1>3, <2>1, PlainStep DEF Capture
    <2>. QED
      BY <1>3, <2>2 DEF Capture, Files
  <1>4. CASE Preview(p)
    <2>1. Plain(p)
      BY <1>4 DEF Preview, Plain, Go, Codes, Blame, Steps, Driving
    <2>2. proc' \in [Processes -> Process] /\ Equipped'
      BY <1>4, <2>1, PlainStep DEF Preview
    <2>. QED
      BY <1>4, <2>2 DEF Preview
  <1>5. CASE Authorize(p)
    <2>1. Plain(p)
      BY <1>5 DEF Authorize, Plain, Go, Stop, Report, Steps, Driving
    <2>2. proc' \in [Processes -> Process] /\ Equipped'
      BY <1>5, <2>1, PlainStep DEF Authorize
    <2>. QED
      BY <1>5, <2>2 DEF Authorize, Files, Linked, Decisions
  <1>6. CASE Admit(p)
    <2>1. Plain(p)
      BY <1>6 DEF Admit, Plain, Go, Codes, Blame, Steps, Driving
    <2>2. proc' \in [Processes -> Process] /\ Equipped'
      BY <1>6, <2>1, PlainStep DEF Admit
    <2>. QED
      BY <1>6, <2>2, AppendType DEF Admit, Appends
  <1>7. CASE Record(p)
    <2>1. CASE Stop(p)
      <3>1. Plain(p)
        BY <2>1 DEF Plain, Stop, Report
      <3>. QED
        BY <1>7, <3>1, PlainStep DEF Record
    <2>2. CASE ~Stop(p)
      <3> DEFINE decision == IF proc[p].ready THEN files.decision ELSE Null
                 bundle == [FailureOf(p, proc[p].code, FALSE, run) EXCEPT !.decision = decision]
                 r == [[proc[p] EXCEPT !.at = "install"] EXCEPT !.failure = bundle]
      <3>1. proc[p].code \in Codes /\ (proc[p].retained => files.failure \in Failure)
        BY <1>7 DEF Equipped, Record
      <3>2. bundle \in Failure
        <4>1. FailureOf(p, proc[p].code, FALSE, run) \in Failure
          BY <3>1, FailureType
        <4>2. decision \in Decisions \cup {Null}
          BY DEF Files
        <4>. QED
          BY <4>1, <4>2 DEF Failure
      <3>3. r \in Process /\ r.at = "install" /\ r.failure = bundle
            /\ r.retained = proc[p].retained
        <4>. HIDE DEF bundle
        <4>1. [proc[p] EXCEPT !.at = "install"] \in Process
          BY SetFields DEF Steps
        <4>2. r \in Process
          BY <3>2, <4>1, SetFields
        <4>. QED
          BY <4>1, <4>2 DEF Process
      <3>4. proc' = [proc EXCEPT ![p] = r]
        BY <1>7, <2>2 DEF Record
      <3>5. UNCHANGED <<ledger, files, run, orphans, invoked, abandoned, faults>>
        BY <1>7 DEF Record
      <3>6. proc' \in [Processes -> Process] /\ Equipped'
        <4>. HIDE DEF bundle, r
        <4>. QED
          BY <3>1, <3>2, <3>3, <3>4, <3>5, MoveEquipped
      <3>. QED
        BY <3>5, <3>6
    <2>. QED
      BY <2>1, <2>2
  <1>. QED
    BY <1>1, <1>2, <1>3, <1>4, <1>5, <1>6, <1>7 DEF Drive


\* The steps of a recovery.
LEMMA RecoverTypes ==
    ASSUME TypeOK, Equipped, NEW p \in Processes, Recover(p)
    PROVE  TypeOK' /\ Equipped'
  <1>. USE DEF TypeOK
  <1>0. proc[p] \in Process /\ (proc[p].retained => files.failure \in Failure)
    BY DEF Equipped
  <1>1. CASE Look(p)
    <2> DEFINE r == [[proc[p] EXCEPT !.at = "inspect"] EXCEPT !.retained = (files.failure # Null)]
    <2>1. proc' = [proc EXCEPT ![p] = r]
      BY <1>1 DEF Look
    <2>2. r \in Process
      BY <1>0, SetFields DEF Steps
    <2>3. r.at = "inspect" /\ r.retained = (files.failure # Null)
      BY DEF Process
    <2>4. proc' \in [Processes -> Process] /\ Equipped'
      <3>. HIDE DEF r
      <3>1. files' = files /\ (files.failure # Null => files.failure \in Failure)
        BY <1>1 DEF Look, Files
      <3>. HIDE DEF TypeOK
      <3>. QED
        BY <2>1, <2>2, <2>3, <3>1, MoveEquipped
    <2>. QED
      BY <1>1, <2>4 DEF Look
  <1>2. CASE Inspect(p)
    <2>1. CASE Plain(p)
      BY <1>2, <2>1, PlainStep DEF Inspect
    <2>2. CASE proc[p].retained /\ ~Plain(p)
      <3> DEFINE decision == IF files.failure.ready THEN files.decision ELSE Null
                 r == [[[proc[p] EXCEPT !.at = "judge"] EXCEPT !.ready = files.failure.ready]
                           EXCEPT !.decision = decision]
      <3>1. proc' = [proc EXCEPT ![p] = r]
        BY <1>2, <2>2 DEF Inspect, Resumes, Plain, Go, Stop, Report, Steps
      <3>2. files.failure \in Failure /\ decision \in Decisions \cup {Null}
        BY <1>0, <2>2 DEF Files
      <3>3. r \in Process /\ r.at = "judge"
        <4>. HIDE DEF decision
        <4>1. r \in Process
          BY <1>0, <3>2, SetFields DEF Steps, Failure
        <4>. QED
          BY <1>0, <4>1 DEF Process
      <3>4. proc' \in [Processes -> Process] /\ Equipped'
        <4>. HIDE DEF r
        <4>1. files' = files
          BY <1>2 DEF Inspect
        <4>. HIDE DEF TypeOK
        <4>. QED
          BY <3>1, <3>2, <3>3, <4>1, MoveEquipped
      <3>. QED
        BY <1>2, <3>4 DEF Inspect
    <2>3. CASE ~proc[p].retained /\ ~Plain(p)
      <3> DEFINE step == IF files.decision = Null THEN "claim" ELSE "observe"
                 r == [[[proc[p] EXCEPT !.at = step] EXCEPT !.ready = TRUE]
                           EXCEPT !.decision = files.decision]
      <3>1. proc' = [proc EXCEPT ![p] = r]
        <4>1. \A s \in {"finish", "observe", "base"} : ~Go(p, s)
          BY <2>3 DEF Plain, Steps, Driving
        <4>2. ~Stop(p)
          BY <2>3 DEF Plain, Stop, Report
        <4>3. ~Go(p, IF Replays THEN "observe" ELSE "base")
          BY <4>1
        <4>. HIDE DEF TypeOK
        <4>. QED
          BY <1>2, <2>3, <4>1, <4>2, <4>3 DEF Inspect
      <3>2. step \in {"claim", "observe"} /\ files.decision \in Decisions \cup {Null}
        BY DEF Files
      <3>3. r \in Process /\ r.at \in {"claim", "observe"} /\ ~r.retained
        <4>. HIDE DEF step
        <4>1. r \in Process
          BY <1>0, <3>2, SetFields DEF Steps
        <4>. QED
          BY <1>0, <2>3, <3>2, <4>1 DEF Process
      <3>4. proc' \in [Processes -> Process] /\ Equipped'
        <4>. HIDE DEF r
        <4>. QED
          BY <1>2, <3>1, <3>3, MoveEquipped DEF Inspect
      <3>. QED
        BY <1>2, <3>4 DEF Inspect
    <2>. QED
      BY <2>1, <2>2, <2>3
  <1>3. CASE Finish(p)
    <2>1. Plain(p)
      BY <1>3 DEF Finish, Plain, Go, Stop, Report, Outcomes, Completed, Steps, Driving
    <2>2. proc' \in [Processes -> Process] /\ Equipped'
      BY <1>3, <2>1, PlainStep DEF Finish
    <2>. QED
      BY <1>3, <2>2 DEF Finish
  <1>4. CASE LookBeforePreview(p)
    <2>1. Plain(p)
      BY <1>4 DEF LookBeforePreview, Plain, Go, Stop, Report, Steps, Driving
    <2>2. proc' \in [Processes -> Process] /\ Equipped'
      BY <1>4, <2>1, PlainStep DEF LookBeforePreview
    <2>. QED
      BY <1>4, <2>2 DEF LookBeforePreview
  <1>5. CASE Reconstruct(p)
    <2> DEFINE r == [[proc[p] EXCEPT !.at = "claim"] EXCEPT !.ready = TRUE]
    <2>1. CASE Plain(p)
      BY <1>5, <2>1, PlainStep DEF Reconstruct
    <2>2. CASE ~Plain(p)
      <3>1. proc' = [proc EXCEPT ![p] = r]
        BY <1>5, <2>2 DEF Reconstruct, Plain, Go, Stop, Report, Steps, Driving
      <3>2. r \in Process
        BY <1>0, SetFields DEF Steps
      <3>3. r.at = "claim" /\ r.retained = proc[p].retained
        BY DEF Process
      <3>4. proc' \in [Processes -> Process] /\ Equipped'
        <4>. HIDE DEF r
        <4>. QED
          BY <1>5, <2>2, <3>1, <3>2, <3>3, MoveEquipped, <1>0 DEF Reconstruct, Equipped
      <3>. QED
        BY <1>5, <2>2, <3>4 DEF Reconstruct
    <2>. QED
      BY <2>1, <2>2
  <1>6. CASE Claim(p)
    <2> DEFINE r == [[proc[p] EXCEPT !.decision = files'.decision]
                  EXCEPT !.at = (IF proc[p].at = "claim" THEN "observe" ELSE "persist")]
    <2>1. proc' = [proc EXCEPT ![p] = r]
      BY <1>0, <1>6 DEF Claim, Process
    <2>2. r \in Process
      BY <1>0, <1>6, SetFields DEF Claim, Steps, Files, Decisions, Linked
    <2>3. r.at \notin {"record", "install", "judge", "fail"} /\ r.retained = proc[p].retained
      BY DEF Process
    <2>4. proc' \in [Processes -> Process] /\ Equipped'
      <3>. HIDE DEF r
      <3>1. files'.failure = files.failure
        BY <1>6 DEF Claim, Files
      <3>. HIDE DEF TypeOK
      <3>. QED
        BY <2>1, <2>2, <2>3, <3>1, QuietMove
    <2>. QED
      BY <1>6, <2>4 DEF Claim, Files, Linked, Decisions
  <1>7. CASE Observe(p)
    <2> DEFINE r == [[proc[p] EXCEPT !.sees = run]
                  EXCEPT !.at = (IF run = <<>> /\ (proc[p].ready \/ ~Replays) THEN "fence" ELSE "late")]
    <2>1. proc' = [proc EXCEPT ![p] = r]
      BY <1>7 DEF Observe
    <2>2. r \in Process
      BY <1>0, SetFields DEF Steps
    <2>3. r.at \notin {"record", "install", "judge", "fail"} /\ r.retained = proc[p].retained
      BY DEF Process
    <2>4. proc' \in [Processes -> Process] /\ Equipped'
      <3>. HIDE DEF r
      <3>1. files'.failure = files.failure
        BY <1>7 DEF Observe
      <3>. HIDE DEF TypeOK
      <3>. QED
        BY <2>1, <2>2, <2>3, <3>1, QuietMove
    <2>. QED
      BY <1>7, <2>4 DEF Observe
  <1>8. CASE Fence(p)
    <2>1. Plain(p)
      BY <1>8 DEF Fence, Plain, Go, Stop, Report, Steps, Driving
    <2>2. proc' \in [Processes -> Process] /\ Equipped'
      BY <1>8, <2>1, PlainStep DEF Fence
    <2>. QED
      BY <1>8, <2>2, AppendType DEF Fence, Appends
  <1>9. CASE ObserveFence(p)
    <2>1. CASE Plain(p)
      BY <1>9, <2>1, PlainStep DEF ObserveFence
    <2>2. CASE run # <<>>
      <3> DEFINE r == [[[proc[p] EXCEPT !.sees = run] EXCEPT !.at = "late"] EXCEPT !.attempt = 0]
      <3>1. proc' = [proc EXCEPT ![p] = r]
        BY <1>9, <2>2 DEF ObserveFence
      <3>2. r \in Process
        <4>1. [[proc[p] EXCEPT !.sees = run] EXCEPT !.at = "late"] \in Process
          BY <1>0, SetFields DEF Steps
        <4>2. 0 \in 0 .. 2
          OBVIOUS
        <4>. QED
          BY <4>1, <4>2, SetFields
      <3>3. r.at = "late" /\ r.retained = proc[p].retained
        BY <1>0 DEF Process
      <3>4. proc' \in [Processes -> Process] /\ Equipped'
        <4>. HIDE DEF r
        <4>. QED
          BY <1>0, <1>9, <3>1, <3>2, <3>3, MoveEquipped DEF ObserveFence
      <3>. QED
        BY <1>9, <3>4 DEF ObserveFence
    <2>3. CASE run = <<>> /\ ~Plain(p)
      <3> DEFINE r == [[proc[p] EXCEPT !.at = "fence"] EXCEPT !.attempt = proc[p].attempt + 1]
      <3>1. proc' = [proc EXCEPT ![p] = r] /\ proc[p].attempt < 2
        BY <1>9, <2>3 DEF ObserveFence, Plain, Stop, Report
      <3>2. proc[p].attempt + 1 \in 0 .. 2
        BY <1>0, <3>1 DEF Process
      <3>3. r \in Process
        BY <1>0, <3>2, SetFields DEF Steps
      <3>4. r.at = "fence" /\ r.retained = proc[p].retained
        BY <1>0 DEF Process
      <3>5. proc' \in [Processes -> Process] /\ Equipped'
        <4>. HIDE DEF r
        <4>. QED
          BY <1>0, <1>9, <3>1, <3>3, <3>4, MoveEquipped DEF ObserveFence
      <3>. QED
        BY <1>9, <3>5 DEF ObserveFence
    <2>. QED
      BY <2>1, <2>2, <2>3
  <1>10. CASE AdoptLateReady(p)
    <2> DEFINE r == [[[proc[p] EXCEPT !.ready = TRUE] EXCEPT !.decision = files.decision]
                  EXCEPT !.at = (IF files.decision = Null THEN "claimLate" ELSE "persist")]
    <2>1. CASE Plain(p)
      BY <1>10, <2>1, PlainStep DEF AdoptLateReady
    <2>2. CASE ~Plain(p)
      <3>1. proc' = [proc EXCEPT ![p] = r]
        BY <1>10, <2>2 DEF AdoptLateReady, Plain, Go, Stop, Report, Steps, Driving
      <3>2. r \in Process
        BY <1>0, SetFields DEF Steps, Files
      <3>3. r.at \notin {"record", "install", "judge", "fail"} /\ r.retained = proc[p].retained
        BY DEF Process
      <3>4. proc' \in [Processes -> Process] /\ Equipped'
        <4>. HIDE DEF r
        <4>. QED
          BY <1>10, <2>2, <3>1, <3>2, <3>3, MoveEquipped, <1>0 DEF AdoptLateReady, Equipped
      <3>. QED
        BY <1>10, <2>2, <3>4 DEF AdoptLateReady
    <2>. QED
      BY <2>1, <2>2
  <1>11. CASE Persist(p)
    <2>1. Plain(p)
      BY <1>11 DEF Persist, Plain, Go, Stop, Report, Steps, Driving
    <2>2. proc' \in [Processes -> Process] /\ Equipped'
      BY <1>11, <2>1, PlainStep DEF Persist
    <2>. QED
      BY <1>11, <2>2 DEF Persist, Files, Observation, Linked, Process
  <1>12. CASE Conclude(p)
    <2>1. CASE files.failure # Null
      <3> DEFINE r == [proc[p] EXCEPT !.at = "judge"]
      <3>1. proc' = [proc EXCEPT ![p] = r]
        BY <1>12, <2>1 DEF Conclude, Go
      <3>2. files.failure \in Failure
        BY <2>1 DEF Files
      <3>3. r \in Process
        BY <1>0, SetFields DEF Steps
      <3>4. r.at = "judge"
        BY <1>0 DEF Process
      <3>5. proc' \in [Processes -> Process] /\ Equipped'
        <4>. HIDE DEF r
        <4>. QED
          BY <1>12, <3>1, <3>2, <3>3, <3>4, MoveEquipped DEF Conclude
      <3>. QED
        BY <1>12, <3>5 DEF Conclude
    <2>2. CASE files.failure = Null
      <3> DEFINE bundle == FailureOf(p, ExpectedFailure(proc[p].ready, proc[p].sees), TRUE,
                                     proc[p].sees)
                 r == [[proc[p] EXCEPT !.at = "install"] EXCEPT !.failure = bundle]
      <3>1. bundle \in Failure
        BY <1>0, ExpectedType, FailureType DEF Process
      <3>2. proc' = [proc EXCEPT ![p] = r]
        BY <1>12, <2>2 DEF Conclude
      <3>3. r \in Process
        <4>. HIDE DEF bundle
        <4>. QED
          BY <1>0, <3>1, SetFields DEF Steps
      <3>4. r.at = "install" /\ r.failure = bundle /\ r.retained = proc[p].retained
        <4>. HIDE DEF bundle
        <4>. QED
          BY <1>0 DEF Process
      <3>5. proc' \in [Processes -> Process] /\ Equipped'
        <4>1. UNCHANGED files
          BY <1>12 DEF Conclude
        <4>. HIDE DEF bundle, r
        <4>. QED
          BY <1>0, <3>1, <3>2, <3>3, <3>4, <4>1, MoveEquipped
      <3>. QED
        BY <1>12, <3>5 DEF Conclude
    <2>. QED
      BY <2>1, <2>2
  <1>13. CASE Judge(p)
    <2>1. CASE Plain(p)
      BY <1>13, <2>1, PlainStep DEF Judge
    <2>2. CASE ~Plain(p)
      <3> DEFINE r == [proc[p] EXCEPT !.at = "fail"]
      <3>1. files.failure \in Failure
        BY <1>13 DEF Judge, Equipped
      <3>2. files.failure.code \in Outcomes
        BY <3>1 DEF Failure, Outcomes
      <3>3. proc' = [proc EXCEPT ![p] = r]
        BY <1>13, <2>2, <3>2 DEF Judge, Plain, Go, Stop, Report
      <3>4. r \in Process
        BY <1>0, SetFields DEF Steps
      <3>5. r.at = "fail"
        BY <1>0 DEF Process
      <3>6. proc' \in [Processes -> Process] /\ Equipped'
        <4>. HIDE DEF r
        <4>. QED
          BY <1>13, <3>1, <3>3, <3>4, <3>5, MoveEquipped DEF Judge
      <3>. QED
        BY <1>13, <3>6 DEF Judge
    <2>. QED
      BY <2>1, <2>2
  <1>. QED
    BY <1>1, <1>2, <1>3, <1>4, <1>5, <1>6, <1>7, <1>8, <1>9, <1>10, <1>11, <1>12, <1>13
    DEF Recover

\* The steps that a driver and a recovery share.
LEMMA SharedTypes ==
    ASSUME TypeOK, Equipped, NEW p \in Processes, Shared(p)
    PROVE  TypeOK' /\ Equipped'
  <1>. USE DEF TypeOK
  <1>0. proc[p] \in Process /\ (proc[p].retained => files.failure \in Failure)
    BY DEF Equipped
  <1>1. CASE WriteReady(p)
    <2> DEFINE r == [[proc[p] EXCEPT !.ready = TRUE]
                  EXCEPT !.at = (IF proc[p].drives THEN "authorize" ELSE "claim")]
    <2>1. proc' = [proc EXCEPT ![p] = r]
      BY <1>0, <1>1 DEF WriteReady, Process
    <2>2. r \in Process
      BY <1>0, SetFields DEF Steps, Driving
    <2>3. r.at \notin {"record", "install", "judge", "fail"} /\ r.retained = proc[p].retained
      BY DEF Process
    <2>4. proc' \in [Processes -> Process] /\ Equipped'
      <3>. HIDE DEF r
      <3>1. files'.failure = files.failure
        BY <1>1 DEF WriteReady, Files
      <3>. QED
        BY <1>0, <2>1, <2>2, <2>3, <3>1, MoveEquipped
    <2>. QED
      BY <1>1, <2>4 DEF WriteReady, Files
  <1>2. CASE Verify(p)
    <2>1. CASE Plain(p)
      BY <1>2, <2>1, PlainStep DEF Verify
    <2>2. CASE ~Plain(p)
      <3> DEFINE bundle == FailureOf(p, "proposal.post-admission", TRUE, proc[p].sees)
                 r == [[proc[p] EXCEPT !.at = "install"] EXCEPT !.failure = bundle]
      <3>1. bundle \in Failure
        BY <1>0, FailureType DEF Process, Codes
      <3>2. proc' = [proc EXCEPT ![p] = r] /\ UNCHANGED files
        BY <1>2, <2>2 DEF Verify, Plain, Go, Blame, Codes, Steps, Driving
      <3>3. r \in Process
        <4>. HIDE DEF bundle
        <4>. QED
          BY <1>0, <3>1, SetFields DEF Steps
      <3>4. r.at = "install" /\ r.failure = bundle /\ r.retained = proc[p].retained
        <4>. HIDE DEF bundle
        <4>. QED
          BY <1>0 DEF Process
      <3>5. proc' \in [Processes -> Process] /\ Equipped'
        <4>. HIDE DEF bundle, r
        <4>. QED
          BY <1>0, <3>1, <3>2, <3>3, <3>4, MoveEquipped
      <3>. QED
        BY <1>2, <3>5 DEF Verify
    <2>. QED
      BY <2>1, <2>2
  <1>3. CASE WriteResult(p)
    <2>1. Plain(p)
      BY <1>3 DEF WriteResult, Plain, Go, Blame, BlameOrStop, Stop, Report, Codes, Steps, Driving
    <2>2. proc' \in [Processes -> Process] /\ Equipped'
      BY <1>3, <2>1, PlainStep DEF WriteResult, Files
    <2>. QED
      BY <1>3, <2>2 DEF WriteResult, Files, Linked, Process
  <1>4. CASE Complete(p)
    <2>1. Plain(p)
      BY <1>4
      DEF Complete, Plain, Blame, BlameOrStop, Stop, Report, Codes, Outcomes, Completed, Steps, Driving
    <2>2. proc' \in [Processes -> Process] /\ Equipped'
      BY <1>4, <2>1, PlainStep DEF Complete
    <2>. QED
      BY <1>4, <2>2 DEF Complete, Ledger, Linked, Outcomes, Completed
  <1>5. CASE Install(p)
    <2>1. proc[p].failure \in Failure
      BY <1>5 DEF Install, Equipped
    <2>2. files'.failure \in Failure /\ files' \in Files
      BY <1>5, <2>1 DEF Install, Linked, Files
    <2>3. CASE Plain(p)
      BY <1>5, <2>2, <2>3, PlainStep DEF Install
    <2>4. CASE ~Plain(p)
      <3> DEFINE step == IF proc[p].drives THEN "fail" ELSE "judge"
                 r == [[proc[p] EXCEPT !.failure = Null] EXCEPT !.at = step]
      <3>1. proc' = [proc EXCEPT ![p] = r]
        BY <1>0, <1>5, <2>4 DEF Install, Plain, Stop, Report, Process
      <3>2. r \in Process
        BY <1>0, SetFields DEF Steps
      <3>3. r.at \in {"fail", "judge"}
        BY <1>0 DEF Process
      <3>4. proc' \in [Processes -> Process] /\ Equipped'
        <4>. HIDE DEF r
        <4>. QED
          BY <2>2, <3>1, <3>2, <3>3, MoveEquipped
      <3>. QED
        BY <1>5, <2>2, <3>4 DEF Install
    <2>. QED
      BY <2>3, <2>4
  <1>6. CASE Fail(p)
    <2>1. files.failure \in Failure
      BY <1>6 DEF Fail, Equipped
    <2>2. files.failure.code \in Outcomes
      BY <2>1 DEF Failure, Outcomes
    <2>3. Plain(p)
      BY <1>6, <2>2 DEF Fail, Plain, Stop, Report
    <2>4. proc' \in [Processes -> Process] /\ Equipped'
      BY <1>6, <2>3, PlainStep DEF Fail
    <2>. QED
      BY <1>6, <2>2, <2>4 DEF Fail, Ledger, Linked
  <1>. QED
    BY <1>1, <1>2, <1>3, <1>4, <1>5, <1>6 DEF Shared

\* Resumes begin, and calls fail.
LEMMA OtherTypes ==
    ASSUME TypeOK, Equipped, NEW p \in Processes, BeginDrive(p) \/ BeginRecovery(p) \/ Disturb(p)
    PROVE  TypeOK' /\ Equipped'
  <1>. USE DEF TypeOK
  <1>0. proc[p] \in Process /\ (proc[p].retained => files.failure \in Failure)
    BY DEF Equipped
  <1>1. CASE BeginDrive(p)
    <2> DEFINE r == [[Rest(Null) EXCEPT !.at = "reserve"] EXCEPT !.drives = TRUE]
    <2>1. proc' = [proc EXCEPT ![p] = r]
      BY <1>1 DEF BeginDrive
    <2>2. r \in Process
      BY RestType, SetFields DEF Steps
    <2>3. r.at = "reserve" /\ ~r.retained
      BY DEF Rest
    <2>4. proc' \in [Processes -> Process] /\ Equipped'
      <3>. HIDE DEF r
      <3>. QED
        BY <1>1, <2>1, <2>2, <2>3, MoveEquipped DEF BeginDrive, Equipped
    <2>. QED
      BY <1>1, <2>4 DEF BeginDrive
  <1>2. CASE BeginRecovery(p)
    <2> DEFINE r == [[Rest(Null) EXCEPT !.at = "look"] EXCEPT !.snapshot = ledger.outcome]
    <2>1. proc' = [proc EXCEPT ![p] = r]
      BY <1>2 DEF BeginRecovery
    <2>2. r \in Process
      BY RestType, SetFields DEF Steps, Ledger
    <2>3. r.at = "look" /\ ~r.retained
      BY DEF Rest
    <2>4. proc' \in [Processes -> Process] /\ Equipped'
      <3>. HIDE DEF r
      <3>. QED
        BY <1>2, <2>1, <2>2, <2>3, MoveEquipped DEF BeginRecovery, Equipped
    <2>. QED
      BY <1>2, <2>4 DEF BeginRecovery
  <1>3. CASE Crash(p)
    <2>1. Plain(p)
      BY <1>3 DEF Crash, Plain, Stop, Report, Steps, Driving
    <2>2. proc' \in [Processes -> Process] /\ Equipped'
      BY <1>3, <2>1, PlainStep DEF Crash
    <2>. QED
      BY <1>3, <2>2, PilotConstants DEF Crash, Fault
  <1>4. CASE DriverCallFails(p)
    <2>1. StageCode(proc[p].at) \in Codes
      BY DEF StageCode, Codes
    <2>2. Plain(p)
      BY <1>4, <2>1 DEF DriverCallFails, Plain
    <2>3. proc' \in [Processes -> Process] /\ Equipped'
      BY <1>4, <2>2, PlainStep DEF DriverCallFails
    <2>4. run' \in Runs
      BY <1>4, AppendType DEF DriverCallFails, Appends
    <2>5. orphans' \subseteq {"admission", "fence"} /\ abandoned' \in BOOLEAN
      BY <1>4 DEF DriverCallFails
    <2>. QED
      BY <1>4, <2>3, <2>4, <2>5, PilotConstants DEF DriverCallFails, Fault
  <1>5. CASE RecordBlindly(p)
    <2> DEFINE bundle == FailureOf(p, "local", FALSE, <<>>)
               r == [[proc[p] EXCEPT !.at = "install"] EXCEPT !.failure = bundle]
    <2>1. bundle \in Failure
      <3>1. <<>> \in Runs /\ "local" \in Codes
        BY DEF Runs, Codes
      <3>. QED
        BY <3>1, FailureType
    <2>2. proc' = [proc EXCEPT ![p] = r] /\ UNCHANGED files
      BY <1>5 DEF RecordBlindly
    <2>3. r \in Process
      <3>. HIDE DEF bundle
      <3>. QED
        BY <1>0, <2>1, SetFields DEF Steps
    <2>4. r.at = "install" /\ r.failure = bundle /\ r.retained = proc[p].retained
      <3>. HIDE DEF bundle
      <3>. QED
        BY <1>0 DEF Process
    <2>5. proc' \in [Processes -> Process] /\ Equipped'
      <3>. HIDE DEF bundle, r
      <3>. QED
        BY <1>0, <2>1, <2>2, <2>3, <2>4, MoveEquipped
    <2>. QED
      BY <1>5, <2>5, PilotConstants DEF RecordBlindly, Fault
  <1>6. CASE FenceFails(p)
    <2>1. Plain(p)
      BY <1>6 DEF FenceFails, Plain, Go, Steps, Driving
    <2>2. proc' \in [Processes -> Process] /\ Equipped'
      BY <1>6, <2>1, PlainStep DEF FenceFails
    <2>3. orphans' \subseteq {"admission", "fence"}
      BY <1>6 DEF FenceFails
    <2>. QED
      BY <1>6, <2>2, <2>3, PilotConstants DEF FenceFails, Fault
  <1>. QED
    BY <1>1, <1>2, <1>3, <1>4, <1>5, <1>6 DEF Disturb

LEMMA TypesCorrect == Spec => [](TypeOK /\ Equipped)
  <1>1. Init => TypeOK /\ Equipped
    <2> SUFFICES ASSUME Init PROVE TypeOK /\ Equipped
      OBVIOUS
    <2>1. proc = [p \in Processes |-> Rest(Null)] /\ abandoned = FALSE
      BY DEF Init
    <2>2. Rest(Null) \in Process
      BY RestType
    <2>3. Equipped
      BY <2>1 DEF Equipped, At, Rest
    <2>4. abandoned \in BOOLEAN
      BY <2>1
    <2>5. ledger \in Ledger /\ files \in Files /\ run \in Runs
      BY DEF Init, Ledger, Files, Runs
    <2>6. orphans = {} /\ invoked = 0 /\ faults = 0
      BY DEF Init
    <2>. QED
      BY <2>1, <2>2, <2>3, <2>4, <2>5, <2>6, PilotConstants DEF TypeOK
  <1>2. TypeOK /\ Equipped /\ [Next]_vars => (TypeOK /\ Equipped)'
    <2> SUFFICES ASSUME TypeOK, Equipped, [Next]_vars
                 PROVE  (TypeOK /\ Equipped)'
      OBVIOUS
    <2>1. ASSUME NEW p \in Processes, Resume(p) \/ Disturb(p)
          PROVE  (TypeOK /\ Equipped)'
      BY <2>1, DriveTypes, RecoverTypes, SharedTypes, OtherTypes DEF Resume
    <2>2. CASE OrphanSettles
      <3>1. run' \in Runs
        BY <2>2, AppendType DEF OrphanSettles, TypeOK, Appends
      <3>. QED
        BY <2>2, <3>1 DEF OrphanSettles, TypeOK, Equipped, At
    <2>3. CASE Outside
      <3>1. run' \in Runs
        BY <2>3 DEF Outside, TypeOK, Runs, Appends
      <3>. QED
        BY <2>3, <3>1 DEF Outside, TypeOK, Equipped, At
    <2>4. CASE UNCHANGED vars
      BY <2>4 DEF vars, TypeOK, Equipped, At
    <2>. QED
      BY <2>1, <2>2, <2>3, <2>4 DEF Next
  <1>. QED
    BY <1>1, <1>2, PTL DEF Spec

\* The state of the phase keeps its type for any number of processes, faults and appends from
\* outside: a run stays a sequence of the three appends, and what a process records, installs
\* or judges is a failure.
THEOREM TypeCorrect == Spec => []TypeOK
  BY TypesCorrect, PTL

----------------------------------------------------------------------------
(* Who writes                                                              *)

\* The step from which a process can have come to the steps that matter below.
Entered(p) ==
    /\ \A q \in Processes \ {p} : proc'[q] = proc[q]
    /\ At(p, "invoke")' => Reserve(p)
    /\ At(p, "authorize")' => WriteReady(p)
    /\ At(p, "admit")' => Authorize(p)
    /\ At(p, "claim")' => WriteReady(p) \/ Inspect(p) \/ Reconstruct(p)
    /\ At(p, "observe")' => Inspect(p) \/ LookBeforePreview(p) \/ Claim(p)
    /\ At(p, "fence")' => Observe(p) \/ ObserveFence(p)
    /\ At(p, "refenced")' => Fence(p) \/ FenceFails(p)
    /\ At(p, "look")' => BeginRecovery(p)
    /\ At(p, "inspect")' => Look(p)

\* A process that is about to install a failure has come to none of them.
LEMMA InstallEntry ==
    ASSUME TypeOK, NEW p \in Processes, NEW bundle,
           proc' = [proc EXCEPT ![p].at = "install", ![p].failure = bundle]
    PROVE  Entered(p)
  BY DEF Entered, At, TypeOK, Process

LEMMA Entry ==
    ASSUME TypeOK, NEW p \in Processes, Resume(p) \/ Disturb(p)
    PROVE  Entered(p)
  <1>. USE DEF Entered, At, Go, Stop, Report, Blame, BlameOrStop, Rest
  <1>0. proc \in [Processes -> Process] /\ proc[p] \in Process
    BY DEF TypeOK
  <1>1. CASE Reserve(p)
    BY <1>0, <1>1 DEF Reserve, Process
  <1>2. CASE Invoke(p)
    BY <1>0, <1>2 DEF Invoke, Process
  <1>3. CASE Capture(p)
    BY <1>0, <1>3 DEF Capture, Process
  <1>4. CASE Preview(p)
    BY <1>0, <1>4 DEF Preview, Process
  <1>5. CASE Authorize(p)
    BY <1>0, <1>5 DEF Authorize, Process
  <1>6. CASE Admit(p)
    BY <1>0, <1>6 DEF Admit, Process
  <1>7. CASE Record(p)
    <2>1. CASE Stop(p)
      BY <1>0, <1>7, <2>1 DEF Record, Process
    <2>2. CASE ~(Stop(p))
      <3>1. \E bundle : proc' = [proc EXCEPT ![p].at = "install", ![p].failure = bundle]
        <4>. HIDE DEF Entered
        <4>. QED
          BY <1>7, <2>2 DEF Record
      <3>. QED
        BY <3>1, InstallEntry
    <2>. QED
      BY <2>1, <2>2
  <1>8. CASE Look(p)
    BY <1>0, <1>8 DEF Look, Process
  <1>9. CASE Inspect(p)
    BY <1>0, <1>9 DEF Inspect, Process
  <1>10. CASE Finish(p)
    BY <1>0, <1>10 DEF Finish, Process
  <1>11. CASE LookBeforePreview(p)
    BY <1>0, <1>11 DEF LookBeforePreview, Process
  <1>12. CASE Reconstruct(p)
    BY <1>0, <1>12 DEF Reconstruct, Process
  <1>13. CASE Claim(p)
    BY <1>0, <1>13 DEF Claim, Process
  <1>14. CASE Observe(p)
    BY <1>0, <1>14 DEF Observe, Process
  <1>15. CASE Fence(p)
    BY <1>0, <1>15 DEF Fence, Process
  <1>16. CASE ObserveFence(p)
    BY <1>0, <1>16 DEF ObserveFence, Process
  <1>17. CASE AdoptLateReady(p)
    BY <1>0, <1>17 DEF AdoptLateReady, Process
  <1>18. CASE Persist(p)
    BY <1>0, <1>18 DEF Persist, Process
  <1>19. CASE Conclude(p)
    <2>1. CASE files.failure # Null
      <3>1. Go(p, "judge")
        BY <1>19, <2>1 DEF Conclude
      <3>. QED
        BY <1>0, <3>1 DEF Process
    <2>2. CASE ~(files.failure # Null)
      <3>1. \E bundle : proc' = [proc EXCEPT ![p].at = "install", ![p].failure = bundle]
        <4>. HIDE DEF Entered
        <4>. QED
          BY <1>19, <2>2 DEF Conclude
      <3>. QED
        BY <3>1, InstallEntry
    <2>. QED
      BY <2>1, <2>2
  <1>20. CASE Judge(p)
    BY <1>0, <1>20 DEF Judge, Process
  <1>21. CASE WriteReady(p)
    BY <1>0, <1>21 DEF WriteReady, Process
  <1>22. CASE Verify(p)
    <2>1. CASE At(p, "verify") /\ (Go(p, "result") \/ Blame(p, "proposal.post-admission", TRUE))
      BY <1>0, <1>22, <2>1 DEF Verify, Process
    <2>2. CASE ~(At(p, "verify") /\ (Go(p, "result") \/ Blame(p, "proposal.post-admission", TRUE)))
      <3>1. \E bundle : proc' = [proc EXCEPT ![p].at = "install", ![p].failure = bundle]
        <4>. HIDE DEF Entered
        <4>. QED
          BY <1>22, <2>2 DEF Verify
      <3>. QED
        BY <3>1, InstallEntry
    <2>. QED
      BY <2>1, <2>2
  <1>23. CASE WriteResult(p)
    BY <1>0, <1>23 DEF WriteResult, Process
  <1>24. CASE Complete(p)
    BY <1>0, <1>24 DEF Complete, Process
  <1>25. CASE Install(p)
    BY <1>0, <1>25 DEF Install, Process
  <1>26. CASE Fail(p)
    BY <1>0, <1>26 DEF Fail, Process
  <1>27. CASE BeginDrive(p)
    BY <1>0, <1>27 DEF BeginDrive, Process
  <1>28. CASE BeginRecovery(p)
    BY <1>0, <1>28 DEF BeginRecovery, Process
  <1>29. CASE Crash(p)
    BY <1>0, <1>29 DEF Crash, Process
  <1>30. CASE DriverCallFails(p)
    BY <1>0, <1>30 DEF DriverCallFails, Process
  <1>31. CASE RecordBlindly(p)
    BY <1>0, <1>31 DEF RecordBlindly, Process
  <1>32. CASE FenceFails(p)
    BY <1>0, <1>32 DEF FenceFails, Process
  <1>. HIDE DEF Entered
  <1>. QED
    BY <1>1, <1>2, <1>3, <1>4, <1>5, <1>6, <1>7, <1>8, <1>9, <1>10, <1>11, <1>12, <1>13,
       <1>14, <1>15, <1>16, <1>17, <1>18, <1>19, <1>20, <1>21, <1>22, <1>23, <1>24, <1>25,
       <1>26, <1>27, <1>28, <1>29, <1>30, <1>31, <1>32
    DEF Resume, Drive, Recover, Shared, Disturb

\* What a step of a process may do to what others see: no file is taken back, and only the
\* actions named here reserve, invoke or write to the run.
Effect(p) ==
    /\ files.ready => files'.ready
    /\ files.decision # Null => files'.decision = files.decision
    /\ Replays => Replays'
    /\ ledger'.owner = ledger.owner \/ Reserve(p)
    /\ invoked' = invoked \/ Invoke(p)
    /\ \/ UNCHANGED run
       \/ At(p, "admit") /\ AppendAtBase("admission")
       \/ At(p, "fence") /\ AppendAtBase("fence")
    /\ "admission" \in orphans' => "admission" \in orphans \/ At(p, "admit")
    /\ "fence" \in orphans' => "fence" \in orphans \/ At(p, "fence")

LEMMA Effects ==
    ASSUME TypeOK, NEW p \in Processes, Resume(p) \/ Disturb(p)
    PROVE  Effect(p)
  <1>. USE PilotConstants DEF Effect, Replays
  <1>0. files \in Files /\ ledger \in Ledger
    BY DEF TypeOK
  <1>1. CASE Reserve(p)
    BY <1>0, <1>1 DEF Reserve
  <1>2. CASE Invoke(p)
    BY <1>0, <1>2 DEF Invoke
  <1>3. CASE Capture(p)
    BY <1>0, <1>3 DEF Capture, Files, Ledger, Linked
  <1>4. CASE Preview(p)
    BY <1>0, <1>4 DEF Preview
  <1>5. CASE Authorize(p)
    BY <1>0, <1>5 DEF Authorize, Files, Ledger, Linked
  <1>6. CASE Admit(p)
    BY <1>0, <1>6 DEF Admit
  <1>7. CASE Record(p)
    BY <1>0, <1>7 DEF Record
  <1>8. CASE Look(p)
    BY <1>0, <1>8 DEF Look
  <1>9. CASE Inspect(p)
    BY <1>0, <1>9 DEF Inspect
  <1>10. CASE Finish(p)
    BY <1>0, <1>10 DEF Finish
  <1>11. CASE LookBeforePreview(p)
    BY <1>0, <1>11 DEF LookBeforePreview
  <1>12. CASE Reconstruct(p)
    BY <1>0, <1>12 DEF Reconstruct
  <1>13. CASE Claim(p)
    BY <1>0, <1>13 DEF Claim, Files, Ledger, Linked
  <1>14. CASE Observe(p)
    BY <1>0, <1>14 DEF Observe
  <1>15. CASE Fence(p)
    BY <1>0, <1>15 DEF Fence
  <1>16. CASE ObserveFence(p)
    BY <1>0, <1>16 DEF ObserveFence
  <1>17. CASE AdoptLateReady(p)
    BY <1>0, <1>17 DEF AdoptLateReady
  <1>18. CASE Persist(p)
    BY <1>0, <1>18 DEF Persist, Files, Ledger, Linked
  <1>19. CASE Conclude(p)
    BY <1>0, <1>19 DEF Conclude
  <1>20. CASE Judge(p)
    BY <1>0, <1>20 DEF Judge
  <1>21. CASE WriteReady(p)
    BY <1>0, <1>21 DEF WriteReady, Files, Ledger, Linked
  <1>22. CASE Verify(p)
    BY <1>0, <1>22 DEF Verify
  <1>23. CASE WriteResult(p)
    BY <1>0, <1>23 DEF WriteResult, Files, Ledger, Linked
  <1>24. CASE Complete(p)
    BY <1>0, <1>24 DEF Complete, Files, Ledger, Linked
  <1>25. CASE Install(p)
    BY <1>0, <1>25 DEF Install, Files, Ledger, Linked
  <1>26. CASE Fail(p)
    BY <1>0, <1>26 DEF Fail, Files, Ledger, Linked
  <1>27. CASE BeginDrive(p)
    BY <1>0, <1>27 DEF BeginDrive
  <1>28. CASE BeginRecovery(p)
    BY <1>0, <1>28 DEF BeginRecovery
  <1>29. CASE Crash(p)
    BY <1>0, <1>29 DEF Crash
  <1>30. CASE DriverCallFails(p)
    BY <1>0, <1>30 DEF DriverCallFails
  <1>31. CASE RecordBlindly(p)
    BY <1>0, <1>31 DEF RecordBlindly
  <1>32. CASE FenceFails(p)
    BY <1>0, <1>32 DEF FenceFails
  <1>. HIDE DEF Effect
  <1>. QED
    BY <1>1, <1>2, <1>3, <1>4, <1>5, <1>6, <1>7, <1>8, <1>9, <1>10, <1>11, <1>12, <1>13,
       <1>14, <1>15, <1>16, <1>17, <1>18, <1>19, <1>20, <1>21, <1>22, <1>23, <1>24, <1>25,
       <1>26, <1>27, <1>28, <1>29, <1>30, <1>31, <1>32
    DEF Resume, Drive, Recover, Shared, Disturb

----------------------------------------------------------------------------
(* The provider is called once                                             *)

\* Only the process that holds the reservation is about to invoke, and not once it has.
Reserved ==
    /\ invoked = 0 \/ invoked = 1
    /\ invoked = 1 => ledger.owner # Null /\ \A p \in Processes : ~At(p, "invoke")
    /\ \A p \in Processes : At(p, "invoke") => ledger.owner = p

LEMMA ReservedStep ==
    ASSUME TypeOK, Reserved, NEW p \in Processes, Resume(p) \/ Disturb(p)
    PROVE  Reserved'
  <1>1. /\ \A q \in Processes \ {p} : proc'[q] = proc[q]
        /\ At(p, "invoke")' => Reserve(p)
    BY Entry DEF Entered
  <1>2. /\ ledger'.owner = ledger.owner \/ Reserve(p)
        /\ invoked' = invoked \/ Invoke(p)
    BY Effects DEF Effect
  <1>3. CASE Reserve(p)
    <2>1. invoked' = invoked
      BY <1>3 DEF Reserve
    <2>2. CASE ledger.owner = Null
      <3>1. invoked = 0 /\ \A q \in Processes : ~At(q, "invoke")
        BY <2>2, PilotConstants DEF Reserved
      <3>2. ledger'.owner = p
        BY <1>3, <2>2 DEF Reserve, Linked, TypeOK, Ledger
      <3>. QED
        BY <1>1, <2>1, <3>1, <3>2 DEF Reserved, At
    <2>3. CASE ledger.owner # Null
      <3>1. ledger'.owner = ledger.owner
        BY <1>3, <2>3 DEF Reserve, Linked, TypeOK, Ledger
      <3>2. ~At(p, "invoke")'
        BY <1>3, <2>3 DEF Reserve, At, Stop, Rest, TypeOK
      <3>. QED
        BY <1>1, <2>1, <3>1, <3>2 DEF Reserved, At
    <2>. QED
      BY <2>2, <2>3
  <1>4. CASE Invoke(p)
    <2>1. ledger.owner = p /\ ledger' = ledger /\ invoked = 0 /\ invoked' = 1
      BY <1>4 DEF Invoke, Reserved
    <2>2. ~Reserve(p)
      BY <1>4 DEF Invoke, Reserve, At
    <2>3. \A q \in Processes \ {p} : ~At(q, "invoke")
      BY <2>1 DEF Reserved
    <2>. QED
      BY <1>1, <2>1, <2>2, <2>3, PilotConstants DEF Reserved, At
  <1>5. CASE ~Reserve(p) /\ ~Invoke(p)
    BY <1>1, <1>2, <1>5 DEF Reserved, At
  <1>. QED
    BY <1>3, <1>4, <1>5

LEMMA ReservedCorrect == Spec => []Reserved
  <1>1. Init => Reserved
    BY DEF Init, Reserved, At, Rest
  <1>2. TypeOK /\ Reserved /\ [Next]_vars => Reserved'
    <2> SUFFICES ASSUME TypeOK, Reserved, [Next]_vars
                 PROVE  Reserved'
      OBVIOUS
    <2>1. ASSUME NEW p \in Processes, Resume(p) \/ Disturb(p)
          PROVE  Reserved'
      BY <2>1, ReservedStep
    <2>2. CASE OrphanSettles \/ Outside \/ UNCHANGED vars
      BY <2>2 DEF OrphanSettles, Outside, vars, Reserved, At
    <2>. QED
      BY <2>1, <2>2 DEF Next
  <1>. QED
    BY <1>1, <1>2, TypeCorrect, PTL DEF Spec

\* However many processes resume and whatever crashes, the provider is invoked at most once, and
\* for a reservation in the ledger (claimProviderInvocation).
THEOREM InvokedOnce == Spec => []ProviderOnce
  <1>1. Reserved => ProviderOnce
    BY DEF Reserved, ProviderOnce
  <1>. QED
    BY <1>1, ReservedCorrect, PTL

----------------------------------------------------------------------------
(* The run is written by its owner                                         *)

Authorized == files.ready /\ files.decision = "admission-authorized"
Decided == files.ready /\ files.decision # Null

\* Who is about to write to the run has the documents for it, and so has every append that
\* nobody waits for any more.
Entitled ==
    /\ \A p \in Processes :
        /\ At(p, "authorize") \/ At(p, "claim") => files.ready
        /\ At(p, "admit") => Authorized
        /\ At(p, "fence") \/ At(p, "refenced") => Decided
        /\ At(p, "look") \/ At(p, "inspect") => ~proc[p].ready
        /\ At(p, "observe") => Decided \/ run # <<>> \/ (Replays /\ ~proc[p].ready)
    /\ "admission" \in orphans => Authorized
    /\ "fence" \in orphans => Decided

\* An append at the base by who is entitled keeps the run well owned.
LEMMA AppendOwned ==
    ASSUME TypeOK, WritesAreOwned, NEW what \in {"admission", "fence"}, AppendAtBase(what),
           what = "admission" => Authorized,
           what = "fence" => Decided,
           Authorized => Authorized',
           Decided => Decided'
    PROVE  WritesAreOwned'
  <1>1. CASE run = <<>>
    <2>1. run' = <<what>>
      BY <1>1 DEF AppendAtBase
    <2>2. \A w : Holds(w)' => w = what
      BY <2>1 DEF Holds
    <2>. QED
      BY <2>2 DEF WritesAreOwned, Authorized, Decided
  <1>2. CASE run # <<>>
    <2>1. run' = run
      BY <1>2 DEF AppendAtBase
    <2>. QED
      BY <2>1 DEF WritesAreOwned, Holds, Authorized, Decided
  <1>. QED
    BY <1>1, <1>2

\* One step of a process leaves it entitled to what it does next.
LEMMA EntitledStep ==
    ASSUME TypeOK, Entitled, NEW p \in Processes, Resume(p) \/ Disturb(p)
    PROVE  Entitled'
  <1>. DEFINE Owns(q) ==
           /\ At(q, "authorize") \/ At(q, "claim") => files.ready
           /\ At(q, "admit") => Authorized
           /\ At(q, "fence") \/ At(q, "refenced") => Decided
           /\ At(q, "look") \/ At(q, "inspect") => ~proc[q].ready
           /\ At(q, "observe") => Decided \/ run # <<>> \/ (Replays /\ ~proc[q].ready)
  <1>0. /\ Owns(p) /\ proc[p] \in Process /\ files \in Files /\ p \in DOMAIN proc
        /\ proc \in [Processes -> Process]
    BY DEF Entitled, TypeOK
  <1>1. Entered(p) /\ Effect(p)
    BY Entry, Effects
  <1>2. /\ files.ready => files'.ready
        /\ Authorized => Authorized'
        /\ Decided => Decided'
        /\ Replays => Replays'
        /\ run # <<>> => run' # <<>>
    BY <1>1, PilotConstants DEF Effect, Authorized, Decided, AppendAtBase
  <1>3. ASSUME NEW q \in Processes \ {p} PROVE Owns(q)'
    <2>1. Owns(q) /\ proc'[q] = proc[q]
      BY <1>1 DEF Entitled, Entered
    <2>. QED
      BY <1>2, <2>1 DEF At
  <1>4. At(p, "authorize")' \/ At(p, "claim")' => files'.ready
    <2>1. CASE WriteReady(p)
      BY <1>0, <2>1 DEF WriteReady, Files
    <2>2. CASE Inspect(p)
      BY <1>0, <1>2, <2>2 DEF Inspect, At, Go, Stop, Rest, Process
    <2>3. CASE Reconstruct(p)
      BY <1>0, <1>2, <2>3 DEF Reconstruct, At, Go, Stop, Rest, Process
    <2>. QED
      BY <1>1, <2>1, <2>2, <2>3 DEF Entered
  <1>5. At(p, "admit")' => Authorized'
    <2>1. ASSUME Authorize(p), At(p, "admit")' PROVE Authorized'
      <3>1. files.ready /\ files'.ready
        BY <1>0, <1>2, <2>1 DEF Authorize
      <3>2. files'.decision = "admission-authorized"
        BY <1>0, <2>1 DEF Authorize, At, Stop, Rest
      <3>. QED
        BY <3>1, <3>2 DEF Authorized
    <2>. QED
      BY <1>1, <2>1 DEF Entered
  <1>6. At(p, "fence")' \/ At(p, "refenced")' => Decided'
    <2>1. ASSUME Observe(p), At(p, "fence")' PROVE Decided
      BY <1>0, <2>1 DEF Observe, At, Process
    <2>2. CASE Fence(p) \/ FenceFails(p) \/ ObserveFence(p)
      BY <1>0, <1>2, <2>2 DEF Fence, FenceFails, ObserveFence
    <2>. QED
      BY <1>1, <1>2, <2>1, <2>2 DEF Entered, At
  <1>7. At(p, "look")' \/ At(p, "inspect")' => ~proc'[p].ready
    <2>1. CASE BeginRecovery(p)
      BY <1>0, <2>1 DEF BeginRecovery, Rest
    <2>2. CASE Look(p)
      BY <1>0, <2>2 DEF Look, Process
    <2>. QED
      BY <1>1, <2>1, <2>2 DEF Entered
  <1>8. At(p, "observe")' => Decided' \/ run' # <<>> \/ (Replays' /\ ~proc'[p].ready)
    <2>1. ASSUME Inspect(p), At(p, "observe")'
          PROVE  Decided \/ (Replays /\ ~proc'[p].ready)
      <3>1. ~proc[p].ready
        BY <1>0, <2>1 DEF Inspect
      <3>. QED
        BY <1>0, <2>1, <3>1 DEF Inspect, Decided, At, Go, Stop, Rest, Process
    <2>2. ASSUME LookBeforePreview(p), At(p, "observe")' PROVE run # <<>>
      BY <1>0, <2>2 DEF LookBeforePreview, At, Go, Process
    <2>3. ASSUME Claim(p), At(p, "observe")' PROVE Decided'
      <3>1. At(p, "claim")
        BY <1>0, <2>3 DEF Claim, At, Process
      <3>2. files'.ready
        BY <1>0, <1>2, <3>1
      <3>3. files'.decision # Null
        BY <1>0, <2>3, PilotConstants DEF Claim, Linked, Files
      <3>. QED
        BY <3>2, <3>3 DEF Decided
    <2>. QED
      BY <1>1, <1>2, <2>1, <2>2, <2>3 DEF Entered
  <1>9. /\ "admission" \in orphans' => Authorized'
        /\ "fence" \in orphans' => Decided'
    BY <1>0, <1>1, <1>2 DEF Entitled, Effect
  <1>10. Owns(p)'
    BY <1>4, <1>5, <1>6, <1>7, <1>8
  <1>. QED
    BY <1>3, <1>9, <1>10 DEF Entitled

LEMMA OwnedCorrect == Spec => [](Entitled /\ WritesAreOwned)
  <1>1. Init => Entitled /\ WritesAreOwned
    BY DEF Init, Entitled, WritesAreOwned, Holds, At, Rest
  <1>2. TypeOK /\ Entitled /\ WritesAreOwned /\ [Next]_vars => (Entitled /\ WritesAreOwned)'
    <2> SUFFICES ASSUME TypeOK, Entitled, WritesAreOwned, [Next]_vars
                 PROVE  Entitled' /\ WritesAreOwned'
      OBVIOUS
    <2>1. ASSUME NEW p \in Processes, Resume(p) \/ Disturb(p)
          PROVE  Entitled' /\ WritesAreOwned'
      <3>1. Entitled'
        BY <2>1, EntitledStep
      <3>2. Effect(p)
        BY <2>1, Effects
      <3>3. (Authorized => Authorized') /\ (Decided => Decided')
        BY <3>2, PilotConstants DEF Effect, Authorized, Decided
      <3>4. CASE UNCHANGED run
        BY <3>1, <3>3, <3>4 DEF WritesAreOwned, Holds, Authorized, Decided
      <3>5. CASE At(p, "admit") /\ AppendAtBase("admission")
        BY <3>1, <3>3, <3>5, AppendOwned DEF Entitled
      <3>6. CASE At(p, "fence") /\ AppendAtBase("fence")
        BY <3>1, <3>3, <3>6, AppendOwned DEF Entitled
      <3>. QED
        BY <3>1, <3>2, <3>4, <3>5, <3>6 DEF Effect
    <2>2. CASE OrphanSettles
      <3>1. PICK what \in orphans :
                /\ orphans' = orphans \ {what}
                /\ UNCHANGED run \/ AppendAtBase(what)
                /\ UNCHANGED <<ledger, files, proc, invoked, abandoned, faults>>
        BY <2>2 DEF OrphanSettles
      <3>2. run # <<>> => run' # <<>>
        BY <3>1 DEF AppendAtBase
      <3>3. Entitled'
        BY <3>1, <3>2 DEF Entitled, At, Authorized, Decided, Replays
      <3>4. Authorized' = Authorized /\ Decided' = Decided
        BY <3>1 DEF Authorized, Decided
      <3>5. CASE UNCHANGED run
        BY <3>1, <3>3, <3>5 DEF WritesAreOwned, Holds
      <3>6. CASE AppendAtBase(what)
        BY <3>1, <3>3, <3>4, <3>6, AppendOwned DEF Entitled, TypeOK
      <3>. QED
        BY <3>1, <3>3, <3>5, <3>6
    <2>3. CASE Outside
      <3>1. run' = Append(run, "outside") /\ UNCHANGED <<files, orphans, proc>>
        BY <2>3 DEF Outside
      <3>2. run \in Seq(Appends)
        BY DEF TypeOK, Runs
      <3>3. run' # <<>> /\ \A w \in {"admission", "fence"} : Holds(w)' => Holds(w)
        BY <3>1, <3>2 DEF Holds
      <3>4. Entitled'
        BY <3>1, <3>3 DEF Entitled, At, Authorized, Decided, Replays
      <3>5. WritesAreOwned'
        BY <3>1, <3>3 DEF WritesAreOwned
      <3>. QED
        BY <3>4, <3>5
    <2>4. CASE UNCHANGED vars
      BY <2>4 DEF vars, Entitled, WritesAreOwned, Holds, At, Authorized, Decided, Replays
    <2>. QED
      BY <2>1, <2>2, <2>3, <2>4 DEF Next
  <1>. QED
    BY <1>1, <1>2, TypeCorrect, PTL DEF Spec

\* Whoever crashes, resumes or appends from outside: an admission in the run has its receipt and
\* an authorizing decision, a fence has a receipt and a decision, and never are both in the run.
THEOREM RunIsOwned == Spec => []WritesAreOwned
  BY OwnedCorrect, PTL

----------------------------------------------------------------------------
(* The outcome is what the run shows                                       *)

\* The run shows the admission, and the captured answer was good enough to be previewed.
Admitted == run = <<"admission">>
Proposed == files.capture \in {"wrong", "right"}

\* The steps that only a driver takes, and those that only a recovery takes.
DriverSteps == {"reserve", "invoke", "capture", "preview", "authorize", "admit", "record"}
RecoverySteps == {"look", "inspect", "finish", "base", "reconstruct", "claim", "claimLate",
                  "observe", "fence", "refenced", "late", "persist", "conclude", "judge"}

\* The steps of a driver whose admission is still to come.
Early == {"invoke", "capture", "preview", "writeReady", "authorize", "admit"}

\* An admission may still reach the run.
Pending ==
    \/ "admission" \in orphans
    \/ \E p \in Processes : proc[p].drives /\ proc[p].at \in Early

\* No admission is in the run, and none comes.
NeverAdmitted == ~Admitted /\ (run = <<>> => ~Pending)

\* An outcome agrees with the run, now and ever after; or it is the failure of an admission that
\* the driver gave up.
Right(outcome) ==
    CASE outcome = Completed -> Admitted /\ files.capture = "right"
      [] outcome = "proposal.post-admission" -> Admitted /\ files.capture = "wrong"
      [] OTHER -> NeverAdmitted \/ (abandoned /\ outcome = "proposal.admission")

\* What a driver that saw a failure knows of the stage it was in.
Blamed(r) ==
    /\ r.code \in {"local", "proposal.preview"} => ~Admitted
    /\ r.code \notin {"local", "proposal.preview"} => r.ready
    /\ r.code = "proposal.post-admission" => Admitted
    /\ r.exact => r.code = "proposal.post-admission" /\ files.capture = "wrong"
    /\ "admission" \in orphans => abandoned /\ r.code = "proposal.admission"

\* A recovery saw the run that is there, or a base that no admission can follow.
SeesRun(r) == IF r.sees = <<>> THEN Replays ELSE run = r.sees

\* What p knows of the run when it is the process r.
Fit(p, r) ==
    /\ r.drives /\ r.at # "reserve" => ledger.owner = p
    /\ r.drives /\ r.at \notin {"reserve", "record", "install", "fail"} =>
           "admission" \notin orphans
    /\ r.at \in DriverSteps => r.drives
    /\ r.at \in RecoverySteps \cup {"rest"} => ~r.drives
    /\ r.drives /\ r.at \in Early => ~Admitted
    /\ r.at \in {"invoke", "capture"} => files.capture = Null
    /\ r.at \in {"preview", "writeReady", "authorize", "admit", "base", "reconstruct",
                 "verify"} => Proposed
    /\ r.drives /\ r.at \in {"authorize", "admit", "verify", "result", "complete"} => r.ready
    /\ r.at = "record" => Blamed(r)
    /\ r.at \in {"verify", "result", "complete"} => Admitted
    /\ r.at \in {"result", "complete"} => files.capture = "right"
    /\ r.at \in {"late", "claimLate", "persist", "conclude"} => SeesRun(r)
    /\ r.at = "claimLate" \/ (r.at = "persist" /\ r.sees = <<"admission">>) => r.ready
    /\ r.at = "conclude" => r.sees # <<"admission">>
    /\ r.at = "install" => Right(r.failure.code)

\* Nothing happens before the phase is reserved.
Fresh ==
    /\ run = <<>> /\ orphans = {} /\ ledger.outcome = Null
    /\ files.capture = Null /\ files.failure = Null /\ files.result = Null
    /\ \A p \in Processes : proc[p].at \in {"rest", "reserve"}

\* The documents and the ledger agree with the run.
Kept ==
    /\ run \in {<<>>, <<"admission">>, <<"fence">>}
    /\ ledger.owner = Null => Fresh
    /\ files.ready => Proposed
    /\ files.failure # Null => Right(files.failure.code)
    /\ files.result # Null => Admitted /\ files.capture = "right"
    /\ ledger.outcome # Null => Right(ledger.outcome)

\* As long as nobody else writes to the run.
Settled == Undisturbed => Kept /\ \A p \in Processes : Fit(p, proc[p])

\* What a step of p may do to the documents and the ledger, and how it becomes an early driver.
Trace(p) ==
    /\ ledger.owner # Null => ledger'.owner = ledger.owner
    /\ files'.capture = files.capture \/ (At(p, "capture") /\ files.capture = Null)
    /\ files'.ready = files.ready \/ At(p, "writeReady")
    /\ files'.failure = files.failure
         \/ (At(p, "install") /\ files'.failure = proc[p].failure)
    /\ files'.result = files.result \/ At(p, "result")
    /\ \/ ledger'.outcome = ledger.outcome
       \/ At(p, "complete") /\ ledger'.outcome = Completed
       \/ At(p, "fail") /\ ledger'.outcome = files.failure.code
    /\ "admission" \in orphans' => "admission" \in orphans \/ At(p, "admit")
    /\ abandoned => abandoned'
    /\ proc[p].at \in {"rest", "reserve"} =>
         /\ UNCHANGED <<files, run, orphans>>
         /\ ledger'.outcome = ledger.outcome

\* Every step leaves no other trace.
LEMMA Traces ==
    ASSUME TypeOK, NEW p \in Processes, Resume(p) \/ Disturb(p)
    PROVE  Trace(p)
  <1>. USE PilotConstants DEF Trace, At
  <1>0. files \in Files /\ ledger \in Ledger
    BY DEF TypeOK
  <1>1. CASE Reserve(p)
    BY <1>0, <1>1 DEF Reserve, Ledger, Linked
  <1>2. CASE Invoke(p)
    BY <1>0, <1>2 DEF Invoke
  <1>3. CASE Capture(p)
    BY <1>0, <1>3 DEF Capture, Files
  <1>4. CASE Preview(p)
    BY <1>0, <1>4 DEF Preview
  <1>5. CASE Authorize(p)
    BY <1>0, <1>5 DEF Authorize, Linked, Files
  <1>6. CASE Admit(p)
    BY <1>0, <1>6 DEF Admit
  <1>7. CASE Record(p)
    BY <1>0, <1>7 DEF Record
  <1>8. CASE Look(p)
    BY <1>0, <1>8 DEF Look
  <1>9. CASE Inspect(p)
    BY <1>0, <1>9 DEF Inspect
  <1>10. CASE Finish(p)
    BY <1>0, <1>10 DEF Finish
  <1>11. CASE LookBeforePreview(p)
    BY <1>0, <1>11 DEF LookBeforePreview
  <1>12. CASE Reconstruct(p)
    BY <1>0, <1>12 DEF Reconstruct
  <1>13. CASE Claim(p)
    BY <1>0, <1>13 DEF Claim, Linked, Files
  <1>14. CASE Observe(p)
    BY <1>0, <1>14 DEF Observe
  <1>15. CASE Fence(p)
    BY <1>0, <1>15 DEF Fence
  <1>16. CASE ObserveFence(p)
    BY <1>0, <1>16 DEF ObserveFence
  <1>17. CASE AdoptLateReady(p)
    BY <1>0, <1>17 DEF AdoptLateReady
  <1>18. CASE Persist(p)
    BY <1>0, <1>18 DEF Persist, Linked, Files
  <1>19. CASE Conclude(p)
    BY <1>0, <1>19 DEF Conclude
  <1>20. CASE Judge(p)
    BY <1>0, <1>20 DEF Judge
  <1>21. CASE WriteReady(p)
    BY <1>0, <1>21 DEF WriteReady, Files
  <1>22. CASE Verify(p)
    BY <1>0, <1>22 DEF Verify
  <1>23. CASE WriteResult(p)
    BY <1>0, <1>23 DEF WriteResult, Linked, Files
  <1>24. CASE Complete(p)
    BY <1>0, <1>24 DEF Complete, Linked, Ledger
  <1>25. CASE Install(p)
    BY <1>0, <1>25 DEF Install, Linked, Files
  <1>26. CASE Fail(p)
    BY <1>0, <1>26 DEF Fail, Linked, Ledger
  <1>27. CASE BeginDrive(p)
    BY <1>0, <1>27 DEF BeginDrive
  <1>28. CASE BeginRecovery(p)
    BY <1>0, <1>28 DEF BeginRecovery
  <1>29. CASE Crash(p)
    BY <1>0, <1>29 DEF Crash
  <1>30. CASE DriverCallFails(p)
    BY <1>0, <1>30 DEF DriverCallFails
  <1>31. CASE RecordBlindly(p)
    BY <1>0, <1>31 DEF RecordBlindly
  <1>32. CASE FenceFails(p)
    BY <1>0, <1>32 DEF FenceFails
  <1>. HIDE DEF Trace, At
  <1>. QED
    BY <1>1, <1>2, <1>3, <1>4, <1>5, <1>6, <1>7, <1>8, <1>9, <1>10, <1>11, <1>12,
       <1>13, <1>14, <1>15, <1>16, <1>17, <1>18, <1>19, <1>20, <1>21, <1>22, <1>23,
       <1>24, <1>25, <1>26, <1>27, <1>28, <1>29, <1>30, <1>31, <1>32
    DEF Resume, Drive, Recover, Shared, Disturb

\* What no step takes back while nobody else writes to the run.
Onward ==
    /\ ledger.owner # Null => ledger'.owner = ledger.owner
    /\ files.capture # Null => files'.capture = files.capture
    /\ \/ run' = run
       \/ run = <<>> /\ run' = <<"fence">>
       \/ run = <<>> /\ run' = <<"admission">> /\ Pending
    /\ Pending' => Pending \/ ledger.owner = Null
    /\ abandoned => abandoned'

\* What is right stays right.
LEMMA RightStays ==
    ASSUME Onward, ledger.owner # Null, NEW outcome, Right(outcome)
    PROVE  Right(outcome)'
  <1>1. Admitted => Admitted'
    BY DEF Onward, Admitted
  <1>2. NeverAdmitted => NeverAdmitted'
    BY DEF Onward, NeverAdmitted, Admitted
  <1>3. files.capture \in {"wrong", "right"} => files'.capture = files.capture
    BY PilotConstants DEF Onward
  <1>4. abandoned => abandoned'
    BY DEF Onward
  <1>. QED
    BY <1>1, <1>2, <1>3, <1>4 DEF Right

\* What a process that rests in a step knows stays true. Nobody else admits for the driver.
LEMMA FitStays ==
    ASSUME Onward, NEW q \in Processes, NEW r \in Process, Fit(q, r),
           r.at \in {"rest", "reserve"} \/ ledger.owner # Null,
           r.drives /\ r.at # "reserve" =>
               /\ ledger'.owner = q
               /\ files'.capture = files.capture
               /\ run' # <<"admission">> \/ run' = run \/ "admission" \in orphans
               /\ "admission" \in orphans' => "admission" \in orphans
    PROVE  Fit(q, r)'
  <1>1. Admitted => Admitted'
    BY DEF Onward, Admitted
  <1>2. /\ Proposed => Proposed'
        /\ Replays => Replays'
        /\ files.capture \in {"wrong", "right"} => files'.capture = files.capture
    BY PilotConstants DEF Onward, Proposed, Replays
  <1>3. r.drives /\ r.at # "reserve" /\ ~Admitted /\ "admission" \notin orphans => ~Admitted'
    BY DEF Admitted
  <1>4. r.at = "record" => Blamed(r)'
    BY <1>1, <1>2, <1>3 DEF Fit, Blamed, DriverSteps, Onward
  <1>5. r.at \in {"late", "claimLate", "persist", "conclude"} => SeesRun(r)'
    BY <1>2 DEF Onward, Fit, SeesRun
  <1>6. r.at = "install" => Right(r.failure.code)'
    BY RightStays DEF Fit
  <1>7. r.drives /\ r.at \in Early => ~Admitted'
    BY <1>3 DEF Fit, Early
  <1>8. r.at \in {"invoke", "capture"} => files'.capture = Null
    BY DEF Fit, DriverSteps
  <1>. QED
    BY <1>1, <1>2, <1>4, <1>5, <1>6, <1>7, <1>8 DEF Fit

\* A process becomes an early driver by reserving the phase.
Begins(p) ==
    /\ proc'[p].drives
    /\ proc'[p].at \in Early
    /\ ~(proc[p].drives /\ proc[p].at \in Early)

\* It does so only while the phase is free.
LEMMA EarlyEntry ==
    ASSUME TypeOK, NEW p \in Processes, Fit(p, proc[p]), Resume(p) \/ Disturb(p), Begins(p)
    PROVE  At(p, "reserve") /\ ledger.owner = Null
  <1>. USE DEF Begins, At, Go, Stop, Report, Blame, BlameOrStop, Rest, Early
  <1>0. /\ proc \in [Processes -> Process] /\ proc[p] \in Process
        /\ proc[p].at = "reconstruct" => ~proc[p].drives
    BY DEF TypeOK, Fit, RecoverySteps
  <1>1. CASE Reserve(p)
    BY <1>0, <1>1 DEF Process, Reserve
  <1>2. CASE Invoke(p)
    BY <1>0, <1>2 DEF Process, Invoke
  <1>3. CASE Capture(p)
    BY <1>0, <1>3 DEF Process, Capture
  <1>4. CASE Preview(p)
    BY <1>0, <1>4 DEF Process, Preview
  <1>5. CASE Authorize(p)
    BY <1>0, <1>5 DEF Process, Authorize
  <1>6. CASE Admit(p)
    BY <1>0, <1>6 DEF Process, Admit
  <1>7. CASE Record(p)
    <2>1. CASE \E bundle : proc' = [proc EXCEPT ![p].at = "install", ![p].failure = bundle]
      BY <1>0, <2>1
    <2>2. CASE Stop(p)
      BY <1>0, <1>7, <2>2 DEF Process, Record
    <2>. HIDE DEF Process, Begins
    <2>. QED
      BY <1>7, <2>1, <2>2 DEF Process, Record
  <1>8. CASE Look(p)
    BY <1>0, <1>8 DEF Process, Look
  <1>9. CASE Inspect(p)
    BY <1>0, <1>9 DEF Process, Inspect
  <1>10. CASE Finish(p)
    BY <1>0, <1>10 DEF Process, Finish
  <1>11. CASE LookBeforePreview(p)
    BY <1>0, <1>11 DEF Process, LookBeforePreview
  <1>12. CASE Reconstruct(p)
    BY <1>0, <1>12 DEF Process, Reconstruct
  <1>13. CASE Claim(p)
    BY <1>0, <1>13 DEF Process, Claim
  <1>14. CASE Observe(p)
    BY <1>0, <1>14 DEF Process, Observe
  <1>15. CASE Fence(p)
    BY <1>0, <1>15 DEF Process, Fence
  <1>16. CASE ObserveFence(p)
    BY <1>0, <1>16 DEF Process, ObserveFence
  <1>17. CASE AdoptLateReady(p)
    BY <1>0, <1>17 DEF Process, AdoptLateReady
  <1>18. CASE Persist(p)
    BY <1>0, <1>18 DEF Process, Persist
  <1>19. CASE Conclude(p)
    <2>1. CASE \E bundle : proc' = [proc EXCEPT ![p].at = "install", ![p].failure = bundle]
      BY <1>0, <2>1
    <2>2. CASE Go(p, "judge")
      BY <1>0, <1>19, <2>2 DEF Process, Conclude
    <2>. HIDE DEF Process, Begins
    <2>. QED
      BY <1>19, <2>1, <2>2 DEF Process, Conclude
  <1>20. CASE Judge(p)
    BY <1>0, <1>20 DEF Process, Judge
  <1>21. CASE WriteReady(p)
    BY <1>0, <1>21 DEF Process, WriteReady
  <1>22. CASE Verify(p)
    <2>1. CASE \E bundle : proc' = [proc EXCEPT ![p].at = "install", ![p].failure = bundle]
      BY <1>0, <2>1
    <2>2. CASE Go(p, "result") \/ Blame(p, "proposal.post-admission", TRUE)
      BY <1>0, <1>22, <2>2 DEF Process, Verify
    <2>. HIDE DEF Process, Begins
    <2>. QED
      BY <1>22, <2>1, <2>2 DEF Process, Verify
  <1>23. CASE WriteResult(p)
    BY <1>0, <1>23 DEF Process, WriteResult
  <1>24. CASE Complete(p)
    BY <1>0, <1>24 DEF Process, Complete
  <1>25. CASE Install(p)
    BY <1>0, <1>25 DEF Process, Install
  <1>26. CASE Fail(p)
    BY <1>0, <1>26 DEF Process, Fail
  <1>27. CASE BeginDrive(p)
    BY <1>0, <1>27 DEF Process, BeginDrive
  <1>28. CASE BeginRecovery(p)
    BY <1>0, <1>28 DEF Process, BeginRecovery
  <1>29. CASE Crash(p)
    BY <1>0, <1>29 DEF Process, Crash
  <1>30. CASE DriverCallFails(p)
    BY <1>0, <1>30 DEF Process, DriverCallFails
  <1>31. CASE RecordBlindly(p)
    BY <1>0, <1>31 DEF Process, RecordBlindly
  <1>32. CASE FenceFails(p)
    BY <1>0, <1>32 DEF Process, FenceFails
  <1>. HIDE DEF Begins
  <1>. QED
    BY <1>1, <1>2, <1>3, <1>4, <1>5, <1>6, <1>7, <1>8, <1>9, <1>10, <1>11, <1>12,
       <1>13, <1>14, <1>15, <1>16, <1>17, <1>18, <1>19, <1>20, <1>21, <1>22, <1>23,
       <1>24, <1>25, <1>26, <1>27, <1>28, <1>29, <1>30, <1>31, <1>32
    DEF Resume, Drive, Recover, Shared, Disturb

\* Every step of a process goes onward.
LEMMA OnwardStep ==
    ASSUME TypeOK, Kept, \A q \in Processes : Fit(q, proc[q]),
           NEW p \in Processes, Resume(p) \/ Disturb(p)
    PROVE  Onward
  <1>1. Effect(p) /\ Trace(p) /\ Entered(p)
    BY Effects, Traces, Entry
  <1>2. At(p, "admit") => Pending
    BY DEF Pending, Fit, DriverSteps, Early, At
  <1>3. run' = run \/ (run = <<>> /\ run' = <<"fence">>)
          \/ (run = <<>> /\ run' = <<"admission">> /\ Pending)
    BY <1>1, <1>2 DEF Effect, AppendAtBase
  <1>4. ASSUME Pending' PROVE Pending \/ ledger.owner = Null
    <2>1. CASE "admission" \in orphans'
      BY <1>1, <1>2, <2>1 DEF Trace, Pending
    <2>2. ASSUME NEW q \in Processes, proc'[q].drives, proc'[q].at \in Early
          PROVE  Pending \/ ledger.owner = Null
      <3>1. CASE q # p
        BY <1>1, <2>2, <3>1 DEF Entered, Pending
      <3>2. CASE q = p
        BY <2>2, <3>2, EarlyEntry DEF Begins, Pending
      <3>. QED
        BY <3>1, <3>2
    <2>. QED
      BY <1>4, <2>1, <2>2 DEF Pending
  <1>. QED
    BY <1>1, <1>3, <1>4, PilotConstants DEF Onward, Trace

\* The driver that has passed its admission is the last that could admit.
LEMMA DriverAlone ==
    ASSUME \A q \in Processes : Fit(q, proc[q]), NEW p \in Processes,
           proc[p].drives, proc[p].at # "reserve", proc[p].at \notin Early,
           "admission" \notin orphans
    PROVE  ~Pending
  BY DEF Fit, Pending, Early

\* An admission is one of a proposal that was previewed.
LEMMA AdmittedProposed ==
    ASSUME Kept, WritesAreOwned, Admitted
    PROVE  Proposed
  <1>1. Holds("admission")
    BY DEF Admitted, Holds
  <1>. QED
    BY <1>1 DEF WritesAreOwned, Kept

\* An answer that fails before the preview is never admitted.
LEMMA RejectedNever ==
    ASSUME Kept, WritesAreOwned, Entitled, \A q \in Processes : Fit(q, proc[q]), Replays
    PROVE  NeverAdmitted
  <1>1. ~Proposed /\ files.capture # Null
    BY PilotConstants DEF Proposed, Replays
  <1>2. ~Admitted
    BY <1>1, AdmittedProposed
  <1>3. "admission" \notin orphans
    BY <1>1 DEF Entitled, Authorized, Kept
  <1>4. ASSUME NEW q \in Processes, proc[q].drives, proc[q].at \in Early PROVE FALSE
    BY <1>1, <1>4 DEF Fit, Early
  <1>. QED
    BY <1>2, <1>3, <1>4 DEF NeverAdmitted, Pending

\* A process that is about to install a right failure fits.
LEMMA BundleFits ==
    ASSUME TypeOK, Kept, NEW p \in Processes, Fit(p, proc[p]), NEW bundle, NEW r, r = proc'[p],
           proc' = [proc EXCEPT ![p].at = "install", ![p].failure = bundle],
           proc[p].at \notin {"rest", "reserve"},
           Onward, Right(bundle.code), UNCHANGED orphans
    PROVE  Fit(p, r)'
  <1>1. /\ proc[p] \in Process /\ proc \in [Processes -> Process]
        /\ ledger.owner # Null
    BY DEF TypeOK, Kept, Fresh
  <1>2. r.at = "install" /\ r.failure = bundle /\ r.drives = proc[p].drives
    BY <1>1 DEF Process
  <1>3. Right(bundle.code)'
    BY <1>1, RightStays
  <1>4. r.drives => ledger'.owner = p
    BY <1>1, <1>2 DEF Fit, Onward
  <1>. QED
    BY <1>2, <1>3, <1>4 DEF Fit, DriverSteps, RecoverySteps, Early

\* A resume begins.
Begin(p) == BeginDrive(p) \/ BeginRecovery(p)

\* The driver's own steps.
LEMMA DriveFits ==
    ASSUME TypeOK, Equipped, Entitled, WritesAreOwned, Kept,
           \A q \in Processes : Fit(q, proc[q]),
           NEW p \in Processes, NEW r, r = proc'[p], Onward, Drive(p)
    PROVE  Fit(p, r)'
  <1>0. /\ proc \in [Processes -> Process] /\ proc[p] \in Process
        /\ Fit(p, proc[p])
    BY DEF TypeOK
  <1>1. CASE Reserve(p)
    <2>1. /\ proc[p].at = "reserve" /\ proc[p].drives
          /\ ledger' = [ledger EXCEPT !.owner = Linked(@, p)]
          /\ UNCHANGED <<files, run, orphans>>
      BY <1>0, <1>1 DEF Reserve, At, Fit, DriverSteps
    <2>2. CASE ledger.owner = Null /\ Go(p, "invoke")
      <3>1. ledger'.owner = p
        BY <2>1, <2>2 DEF TypeOK, Ledger, Linked
      <3>2. "admission" \notin orphans' /\ ~Admitted' /\ files'.capture = Null
        BY <2>1, <2>2 DEF Kept, Fresh, Admitted
      <3>. QED
        BY <1>0, <2>1, <2>2, <3>1, <3>2
        DEF Fit, DriverSteps, RecoverySteps, Early, Process, Go
    <2>3. CASE Stop(p)
      BY <1>0, <2>3 DEF Fit, DriverSteps, RecoverySteps, Early, Stop, Rest
    <2>. QED
      BY <1>1, <2>2, <2>3 DEF Reserve
  <1>2. CASE Invoke(p)
    BY <1>0, <1>2
    DEF Invoke, Fit, Admitted, Proposed, DriverSteps, RecoverySteps, Early, At, Go, Stop,
        Report, Rest, Process
  <1>3. CASE Capture(p)
    <2>1. PICK answer \in Answers :
            /\ files' = [files EXCEPT !.capture = answer]
            /\ \/ answer = "rejected" /\ Blame(p, "local", FALSE)
               \/ answer # "rejected" /\ Go(p, "preview")
      BY <1>3 DEF Capture
    <2>2. files'.capture = answer /\ proc[p].at = "capture" /\ UNCHANGED <<ledger, run, orphans>>
      BY <1>3, <2>1 DEF Capture, TypeOK, Files, At
    <2>3. CASE answer = "rejected" /\ Blame(p, "local", FALSE)
      BY <1>0, <2>2, <2>3
      DEF Fit, Admitted, DriverSteps, RecoverySteps, Early, Process, Blame, Blamed
    <2>4. CASE answer # "rejected" /\ Go(p, "preview")
      BY <1>0, <2>2, <2>4
      DEF Fit, Admitted, Proposed, DriverSteps, RecoverySteps, Early, Process, Go, Answers
    <2>. QED
      BY <2>1, <2>3, <2>4
  <1>4. CASE Preview(p)
    BY <1>0, <1>4
    DEF Preview, Fit, Admitted, Proposed, DriverSteps, RecoverySteps, Early, At, Go, Stop,
        Report, Rest, Process, Blame, Blamed
  <1>5. CASE Authorize(p)
    BY <1>0, <1>5
    DEF Authorize, Fit, Admitted, Proposed, DriverSteps, RecoverySteps, Early, At, Go, Stop,
        Report, Rest, Process
  <1>6. CASE Admit(p)
    <2>1. /\ proc[p].at = "admit" /\ AppendAtBase("admission")
          /\ UNCHANGED <<ledger, files, orphans>>
      BY <1>6 DEF Admit, At
    <2>2. CASE run = <<>> /\ Go(p, "verify")
      <3>1. Admitted'
        BY <2>1, <2>2 DEF AppendAtBase, Admitted
      <3>. QED
        BY <1>0, <2>1, <2>2, <3>1
        DEF Fit, Proposed, DriverSteps, RecoverySteps, Early, Process, Go
    <2>3. CASE run # <<>> /\ Blame(p, "proposal.admission", FALSE)
      BY <1>0, <2>1, <2>3
      DEF Fit, DriverSteps, RecoverySteps, Early, Process, Blame, Blamed
    <2>. QED
      BY <1>6, <2>2, <2>3 DEF Admit
  <1>7. CASE Record(p)
    <2>1. proc[p].at = "record" /\ proc[p].drives /\ Blamed(proc[p])
      BY <1>0, <1>7 DEF Record, At, Fit, DriverSteps
    <2>2. CASE Stop(p)
      BY <1>0, <1>7, <2>2
      DEF Record, Fit, DriverSteps, RecoverySteps, Early, Stop, Rest
    <2>3. CASE ~Stop(p)
      <3> DEFINE bundle(decision) ==
                   [FailureOf(p, proc[p].code, FALSE, run) EXCEPT !.decision = decision]
      <3>1. PICK decision :
              /\ proc' = [proc EXCEPT ![p].at = "install", ![p].failure = bundle(decision)]
              /\ ~(Disposition(proc[p].ready, run) = "exact-admission" /\ ~proc[p].exact)
        BY <1>7, <2>3 DEF Record
      <3>2. bundle(decision).code = proc[p].code
        BY DEF FailureOf
      <3>3. ASSUME Admitted PROVE Right(proc[p].code)
        <4>1. proc[p].ready
          BY <2>1, <3>3 DEF Blamed
        <4>2. proc[p].exact
          BY <3>1, <3>3, <4>1 DEF Disposition, Admitted
        <4>. QED
          BY <2>1, <3>3, <4>2 DEF Blamed, Right, Completed
      <3>4. ASSUME ~Admitted PROVE Right(proc[p].code)
        <4>1. "admission" \notin orphans => ~Pending
          BY <2>1, DriverAlone DEF Early
        <4>2. proc[p].code \in Codes
          BY <1>7 DEF Equipped, Record
        <4>3. CASE "admission" \in orphans
          BY <2>1, <4>3 DEF Blamed, Right, Completed
        <4>4. CASE "admission" \notin orphans
          BY <2>1, <3>4, <4>1, <4>2, <4>4
          DEF Blamed, Right, Completed, Codes, NeverAdmitted
        <4>. QED
          BY <4>3, <4>4
      <3>5. Right(bundle(decision).code)
        BY <3>2, <3>3, <3>4
      <3>6. UNCHANGED orphans
        BY <1>7 DEF Record
      <3>. HIDE DEF bundle
      <3>. QED
        BY <1>0, <2>1, <3>1, <3>5, <3>6, BundleFits
    <2>. QED
      BY <2>2, <2>3
  <1>. QED
    BY <1>1, <1>2, <1>3, <1>4, <1>5, <1>6, <1>7 DEF Drive

\* The steps of a recovery.
LEMMA RecoverFits ==
    ASSUME TypeOK, Equipped, Entitled, WritesAreOwned, Kept,
           \A q \in Processes : Fit(q, proc[q]),
           NEW p \in Processes, NEW r, r = proc'[p], Onward, Recover(p)
    PROVE  Fit(p, r)'
  <1>0. /\ proc \in [Processes -> Process] /\ proc[p] \in Process
        /\ Fit(p, proc[p])
    BY DEF TypeOK
  <1>1. CASE Look(p)
    BY <1>0, <1>1
    DEF Look, Fit, Admitted, Proposed, DriverSteps, RecoverySteps, Early, At, Go, Stop, Report,
        Rest, Process
  <1>2. CASE Inspect(p)
    <2>1. /\ proc[p].at = "inspect" /\ ~proc[p].drives
          /\ UNCHANGED <<ledger, files, run, orphans>>
      BY <1>0, <1>2 DEF Inspect, At, Fit, RecoverySteps
    <2>2. CASE Go(p, "finish")
      BY <1>0, <2>1, <2>2 DEF Fit, DriverSteps, RecoverySteps, Early, Process, Go
    <2>3. CASE Stop(p)
      BY <1>0, <2>3 DEF Fit, DriverSteps, RecoverySteps, Early, Stop, Rest
    <2>4. CASE r.at \in {"judge", "claim", "observe"} /\ r.drives = proc[p].drives
      BY <2>1, <2>4 DEF Fit, DriverSteps, RecoverySteps, Early
    <2>6. CASE \E ready, decision : proc' = [proc EXCEPT ![p].at = "judge", ![p].ready = ready,
                                                    ![p].decision = decision]
      BY <1>0, <2>4, <2>6 DEF Process
    <2>7. CASE proc' = [proc EXCEPT ![p].ready = TRUE, ![p].decision = files.decision,
                           ![p].at = IF files.decision = Null THEN "claim" ELSE "observe"]
      BY <1>0, <2>4, <2>7 DEF Process
    <2>5. CASE Resumes(p) /\ Go(p, IF Replays THEN "observe" ELSE "base")
      <3>1. ~Replays => Proposed'
        BY <2>1, <2>5 DEF Resumes, Replays, Proposed, TypeOK, Files, Answers
      <3>. QED
        BY <1>0, <2>1, <2>5, <3>1 DEF Fit, DriverSteps, RecoverySteps, Early, Process, Go
    <2>. QED
      BY <1>2, <2>2, <2>3, <2>5, <2>6, <2>7 DEF Inspect
  <1>3. CASE Finish(p)
    <2>1. proc[p].at = "finish" /\ ~proc[p].drives /\ UNCHANGED <<files, run>>
      BY <1>0, <1>3 DEF Finish, At, Fit, RecoverySteps
    <2>2. CASE \E outcome : Report(p, outcome)
      BY <1>0, <2>2 DEF Fit, DriverSteps, RecoverySteps, Early, Report, Rest
    <2>3. CASE files.result # Null /\ Go(p, "complete")
      <3>1. Admitted' /\ files'.capture = "right"
        BY <2>1, <2>3 DEF Kept, Admitted
      <3>. QED
        BY <1>0, <2>1, <2>3, <3>1 DEF Fit, DriverSteps, RecoverySteps, Early, Process, Go
    <2>4. Report(p, Null) \/ Report(p, Completed) \/ (files.result # Null /\ Go(p, "complete"))
      BY <1>3, PilotConstants DEF Finish, Stop, Report
    <2>. QED
      BY <2>2, <2>3, <2>4
  <1>4. CASE LookBeforePreview(p)
    BY <1>0, <1>4
    DEF LookBeforePreview, Fit, Admitted, Proposed, DriverSteps, RecoverySteps, Early, At, Go,
        Stop, Report, Rest, Process
  <1>5. CASE Reconstruct(p)
    BY <1>0, <1>5
    DEF Reconstruct, Fit, Admitted, Proposed, DriverSteps, RecoverySteps, Early, At, Go, Stop,
        Report, Rest, Process
  <1>6. CASE Claim(p)
    BY <1>0, <1>6
    DEF Claim, Fit, Admitted, Proposed, DriverSteps, RecoverySteps, Early, At, Go, Stop,
        Report, Rest, Process, SeesRun
  <1>7. CASE Observe(p)
    BY <1>0, <1>7
    DEF Observe, Fit, Admitted, Proposed, DriverSteps, RecoverySteps, Early, At, Go, Stop,
        Report, Rest, Process, SeesRun, Replays
  <1>8. CASE Fence(p)
    BY <1>0, <1>8
    DEF Fence, Fit, Admitted, Proposed, DriverSteps, RecoverySteps, Early, At, Go, Stop,
        Report, Rest, Process
  <1>9. CASE ObserveFence(p)
    BY <1>0, <1>9
    DEF ObserveFence, Fit, Admitted, Proposed, DriverSteps, RecoverySteps, Early, At, Go, Stop,
        Report, Rest, Process, SeesRun
  <1>10. CASE AdoptLateReady(p)
    <2>1. /\ proc[p].at = "late" /\ SeesRun(proc[p]) /\ ~proc[p].drives
          /\ UNCHANGED <<ledger, files, run, orphans>>
      BY <1>0, <1>10 DEF AdoptLateReady, At, Fit, RecoverySteps
    <2>2. proc[p].sees = <<"admission">> => files.ready /\ ~Replays
      <3>1. ASSUME Admitted PROVE files.ready /\ ~Replays
        <4>1. files.ready
          BY <3>1 DEF Admitted, WritesAreOwned, Holds
        <4>. QED
          BY <3>1, <4>1, AdmittedProposed DEF Proposed, Replays
      <3>. QED
        BY <2>1, <3>1 DEF SeesRun, Admitted
    <2>3. CASE Stop(p)
      BY <1>0, <2>3 DEF Fit, DriverSteps, RecoverySteps, Early, Stop, Rest
    <2>4. CASE Go(p, "persist") /\ (proc[p].ready \/ Replays \/ ~files.ready)
      BY <1>0, <2>1, <2>2, <2>4
      DEF Fit, DriverSteps, RecoverySteps, Early, Process, Go, SeesRun, Replays
    <2>5. CASE proc' = [proc EXCEPT ![p].ready = TRUE, ![p].decision = files.decision,
                           ![p].at = IF files.decision = Null THEN "claimLate" ELSE "persist"]
      <3>1. /\ r.ready /\ r.at \in {"claimLate", "persist"} /\ r.sees = proc[p].sees
            /\ ~r.drives
        BY <1>0, <2>1, <2>5 DEF Process
      <3>2. SeesRun(r)'
        BY <2>1, <3>1 DEF SeesRun, Replays
      <3>. QED
        BY <3>1, <3>2 DEF Fit, DriverSteps, RecoverySteps, Early
    <2>. QED
      BY <1>10, <2>3, <2>4, <2>5 DEF AdoptLateReady
  <1>11. CASE Persist(p)
    <2>1. proc[p].at = "persist" /\ SeesRun(proc[p]) /\ ~proc[p].drives
      BY <1>0, <1>11 DEF Persist, At, Fit, RecoverySteps
    <2>2. /\ UNCHANGED <<ledger, run, orphans>>
          /\ files'.capture = files.capture
      BY <1>11 DEF Persist, TypeOK, Files
    <2>3. CASE Stop(p)
      BY <1>0, <2>3 DEF Fit, DriverSteps, RecoverySteps, Early, Stop, Rest
    <2>4. CASE Go(p, "verify")
               /\ Disposition(proc[p].ready, proc[p].sees) = "exact-admission"
      <3>1. proc[p].sees = <<"admission">>
        BY <2>4 DEF Disposition
      <3>2. Admitted
        BY <2>1, <3>1 DEF SeesRun, Admitted
      <3>3. Proposed
        BY <3>2, AdmittedProposed
      <3>4. Admitted' /\ Proposed'
        BY <2>2, <3>2, <3>3 DEF Admitted, Proposed
      <3>. QED
        BY <1>0, <2>1, <2>4, <3>4 DEF Fit, DriverSteps, RecoverySteps, Early, Process, Go
    <2>5. CASE Go(p, "conclude")
               /\ Disposition(proc[p].ready, proc[p].sees) # "exact-admission"
      <3>1. proc[p].sees # <<"admission">>
        BY <1>0, <2>1, <2>5 DEF Disposition, Fit
      <3>2. r.sees = proc[p].sees /\ r.at = "conclude" /\ ~r.drives
        BY <1>0, <2>1, <2>5 DEF Go, Process
      <3>3. SeesRun(r)'
        BY <2>1, <2>2, <3>2 DEF SeesRun, Replays
      <3>. QED
        BY <3>1, <3>2, <3>3 DEF Fit, DriverSteps, RecoverySteps, Early
    <2>. QED
      BY <1>11, <2>3, <2>4, <2>5 DEF Persist
  <1>12. CASE Conclude(p)
    <2>1. /\ proc[p].at = "conclude" /\ SeesRun(proc[p]) /\ ~proc[p].drives
          /\ proc[p].sees # <<"admission">> /\ UNCHANGED orphans
      BY <1>0, <1>12 DEF Conclude, At, Fit, RecoverySteps
    <2>2. CASE Go(p, "judge")
      BY <1>0, <2>1, <2>2 DEF Fit, DriverSteps, RecoverySteps, Early, Process, Go
    <2>3. CASE ~Go(p, "judge")
      <3> DEFINE code == ExpectedFailure(proc[p].ready, proc[p].sees)
                 bundle == FailureOf(p, code, TRUE, proc[p].sees)
      <3>1. proc' = [proc EXCEPT ![p].at = "install", ![p].failure = bundle]
        BY <1>12, <2>3 DEF Conclude
      <3>2. NeverAdmitted
        <4>1. CASE proc[p].sees = <<>>
          BY <2>1, <4>1, RejectedNever DEF SeesRun
        <4>2. CASE proc[p].sees # <<>>
          BY <2>1, <4>2 DEF SeesRun, NeverAdmitted, Admitted
        <4>. QED
          BY <4>1, <4>2
      <3>3. code \notin {Completed, "proposal.post-admission"}
        BY DEF ExpectedFailure, Completed
      <3>4. bundle.code = code
        BY DEF FailureOf
      <3>5. Right(bundle.code)
        BY <3>2, <3>3, <3>4 DEF Right
      <3>. HIDE DEF bundle
      <3>. QED
        BY <1>0, <2>1, <3>1, <3>5, BundleFits
    <2>. QED
      BY <2>2, <2>3
  <1>13. CASE Judge(p)
    BY <1>0, <1>13
    DEF Judge, Fit, Admitted, Proposed, DriverSteps, RecoverySteps, Early, At, Go, Stop,
        Report, Rest, Process
  <1>. QED
    BY <1>1, <1>2, <1>3, <1>4, <1>5, <1>6, <1>7, <1>8, <1>9, <1>10, <1>11, <1>12, <1>13 DEF Recover

\* The steps that both take.
LEMMA SharedFits ==
    ASSUME TypeOK, Equipped, Entitled, WritesAreOwned, Kept,
           \A q \in Processes : Fit(q, proc[q]),
           NEW p \in Processes, NEW r, r = proc'[p], Onward, Shared(p)
    PROVE  Fit(p, r)'
  <1>0. /\ proc \in [Processes -> Process] /\ proc[p] \in Process
        /\ Fit(p, proc[p])
    BY DEF TypeOK
  <1>1. CASE WriteReady(p)
    BY <1>0, <1>1
    DEF WriteReady, Fit, Admitted, Proposed, DriverSteps, RecoverySteps, Early, At, Go, Stop,
        Report, Rest, Process
  <1>2. CASE Verify(p)
    <2>1. /\ proc[p].at = "verify" /\ Admitted /\ Proposed
          /\ UNCHANGED <<ledger, files, run, orphans>>
      BY <1>0, <1>2 DEF Verify, At, Fit
    <2>2. CASE files.capture = "right" /\ Go(p, "result")
      BY <1>0, <2>1, <2>2
      DEF Fit, Admitted, DriverSteps, RecoverySteps, Early, Process, Go
    <2>3. CASE files.capture # "right" /\ proc[p].drives
                 /\ Blame(p, "proposal.post-admission", TRUE)
      <3>1. files'.capture = "wrong" /\ Admitted'
        BY <2>1, <2>3 DEF Proposed, Admitted
      <3>. QED
        BY <1>0, <2>1, <2>3, <3>1
        DEF Fit, DriverSteps, RecoverySteps, Early, Process, Blame, Blamed
    <2>4. CASE /\ files.capture # "right"
               /\ proc' = [proc EXCEPT ![p].at = "install", ![p].failure =
                             FailureOf(p, "proposal.post-admission", TRUE, proc[p].sees)]
      <3> DEFINE bundle == FailureOf(p, "proposal.post-admission", TRUE, proc[p].sees)
      <3>1. Right("proposal.post-admission")
        BY <2>1, <2>4 DEF Right, Proposed, Completed
      <3>2. bundle.code = "proposal.post-admission"
        BY DEF FailureOf
      <3>. HIDE DEF bundle
      <3>. QED
        BY <1>0, <2>1, <2>4, <3>1, <3>2, BundleFits DEF bundle
    <2>. QED
      BY <1>2, <2>2, <2>3, <2>4 DEF Verify
  <1>3. CASE WriteResult(p)
    BY <1>0, <1>3
    DEF WriteResult, Fit, Admitted, Proposed, DriverSteps, RecoverySteps, Early, At, Go, Stop,
        Report, Rest, Process, Blame, Blamed, BlameOrStop
  <1>4. CASE Complete(p)
    BY <1>0, <1>4
    DEF Complete, Fit, Admitted, Proposed, DriverSteps, RecoverySteps, Early, At, Go, Stop,
        Report, Rest, Process, Blame, Blamed, BlameOrStop
  <1>5. CASE Install(p)
    BY <1>0, <1>5
    DEF Install, Fit, Admitted, Proposed, DriverSteps, RecoverySteps, Early, At, Go, Stop,
        Report, Rest, Process
  <1>6. CASE Fail(p)
    BY <1>0, <1>6
    DEF Fail, Fit, Admitted, Proposed, DriverSteps, RecoverySteps, Early, At, Go, Stop, Report,
        Rest, Process
  <1>. QED
    BY <1>1, <1>2, <1>3, <1>4, <1>5, <1>6 DEF Shared

\* The start of a resume.
LEMMA BeginFits ==
    ASSUME TypeOK, Equipped, Entitled, WritesAreOwned, Kept,
           \A q \in Processes : Fit(q, proc[q]),
           NEW p \in Processes, NEW r, r = proc'[p], Onward, Begin(p)
    PROVE  Fit(p, r)'
  <1>0. /\ proc \in [Processes -> Process] /\ proc[p] \in Process
        /\ Fit(p, proc[p])
    BY DEF TypeOK
  <1>1. CASE BeginDrive(p)
    BY <1>0, <1>1
    DEF BeginDrive, Fit, Admitted, Proposed, DriverSteps, RecoverySteps, Early, At, Go, Stop,
        Report, Rest, Process
  <1>2. CASE BeginRecovery(p)
    BY <1>0, <1>2
    DEF BeginRecovery, Fit, Admitted, Proposed, DriverSteps, RecoverySteps, Early, At, Go,
        Stop, Report, Rest, Process
  <1>. QED
    BY <1>1, <1>2 DEF Begin

\* Crashes and failed calls.
LEMMA DisturbFits ==
    ASSUME TypeOK, Equipped, Entitled, WritesAreOwned, Kept,
           \A q \in Processes : Fit(q, proc[q]),
           NEW p \in Processes, NEW r, r = proc'[p], Onward, Disturb(p)
    PROVE  Fit(p, r)'
  <1>0. /\ proc \in [Processes -> Process] /\ proc[p] \in Process
        /\ Fit(p, proc[p])
    BY DEF TypeOK
  <1>1. CASE Crash(p)
    BY <1>0, <1>1
    DEF Crash, Fit, Admitted, Proposed, DriverSteps, RecoverySteps, Early, At, Go, Stop,
        Report, Rest, Process
  <1>2. CASE DriverCallFails(p)
    <2>1. /\ proc[p].at \in Driving /\ proc[p].drives
          /\ Blame(p, StageCode(proc[p].at), FALSE)
          /\ UNCHANGED <<ledger, files>>
          /\ proc[p].at # "admit" => UNCHANGED <<run, orphans>>
          /\ "admission" \in orphans' => "admission" \in orphans \/ abandoned'
      BY <1>2 DEF DriverCallFails, At
    <2>2. /\ r.at = "record" /\ r.drives /\ r.code = StageCode(proc[p].at) /\ ~r.exact
          /\ r.ready = proc[p].ready
      BY <1>0, <2>1 DEF Blame, Process
    <2>3. Blamed(r)'
      <3>0. "admission" \notin orphans
        BY <1>0, <2>1 DEF Fit, Driving
      <3>1. CASE proc[p].at \in {"preview", "writeReady"}
        <4>1. ~Admitted /\ run' = run /\ "admission" \notin orphans'
          BY <1>0, <2>1, <3>0, <3>1 DEF Fit, Early
        <4>. QED
          BY <2>2, <3>1, <4>1 DEF StageCode, Blamed, Admitted
      <3>2. CASE proc[p].at \in {"authorize", "admit"}
        <4>1. proc[p].ready /\ ("admission" \in orphans' => abandoned')
          BY <1>0, <2>1, <3>0, <3>2 DEF Fit
        <4>. QED
          BY <2>2, <3>2, <4>1 DEF StageCode, Blamed
      <3>3. CASE proc[p].at \in {"verify", "result", "complete"}
        <4>1. proc[p].ready /\ Admitted /\ run' = run /\ "admission" \notin orphans'
          BY <1>0, <2>1, <3>0, <3>3 DEF Fit
        <4>. QED
          BY <2>2, <3>3, <4>1 DEF StageCode, Blamed, Admitted
      <3>. QED
        BY <2>1, <3>1, <3>2, <3>3 DEF Driving
    <2>4. r.drives => ledger'.owner = p
      BY <1>0, <2>1 DEF Fit, Driving
    <2>. QED
      BY <2>2, <2>3, <2>4 DEF Fit, DriverSteps, RecoverySteps, Early
  <1>3. CASE RecordBlindly(p)
    <2> DEFINE bundle == FailureOf(p, "local", FALSE, <<>>)
    <2>1. /\ proc[p].at = "record" /\ proc[p].drives /\ Blamed(proc[p])
          /\ proc[p].code = "local" /\ UNCHANGED orphans
          /\ proc' = [proc EXCEPT ![p].at = "install", ![p].failure = bundle]
      BY <1>0, <1>3 DEF RecordBlindly, At, Fit, DriverSteps
    <2>2. NeverAdmitted
      <3>1. ~Pending
        BY <2>1, DriverAlone DEF Early, Blamed
      <3>. QED
        BY <2>1, <3>1 DEF Blamed, NeverAdmitted
    <2>3. bundle.code = "local"
      BY DEF FailureOf
    <2>4. Right(bundle.code)
      BY <2>2, <2>3 DEF Right, Completed
    <2>. HIDE DEF bundle
    <2>. QED
      BY <1>0, <2>1, <2>4, BundleFits
  <1>4. CASE FenceFails(p)
    BY <1>0, <1>4
    DEF FenceFails, Fit, Admitted, Proposed, DriverSteps, RecoverySteps, Early, At, Go, Stop,
        Report, Rest, Process
  <1>. QED
    BY <1>1, <1>2, <1>3, <1>4 DEF Disturb

\* While the phase is not reserved, a process only comes to where it may reserve it.
LEMMA RestsUnreserved ==
    ASSUME TypeOK, NEW p \in Processes, Resume(p) \/ Disturb(p),
           proc[p].at \in {"rest", "reserve"}, ledger.owner = Null, ledger'.owner = Null
    PROVE  proc'[p].at \in {"rest", "reserve"}
  <1>0. /\ proc \in [Processes -> Process] /\ ledger \in Ledger
        /\ proc[p].at \in {"rest", "reserve"} /\ ledger.owner = Null /\ ledger'.owner = Null
    BY DEF TypeOK
  <1>1. CASE Reserve(p)
    BY <1>0, <1>1, PilotConstants DEF Reserve, Ledger, Linked
  <1>2. CASE Invoke(p)
    BY <1>0, <1>2 DEF Invoke, At
  <1>3. CASE Capture(p)
    BY <1>0, <1>3 DEF Capture, At
  <1>4. CASE Preview(p)
    BY <1>0, <1>4 DEF Preview, At
  <1>5. CASE Authorize(p)
    BY <1>0, <1>5 DEF Authorize, At
  <1>6. CASE Admit(p)
    BY <1>0, <1>6 DEF Admit, At
  <1>7. CASE Record(p)
    BY <1>0, <1>7 DEF Record, At
  <1>8. CASE Look(p)
    BY <1>0, <1>8 DEF Look, At
  <1>9. CASE Inspect(p)
    BY <1>0, <1>9 DEF Inspect, At
  <1>10. CASE Finish(p)
    BY <1>0, <1>10 DEF Finish, At
  <1>11. CASE LookBeforePreview(p)
    BY <1>0, <1>11 DEF LookBeforePreview, At
  <1>12. CASE Reconstruct(p)
    BY <1>0, <1>12 DEF Reconstruct, At
  <1>13. CASE Claim(p)
    BY <1>0, <1>13 DEF Claim, At
  <1>14. CASE Observe(p)
    BY <1>0, <1>14 DEF Observe, At
  <1>15. CASE Fence(p)
    BY <1>0, <1>15 DEF Fence, At
  <1>16. CASE ObserveFence(p)
    BY <1>0, <1>16 DEF ObserveFence, At
  <1>17. CASE AdoptLateReady(p)
    BY <1>0, <1>17 DEF AdoptLateReady, At
  <1>18. CASE Persist(p)
    BY <1>0, <1>18 DEF Persist, At
  <1>19. CASE Conclude(p)
    BY <1>0, <1>19 DEF Conclude, At
  <1>20. CASE Judge(p)
    BY <1>0, <1>20 DEF Judge, At
  <1>21. CASE WriteReady(p)
    BY <1>0, <1>21 DEF WriteReady, At
  <1>22. CASE Verify(p)
    BY <1>0, <1>22 DEF Verify, At
  <1>23. CASE WriteResult(p)
    BY <1>0, <1>23 DEF WriteResult, At
  <1>24. CASE Complete(p)
    BY <1>0, <1>24 DEF Complete, At
  <1>25. CASE Install(p)
    BY <1>0, <1>25 DEF Install, At
  <1>26. CASE Fail(p)
    BY <1>0, <1>26 DEF Fail, At
  <1>27. CASE BeginDrive(p)
    BY <1>0, <1>27 DEF BeginDrive, Rest
  <1>28. CASE BeginRecovery(p)
    BY <1>0, <1>28 DEF BeginRecovery
  <1>29. CASE Crash(p)
    BY <1>0, <1>29 DEF Crash, Stop, Rest
  <1>30. CASE DriverCallFails(p)
    BY <1>0, <1>30 DEF DriverCallFails, Driving
  <1>31. CASE RecordBlindly(p)
    BY <1>0, <1>31 DEF RecordBlindly, At
  <1>32. CASE FenceFails(p)
    BY <1>0, <1>32 DEF FenceFails, At
  <1>. QED
    BY <1>1, <1>2, <1>3, <1>4, <1>5, <1>6, <1>7, <1>8, <1>9, <1>10, <1>11, <1>12,
       <1>13, <1>14, <1>15, <1>16, <1>17, <1>18, <1>19, <1>20, <1>21, <1>22, <1>23,
       <1>24, <1>25, <1>26, <1>27, <1>28, <1>29, <1>30, <1>31, <1>32
    DEF Resume, Drive, Recover, Shared, Disturb

\* A step of one process keeps the documents and the ledger in agreement with the run.
LEMMA KeptStep ==
    ASSUME TypeOK, Equipped, Entitled, WritesAreOwned, Kept,
           \A q \in Processes : Fit(q, proc[q]),
           NEW p \in Processes, Resume(p) \/ Disturb(p), Onward
    PROVE  Kept'
  <1>1. Trace(p) /\ Effect(p) /\ Entered(p) /\ Fit(p, proc[p])
    BY Traces, Effects, Entry
  <1>2. run' \in {<<>>, <<"admission">>, <<"fence">>}
    BY DEF Kept, Onward
  <1>3. ledger'.owner = Null => Fresh'
    <2> SUFFICES ASSUME ledger'.owner = Null PROVE Fresh'
      OBVIOUS
    <2>1. ledger.owner = Null /\ Fresh
      BY <1>1 DEF Trace, Kept
    <2>2. proc[p].at \in {"rest", "reserve"}
      BY <2>1 DEF Fresh
    <2>3. UNCHANGED <<files, run, orphans>> /\ ledger'.outcome = Null
      BY <1>1, <2>1, <2>2 DEF Trace, Fresh
    <2>4. proc'[p].at \in {"rest", "reserve"}
      BY <2>1, <2>2, RestsUnreserved
    <2>. QED
      BY <1>1, <2>1, <2>3, <2>4 DEF Fresh, Entered
  <1>4. ledger.owner = Null => UNCHANGED files /\ ledger'.outcome = ledger.outcome
    BY <1>1 DEF Kept, Fresh, Trace
  <1>5. Admitted => Admitted'
    BY DEF Onward, Admitted
  <1>6. files.capture \in {"wrong", "right"} => files'.capture = files.capture
    BY PilotConstants DEF Onward
  <1>7. files'.ready => Proposed'
    BY <1>1, <1>6 DEF Trace, Fit, Kept, Proposed, At
  <1>8. ASSUME files'.failure # Null PROVE Right(files.failure.code)'
    <2>1. PICK code : code = files'.failure.code
      OBVIOUS
    <2>2. Right(code)
      BY <1>1, <1>8, <2>1 DEF Trace, Kept, Fit, At
    <2>3. ledger.owner # Null
      BY <1>4, <1>8 DEF Kept, Fresh
    <2>4. Right(code)'
      BY <2>2, <2>3, RightStays
    <2>. QED
      BY <2>1, <2>4
  <1>9. files'.result # Null => Admitted' /\ files'.capture = "right"
    BY <1>1, <1>5, <1>6 DEF Trace, Kept, Fit, At
  <1>10. ASSUME ledger'.outcome # Null PROVE Right(ledger.outcome)'
    <2>1. PICK outcome : outcome = ledger'.outcome
      OBVIOUS
    <2>2. outcome = ledger.outcome => Right(outcome)
      BY <1>10, <2>1 DEF Kept
    <2>3. At(p, "complete") /\ outcome = Completed => Right(outcome)
      <3>1. At(p, "complete") => Admitted /\ files.capture = "right"
        BY <1>1 DEF Fit, At
      <3>. QED
        BY <3>1 DEF Right, Completed
    <2>4. At(p, "fail") /\ outcome = files.failure.code => Right(outcome)
      BY NullIsNoFailure DEF Equipped, Kept
    <2>5. Right(outcome)
      BY <1>1, <2>1, <2>2, <2>3, <2>4 DEF Trace
    <2>6. ledger.owner # Null
      BY <1>4, <1>10 DEF Kept, Fresh
    <2>7. Right(outcome)'
      BY <2>5, <2>6, RightStays
    <2>. QED
      BY <2>1, <2>7
  <1>. QED
    BY <1>2, <1>3, <1>7, <1>8, <1>9, <1>10 DEF Kept

\* A step of a process keeps all of it.
LEMMA SettledStep ==
    ASSUME TypeOK, Equipped, Entitled, WritesAreOwned, Settled,
           NEW p \in Processes, Resume(p) \/ Disturb(p)
    PROVE  Settled'
  <1> SUFFICES ASSUME Undisturbed' PROVE Kept' /\ \A q \in Processes : Fit(q, proc[q])'
    BY DEF Settled
  <1>1. Trace(p) /\ Effect(p) /\ Entered(p)
    BY Traces, Effects, Entry
  <1>2. Undisturbed
    BY <1>1 DEF Undisturbed, Holds, Effect, AppendAtBase
  <1>3. Kept /\ \A q \in Processes : Fit(q, proc[q])
    BY <1>2 DEF Settled
  <1>4. Onward
    BY <1>3, OnwardStep
  <1>5. Kept'
    BY <1>3, <1>4, KeptStep
  <1>6. ASSUME NEW q \in Processes, q # p PROVE Fit(q, proc[q])'
    <2>1. PICK r : r = proc[q]
      OBVIOUS
    <2>2. r = proc'[q] /\ r \in Process /\ Fit(q, r)
      BY <1>1, <1>3, <1>6, <2>1 DEF Entered, TypeOK
    <2>3. r.at \in {"rest", "reserve"} \/ ledger.owner # Null
      BY <1>3, <2>1 DEF Kept, Fresh
    <2>4. ASSUME r.drives, r.at # "reserve"
          PROVE  /\ ledger'.owner = q
                 /\ files'.capture = files.capture
                 /\ run' # <<"admission">> \/ run' = run \/ "admission" \in orphans
                 /\ "admission" \in orphans' => "admission" \in orphans
      <3>1. ledger.owner = q
        BY <2>2, <2>4 DEF Fit
      <3>2. q # Null
        BY PilotConstants
      <3>3. ~At(p, "admit") /\ ~At(p, "capture")
        BY <1>3, <1>6, <3>1 DEF Fit, DriverSteps, At
      <3>4. /\ ledger'.owner = q /\ files'.capture = files.capture
            /\ "admission" \in orphans' => "admission" \in orphans
        BY <1>1, <3>1, <3>2, <3>3 DEF Trace
      <3>5. run' # <<"admission">> \/ run' = run
        BY <1>1, <3>3 DEF Effect, AppendAtBase
      <3>. QED
        BY <3>4, <3>5
    <2>5. Fit(q, r)'
      BY <1>4, <2>2, <2>3, <2>4, FitStays
    <2>. QED
      BY <2>2, <2>5
  <1>7. Fit(p, proc[p])'
    <2>1. PICK r : r = proc'[p]
      OBVIOUS
    <2>2. Fit(p, r)'
      BY <1>3, <1>4, <2>1, DriveFits, RecoverFits, SharedFits, BeginFits, DisturbFits
      DEF Resume, Begin
    <2>. QED
      BY <2>1, <2>2
  <1>. QED
    BY <1>5, <1>6, <1>7

\* So does an append that a dead process left behind.
LEMMA SettledOrphan ==
    ASSUME TypeOK, Settled, OrphanSettles
    PROVE  Settled'
  <1> SUFFICES ASSUME Undisturbed' PROVE Kept' /\ \A q \in Processes : Fit(q, proc[q])'
    BY DEF Settled
  <1>1. PICK what \in orphans :
            /\ orphans' = orphans \ {what}
            /\ UNCHANGED run \/ AppendAtBase(what)
            /\ UNCHANGED <<ledger, files, proc, invoked, abandoned, faults>>
    BY DEF OrphanSettles
  <1>2. what \in {"admission", "fence"}
    BY <1>1 DEF TypeOK
  <1>3. Undisturbed
    BY <1>1 DEF Undisturbed, Holds, AppendAtBase
  <1>4. Kept /\ \A q \in Processes : Fit(q, proc[q])
    BY <1>3 DEF Settled
  <1>5. Pending' => Pending
    BY <1>1 DEF Pending
  <1>6. Onward
    BY <1>1, <1>2, <1>5 DEF Onward, AppendAtBase, Pending
  <1>7. ledger.owner # Null
    BY <1>1, <1>4 DEF Kept, Fresh
  <1>8. Kept'
    <2>1. run' \in {<<>>, <<"admission">>, <<"fence">>}
      BY <1>4, <1>6 DEF Kept, Onward
    <2>2. files'.ready => Proposed'
      BY <1>1, <1>4 DEF Kept, Proposed
    <2>3. ASSUME files'.failure # Null PROVE Right(files.failure.code)'
      <3>1. PICK code : code = files.failure.code
        OBVIOUS
      <3>2. Right(code)'
        BY <1>1, <1>4, <1>6, <1>7, <2>3, <3>1, RightStays DEF Kept
      <3>. QED
        BY <1>1, <3>1, <3>2
    <2>4. files'.result # Null => Admitted' /\ files'.capture = "right"
      BY <1>1, <1>4, <1>6 DEF Kept, Onward, Admitted
    <2>5. ASSUME ledger'.outcome # Null PROVE Right(ledger.outcome)'
      <3>1. PICK outcome : outcome = ledger.outcome
        OBVIOUS
      <3>2. Right(outcome)'
        BY <1>1, <1>4, <1>6, <1>7, <2>5, <3>1, RightStays DEF Kept
      <3>. QED
        BY <1>1, <3>1, <3>2
    <2>. QED
      BY <1>1, <1>7, <2>1, <2>2, <2>3, <2>4, <2>5 DEF Kept
  <1>9. ASSUME NEW q \in Processes PROVE Fit(q, proc[q])'
    <2>1. PICK r : r = proc[q]
      OBVIOUS
    <2>2. r \in Process /\ Fit(q, r)
      BY <1>4, <2>1 DEF TypeOK
    <2>3. ASSUME r.drives, r.at # "reserve"
          PROVE  /\ ledger'.owner = q
                 /\ files'.capture = files.capture
                 /\ run' # <<"admission">> \/ run' = run \/ "admission" \in orphans
                 /\ "admission" \in orphans' => "admission" \in orphans
      BY <1>1, <1>2, <2>2, <2>3 DEF Fit, AppendAtBase
    <2>4. Fit(q, r)'
      BY <1>6, <1>7, <2>2, <2>3, FitStays
    <2>. QED
      BY <1>1, <2>1, <2>4
  <1>. QED
    BY <1>8, <1>9

\* The outcome and all that leads to it agree with the run in every state.
LEMMA SettledCorrect == Spec => []Settled
  <1>1. Init => Settled
    BY DEF Init, Settled, Kept, Fresh, Fit, Rest, DriverSteps, RecoverySteps, Early
  <1>2. /\ TypeOK /\ Equipped /\ Entitled /\ WritesAreOwned /\ Settled /\ [Next]_vars
        => Settled'
    <2> SUFFICES ASSUME TypeOK, Equipped, Entitled, WritesAreOwned, Settled, [Next]_vars
                 PROVE  Settled'
      OBVIOUS
    <2>1. ASSUME NEW p \in Processes, Resume(p) \/ Disturb(p)
          PROVE  Settled'
      BY <2>1, SettledStep
    <2>2. CASE OrphanSettles
      BY <2>2, SettledOrphan
    <2>3. CASE Outside
      <3>1. run \in Seq(Appends) /\ run' = Append(run, "outside")
        BY <2>3 DEF Outside, TypeOK, Runs
      <3>2. Len(run) + 1 \in DOMAIN run' /\ run'[Len(run) + 1] = "outside"
        BY <3>1 DEF Appends
      <3>3. ~Undisturbed'
        BY <3>2 DEF Undisturbed, Holds
      <3>. QED
        BY <3>3 DEF Settled
    <2>4. CASE UNCHANGED vars
      BY <2>4 DEF vars, Settled, Undisturbed, Holds, Kept, Fresh, Fit, Right, NeverAdmitted,
              Pending, Admitted, Proposed, Blamed, SeesRun, Replays
    <2>. QED
      BY <2>1, <2>2, <2>3, <2>4 DEF Next
  <1>. QED
    BY <1>1, <1>2, TypesCorrect, OwnedCorrect, PTL DEF Spec

\* Unless somebody else writes to the run, the outcome that the ledger keeps is the one the run
\* shows, whatever crashes, whichever calls fail or time out and however many processes resume:
\* completed for a good admission, failed after verification for a bad one, and no other failure
\* stands beside an admission, not even one that a dead process's server commits later. What
\* may is "proposal.admission", of a driver that gave up an admission its server still had.
THEOREM OutcomeIsRight == Spec => []OutcomeMatchesRun
  <1>1. Settled => OutcomeMatchesRun
    BY DEF Settled, Kept, OutcomeMatchesRun, Right, NeverAdmitted, Admitted
  <1>. QED
    BY <1>1, SettledCorrect, PTL

----------------------------------------------------------------------------
(* Publications                                                            *)

Stages ==
    {"idle", "look", "link", "read", "move", "clean", "forget", "stage", "export",
     "install", "sync", "release"}

PublisherRecord ==
    [at : Stages, attempt : PublishedAttempts \cup {Nobody}, claim : Nat, seen : Nat,
     reported : PublishedAttempts \cup {Nobody}]

Typed ==
    /\ publisher \in [Publishers -> PublisherRecord]
    /\ issued \in Nat
    /\ claimFile # Nobody => claimFile.id \in 1 .. issued

\* Every claim that anybody holds or has seen was linked before.
Numbered ==
    \A p \in Publishers :
        /\ publisher[p].claim =< issued
        /\ publisher[p].at \in {"move", "clean"} => publisher[p].seen \in 1 .. issued

Distinct ==
    \A p, q \in Publishers :
        publisher[p].claim = publisher[q].claim /\ publisher[p].claim # 0 => p = q

\* A claim that was seen to be of a dead process stays one.
SeenIsDead ==
    \A p, q \in Publishers :
        publisher[p].at \in {"move", "clean"} => publisher[q].claim # publisher[p].seen

StagersClaim ==
    \A p \in Publishers :
        publisher[p].at \in {"stage", "export", "install"} => publisher[p].claim # 0

ClaimInv == Typed /\ Numbered /\ Distinct /\ SeenIsDead /\ StagersClaim /\ StagingIsKept

LEMMA ClaimInit == PublicationInit => ClaimInv
  BY DEF PublicationInit, ClaimInv, Typed, Numbered, Distinct, SeenIsDead, StagersClaim,
         StagingIsKept, Idle, PublisherRecord, Stages

\* One publisher moves; nobody else does.
LEMMA ClaimStep ==
    ASSUME ClaimInv, NEW p \in Publishers, Publish(p) \/ InterruptPublisher(p)
    PROVE  ClaimInv'
  <1>. USE DEF ClaimInv, Typed, Numbered, Distinct, SeenIsDead, StagersClaim, StagingIsKept,
               PublisherAt, PublisherGoes, PublisherFails, PublisherReports, Idle,
               PublisherRecord, Stages, PublishedAttempts
  <1>1. CASE BeginPublication(p)
    BY <1>1 DEF BeginPublication, Looking
  <1>2. CASE LookForOutput(p)
    BY SMTT(30), <1>2 DEF LookForOutput
  <1>3. CASE LinkPublicationClaim(p)
    <2>1. CASE /\ claimFile' = [id |-> issued + 1, attempt |-> publisher[p].attempt]
               /\ publisher' = [publisher EXCEPT ![p].at = "stage", ![p].claim = issued + 1]
               /\ issued' = issued + 1
      <3> DEFINE s == [publisher[p] EXCEPT !.at = "stage"]
                 r == [s EXCEPT !.claim = issued + 1]
      <3>1. publisher' = [publisher EXCEPT ![p] = r]
        BY <2>1
      <3>2. r \in PublisherRecord
        <4>1. s \in PublisherRecord
          OBVIOUS
        <4> HIDE DEF s
        <4>. QED
          BY <4>1
      <3>3. publisher' \in [Publishers -> PublisherRecord]
        BY <3>1, <3>2
      <3>4. r.at = "stage" /\ r.claim = issued + 1 /\ claimFile'.id = issued + 1
        BY <2>1
      <3>5. \A q \in Publishers : publisher'[q] = IF q = p THEN r ELSE publisher[q]
        BY <3>1
      <3> HIDE DEF r
      <3>6. Numbered' /\ Typed'
        BY <2>1, <3>3, <3>4, <3>5
      <3>7. Distinct' /\ SeenIsDead' /\ StagersClaim'
        BY <2>1, <3>3, <3>4, <3>5
      <3>8. StagingIsKept'
        BY <1>3, <3>4, <3>5 DEF LinkPublicationClaim
      <3>. QED
        BY <3>6, <3>7, <3>8
    <2>2. CASE PublisherGoes(p, "read") /\ UNCHANGED <<claimFile, issued>>
      BY <1>3, <2>2 DEF LinkPublicationClaim
    <2>. QED
      BY <1>3, <2>1, <2>2 DEF LinkPublicationClaim
  <1>4. CASE ReadPublicationClaim(p)
    BY SMTT(30), <1>4 DEF ReadPublicationClaim, PublisherLives
  <1>5. CASE MoveClaimAside(p)
    BY <1>5 DEF MoveClaimAside
  <1>6. CASE CleanStaleStaging(p)
    BY <1>6 DEF CleanStaleStaging
  <1>7. CASE ForgetStaleClaim(p)
    BY <1>7 DEF ForgetStaleClaim
  <1>8. CASE StagePublication(p)
    BY <1>8 DEF StagePublication
  <1>9. CASE ExportStaged(p)
    BY <1>9 DEF ExportStaged
  <1>10. CASE InstallOutput(p)
    <2>1. CASE PublisherGoes(p, "sync") /\ publisher[p].claim \in stagings
      BY <1>10, <2>1 DEF InstallOutput
    <2>2. CASE PublisherGoes(p, "look") /\ UNCHANGED stagings
      BY <1>10, <2>2 DEF InstallOutput
    <2>3. CASE PublisherFails(p) /\ UNCHANGED stagings
      BY <1>10, <2>3 DEF InstallOutput
    <2>. HIDE DEF ClaimInv, Typed, PublisherAt, PublisherGoes, PublisherFails
    <2>. QED
      BY <1>10, <2>1, <2>2, <2>3 DEF InstallOutput
  <1>11. CASE SyncOutput(p)
    BY <1>11 DEF SyncOutput
  <1>12. CASE ReleasePublication(p)
    BY <1>12 DEF ReleasePublication
  <1>13. CASE InterruptPublisher(p)
    BY <1>13 DEF InterruptPublisher
  <1>. QED
    BY <1>1, <1>2, <1>3, <1>4, <1>5, <1>6, <1>7, <1>8, <1>9, <1>10, <1>11, <1>12, <1>13 DEF Publish

\* A publisher finds its staging directory until it installs it (mcp-real-model-pilot.mjs,
\* publishCompletedAttempt), for any number of publishers, takeovers and interruptions.
THEOREM StagingKept == PublicationSpec => []StagingIsKept
  <1>1. PublicationInit => ClaimInv
    BY ClaimInit
  <1>2. ClaimInv /\ [PublicationNext]_publicationVars => ClaimInv'
    <2> SUFFICES ASSUME ClaimInv, [PublicationNext]_publicationVars
                 PROVE  ClaimInv'
      OBVIOUS
    <2>1. CASE PublicationNext
      BY <2>1, ClaimStep DEF PublicationNext
    <2>2. CASE UNCHANGED publicationVars
      BY <2>2 DEF publicationVars, ClaimInv, Typed, Numbered, Distinct, SeenIsDead,
                  StagersClaim, StagingIsKept
    <2>. QED
      BY <2>1, <2>2
  <1>3. ClaimInv => StagingIsKept
    BY DEF ClaimInv
  <1>. QED
    BY <1>1, <1>2, <1>3, PTL DEF PublicationSpec

----------------------------------------------------------------------------
(* What was reported                                                       *)

\* A publisher that synchronizes or releases sees its own artifact at the output, which is
\* never replaced once it is there.
Installed ==
    \A p \in Publishers :
        /\ publisher[p].at # "idle" => publisher[p].attempt # Nobody
        /\ publisher[p].at \in {"sync", "release"} => output = publisher[p].attempt
        /\ publisher[p].at = "release" => entryStable

ReportInv == publisher \in [Publishers -> PublisherRecord] /\ Installed /\ ReportedIsStable

LEMMA ReportInit == PublicationInit => ReportInv
  BY DEF PublicationInit, ReportInv, Installed, ReportedIsStable, Idle, PublisherRecord, Stages

LEMMA ReportStep ==
    ASSUME ClaimInv, ReportInv, NEW p \in Publishers, Publish(p) \/ InterruptPublisher(p)
    PROVE  ReportInv'
  <1>. USE DEF ReportInv, Installed, ReportedIsStable, PublisherAt, PublisherGoes,
               PublisherFails, PublisherReports, Idle, PublisherRecord, Stages
  <1>0. publisher' \in [Publishers -> PublisherRecord]
    BY ClaimStep DEF ClaimInv, Typed
  <1>1. CASE BeginPublication(p)
    BY <1>0, <1>1, PublicationConstants DEF BeginPublication, Looking, PublishedAttempts
  <1>2. CASE LookForOutput(p)
    BY <1>0, <1>2 DEF LookForOutput
  <1>3. CASE LinkPublicationClaim(p)
    BY <1>0, <1>3 DEF LinkPublicationClaim
  <1>4. CASE ReadPublicationClaim(p)
    BY <1>0, <1>4 DEF ReadPublicationClaim
  <1>5. CASE MoveClaimAside(p)
    BY <1>0, <1>5 DEF MoveClaimAside
  <1>6. CASE CleanStaleStaging(p)
    BY <1>0, <1>6 DEF CleanStaleStaging
  <1>7. CASE ForgetStaleClaim(p)
    BY <1>0, <1>7 DEF ForgetStaleClaim
  <1>8. CASE StagePublication(p)
    BY <1>0, <1>8 DEF StagePublication
  <1>9. CASE ExportStaged(p)
    BY <1>0, <1>9 DEF ExportStaged
  <1>10. CASE InstallOutput(p)
    BY <1>0, <1>10 DEF InstallOutput
  <1>11. CASE SyncOutput(p)
    BY <1>0, <1>11 DEF SyncOutput
  <1>12. CASE ReleasePublication(p)
    BY <1>0, <1>12 DEF ReleasePublication
  <1>13. CASE InterruptPublisher(p)
    BY <1>0, <1>13 DEF InterruptPublisher
  <1>. QED
    BY <1>1, <1>2, <1>3, <1>4, <1>5, <1>6, <1>7, <1>8, <1>9, <1>10, <1>11, <1>12, <1>13 DEF Publish

\* What a run reports is at the output path, as the artifact of its own attempt, with a
\* synchronized entry (mcp-real-model-pilot.mjs, recoverPublishedArtifact and
\* publishCompletedAttempt), also where another process installed it and died.
THEOREM ReportStable == PublicationSpec => []ReportedIsStable
  <1>1. PublicationInit => ClaimInv /\ ReportInv
    BY ClaimInit, ReportInit
  <1>2. ClaimInv /\ ReportInv /\ [PublicationNext]_publicationVars => (ClaimInv /\ ReportInv)'
    <2> SUFFICES ASSUME ClaimInv, ReportInv, [PublicationNext]_publicationVars
                 PROVE  ClaimInv' /\ ReportInv'
      OBVIOUS
    <2>1. CASE PublicationNext
      BY <2>1, ClaimStep, ReportStep DEF PublicationNext
    <2>2. CASE UNCHANGED publicationVars
      BY <2>2 DEF publicationVars, ClaimInv, Typed, Numbered, Distinct, SeenIsDead,
                  StagersClaim, StagingIsKept, ReportInv, Installed, ReportedIsStable
    <2>. QED
      BY <2>1, <2>2
  <1>3. ReportInv => ReportedIsStable
    BY DEF ReportInv
  <1>. QED
    BY <1>1, <1>2, <1>3, PTL DEF PublicationSpec

----------------------------------------------------------------------------
(* The export of a failed attempt                                          *)

\* Steps between the look at a claim that may be taken over and its removal, and steps of an
\* exporter that holds a claim of its own.
TakeOvers == {"compare", "remove", "rmdir", "retire", "unstage", "reread", "unlink"}
Holding == {"stage", "assert", "reserve", "mark", "fill"}

ExporterRecord ==
    [at : {"idle", "look", "recover", "release", "link", "held", "tidy", "settle", "cleanup",
           "unclaim"} \cup TakeOvers \cup Holding,
     attempt : FailedAttempts \cup {NoOne}, claim : Nat, seen : Nat, placed : SUBSET ArtifactFiles,
     found : BOOLEAN, reported : FailedAttempts \cup {NoOne}]

Directory == [marker : Nat, entries : SUBSET (ArtifactFiles \X FailedAttempts)]

ExportTypes ==
    /\ exporter \in [Exporters -> ExporterRecord]
    /\ \A p \in Exporters : ExporterAt(p, "idle") \/ exporter[p].attempt \in FailedAttempts
    /\ destination \in Directory \cup {NoOne}
    /\ linked \in Nat
    /\ exportClaim # NoOne => exportClaim.id \in 1 .. linked

\* A name is in the output once, so that no part of a mixed output is a whole artifact.
EntriesAreWhole ==
    destination # NoOne =>
        /\ \A e, f \in destination.entries : e[1] = f[1] => e = f
        /\ \A a \in FailedAttempts : destination.entries = ArtifactOf(a) => a \in completed

\* Every claim that anybody holds or has seen was linked before, and is held once.
ExportNumbered ==
    /\ \A p \in Exporters :
        /\ exporter[p].claim =< linked
        /\ exporter[p].at \in TakeOvers => exporter[p].seen \in 1 .. linked
        /\ exporter[p].at \in Holding => exporter[p].claim # 0
    /\ \A p, q \in Exporters :
        exporter[p].claim = exporter[q].claim /\ exporter[p].claim # 0 => p = q

\* A claim that is taken over is that of a dead process, unless an output was whole.
SeenIsGone ==
    \A p \in Exporters :
        /\ exporter[p].at \in TakeOvers =>
              completed # {} \/ \A q \in Exporters : exporter[q].claim # exporter[p].seen
        /\ ExporterAt(p, "release") => completed # {}

ExportInv ==
    ExportTypes /\ EntriesAreWhole /\ ExportNumbered /\ SeenIsGone /\ RunningStagingIsKept

\* What a step of p may do to what the others rely on.
Around(p) ==
    /\ linked' = linked /\ completed \subseteq completed'
    /\ exportClaim' = exportClaim \/ exportClaim' = NoOne
    /\ destination' \in Directory \cup {NoOne} /\ EntriesAreWhole'
    /\ \A q \in Exporters \ {p} :
          exporter[q].at \in Holding /\ exporter[q].claim \in staged =>
              exporter[q].claim \in staged' \/ completed # {}

\* One exporter moves, and keeps its claim or gives it up.
LEMMA ExporterMoves ==
    ASSUME ExportInv, NEW p \in Exporters, Around(p), NEW r \in ExporterRecord,
           exporter' = [exporter EXCEPT ![p] = r],
           r.claim \in {0, exporter[p].claim}, r.at = "idle" \/ r.attempt \in FailedAttempts,
           r.at \in Holding => r.claim # 0,
           r.at \in TakeOvers =>
              /\ r.seen \in 1 .. linked
              /\ completed # {} \/ \A q \in Exporters : exporter[q].claim # r.seen,
           r.at = "release" => completed # {},
           r.at \in {"assert", "reserve", "mark", "fill"} => r.claim \in staged' \/ completed # {}
    PROVE  ExportInv'
  <1>1. /\ exporter \in [Exporters -> ExporterRecord] /\ exporter'[p] = r
        /\ \A q \in Exporters \ {p} : exporter'[q] = exporter[q]
        /\ exporter' \in [Exporters -> ExporterRecord]
        /\ linked \in Nat /\ linked' = linked /\ completed \subseteq completed'
        /\ \A q \in Exporters : exporter[q].claim \in Nat
    BY DEF ExportInv, ExportTypes, Around, ExporterRecord
  <1>2. ExportTypes'
    BY <1>1 DEF ExportInv, ExportTypes, Around, ExporterAt
  <1>3. EntriesAreWhole'
    BY DEF Around
  <1>4. ExportNumbered'
    BY <1>1 DEF ExportInv, ExportNumbered
  <1>5. SeenIsGone'
    <2>1. ASSUME NEW x \in Exporters, exporter'[x].at \in TakeOvers, completed' = {}
          PROVE  \A q \in Exporters : exporter'[q].claim # exporter'[x].seen
      <3>1. /\ completed = {} /\ exporter'[x].seen # 0
            /\ \A q \in Exporters : exporter[q].claim # exporter'[x].seen
        BY <1>1, <2>1 DEF ExportInv, ExportNumbered, SeenIsGone
      <3>. QED
        BY <1>1, <3>1
    <2>2. ASSUME NEW x \in Exporters, ExporterAt(x, "release")'
          PROVE  completed' # {}
      BY <1>1, <2>2 DEF ExportInv, SeenIsGone, ExporterAt
    <2>. QED
      BY <2>1, <2>2 DEF SeenIsGone
  <1>6. RunningStagingIsKept'
    <2>1. \A q \in Exporters \ {p} :
             exporter[q].at \in {"assert", "reserve", "mark", "fill"} =>
                 exporter[q].claim \in staged' \/ completed # {}
      BY DEF ExportInv, RunningStagingIsKept, Around, Holding
    <2>. QED
      BY <1>1, <2>1 DEF RunningStagingIsKept
  <1>. QED
    BY <1>2, <1>3, <1>4, <1>5, <1>6 DEF ExportInv

\* An exporter that ends, or begins, holds no claim.
LEMMA ExporterRests ==
    ASSUME ExportInv, NEW p \in Exporters, Around(p), ExporterFails(p) \/ ExporterReports(p)
    PROVE  ExportInv'
  <1>1. PICK reported \in FailedAttempts \cup {NoOne} :
               exporter' = [exporter EXCEPT ![p] = AtEase(reported)]
    BY DEF ExporterFails, ExporterReports, ExportInv, ExportTypes, ExporterRecord
  <1>2. AtEase(reported) \in ExporterRecord
    BY DEF AtEase, ExporterRecord
  <1>3. AtEase(reported).at = "idle" /\ AtEase(reported).claim = 0
    BY DEF AtEase
  <1>. QED
    BY <1>1, <1>2, <1>3, ExporterMoves DEF Holding, TakeOvers

\* One that goes on to a step that asks for no more than it has.
LEMMA ExporterContinues ==
    ASSUME ExportInv, NEW p \in Exporters, Around(p), NEW at, ExporterGoes(p, at),
           ~ExporterAt(p, "idle"),
           \/ at \in {"recover", "link", "held", "tidy", "settle", "cleanup", "unclaim"}
           \/ at \in TakeOvers /\ exporter[p].at \in TakeOvers
           \/ /\ at \in Holding \ {"stage"} /\ exporter[p].at \in Holding
              /\ exporter[p].at # "stage" \/ exporter[p].claim \in staged'
              /\ exporter[p].claim \in staged => exporter[p].claim \in staged'
    PROVE  ExportInv'
  <1> DEFINE r == [exporter[p] EXCEPT !.at = at]
  <1>1. exporter[p] \in ExporterRecord /\ exporter[p].attempt \in FailedAttempts
    BY DEF ExportInv, ExportTypes
  <1>2. exporter' = [exporter EXCEPT ![p] = r]
    BY DEF ExporterGoes
  <1>3. /\ r \in ExporterRecord /\ r.at = at /\ r.claim = exporter[p].claim
        /\ r.seen = exporter[p].seen /\ r.attempt = exporter[p].attempt
    BY <1>1 DEF ExporterRecord, TakeOvers, Holding
  <1>. HIDE DEF r
  <1>4. CASE at \in {"recover", "link", "held", "tidy", "settle", "cleanup", "unclaim"}
    BY <1>1, <1>2, <1>3, <1>4, ExporterMoves DEF TakeOvers, Holding
  <1>5. CASE at \in TakeOvers /\ exporter[p].at \in TakeOvers
    <2>1. /\ r.seen \in 1 .. linked
          /\ completed # {} \/ \A q \in Exporters : exporter[q].claim # r.seen
      BY <1>3, <1>5 DEF ExportInv, ExportNumbered, SeenIsGone
    <2>2. /\ at \notin Holding
          /\ at \notin {"idle", "release", "assert", "reserve", "mark", "fill"}
      BY <1>5 DEF TakeOvers, Holding
    <2>. QED
      BY <1>1, <1>2, <1>3, <2>1, <2>2, ExporterMoves
  <1>6. CASE /\ at \in Holding \ {"stage"} /\ exporter[p].at \in Holding
             /\ exporter[p].at # "stage" \/ exporter[p].claim \in staged'
             /\ exporter[p].claim \in staged => exporter[p].claim \in staged'
    <2>1. r.claim # 0
      BY <1>3, <1>6 DEF ExportInv, ExportNumbered
    <2>2. at \notin TakeOvers /\ at # "release"
      BY <1>6 DEF TakeOvers, Holding
    <2>3. r.claim \in staged' \/ completed # {}
      BY <1>3, <1>6 DEF ExportInv, RunningStagingIsKept, Holding
    <2>. QED
      BY <1>1, <1>2, <1>3, <2>1, <2>2, <2>3, ExporterMoves
  <1>. QED
    BY <1>4, <1>5, <1>6

\* One that reads the claim of a dead process.
LEMMA ExporterTakesOver ==
    ASSUME ExportInv, NEW p \in Exporters, NEW at \in {"compare", "retire"}, ~ExporterAt(p, "idle"),
           TakeOverTo(p, at), UNCHANGED <<destination, exportClaim, staged, linked, completed>>
    PROVE  ExportInv'
  <1>1. Around(p)
    BY DEF Around, ExportInv, ExportTypes, EntriesAreWhole
  <1>2. CASE ExporterFails(p)
    BY <1>1, <1>2, ExporterRests
  <1>3. CASE /\ MayTakeOver(p)
             /\ exporter' = [exporter EXCEPT ![p].at = at, ![p].seen = exportClaim.id]
    <2> DEFINE r == [exporter[p] EXCEPT !.at = at, !.seen = exportClaim.id]
    <2>1. exporter[p] \in ExporterRecord /\ exporter[p].attempt \in FailedAttempts
      BY DEF ExportInv, ExportTypes
    <2>2. exportClaim.id \in 1 .. linked /\ linked \in Nat /\ exportClaim.id \in Nat
      BY <1>3 DEF ExportInv, ExportTypes, MayTakeOver
    <2>3. exporter' = [exporter EXCEPT ![p] = r]
      BY <1>3
    <2>4. /\ r \in ExporterRecord /\ r.at = at /\ r.claim = exporter[p].claim
          /\ r.seen = exportClaim.id /\ r.attempt = exporter[p].attempt
      BY <2>1, <2>2 DEF ExporterRecord, TakeOvers
    <2>. HIDE DEF r
    <2>5. \A q \in Exporters : exporter[q].claim # r.seen
      BY <1>3, <2>4 DEF MayTakeOver, ExporterLives
    <2>. QED
      BY <1>1, <2>1, <2>2, <2>3, <2>4, <2>5, ExporterMoves DEF Holding
  <1>. QED
    BY <1>2, <1>3 DEF TakeOverTo

LEMMA NothingAround ==
    ASSUME ExportInv, NEW p \in Exporters,
           UNCHANGED <<destination, staged, linked, completed>>,
           exportClaim' = exportClaim \/ exportClaim' = NoOne
    PROVE  Around(p)
  BY DEF Around, ExportInv, ExportTypes, EntriesAreWhole

\* What a removal leaves is a whole artifact only if nothing was removed: no name is there twice.
LEMMA FewerEntries ==
    ASSUME ExportInv, destination # NoOne, NEW left \in SUBSET destination.entries,
           NEW marker \in Nat, destination' = [marker |-> marker, entries |-> left],
           completed' = completed
    PROVE  destination' \in Directory /\ EntriesAreWhole'
  <1>1. /\ destination \in Directory
        /\ \A e, f \in destination.entries : e[1] = f[1] => e = f
        /\ \A a \in FailedAttempts : destination.entries = ArtifactOf(a) => a \in completed
    BY DEF ExportInv, ExportTypes, EntriesAreWhole
  <1>2. left \subseteq ArtifactFiles \X FailedAttempts
    BY <1>1 DEF Directory
  <1>3. destination' \in Directory
    BY <1>2 DEF Directory
  <1>4. ASSUME NEW a \in FailedAttempts, left = ArtifactOf(a)
        PROVE  destination.entries = left
    <2>1. ASSUME NEW e \in destination.entries
          PROVE  e \in left
      <3>1. e \in ArtifactFiles \X FailedAttempts
        BY <1>1, <2>1 DEF Directory
      <3>2. e[1] \in ArtifactFiles
        BY <3>1
      <3>3. <<e[1], a>> \in left
        BY <1>4, <3>2 DEF ArtifactOf
      <3>4. <<e[1], a>> = e
        BY <1>1, <2>1, <3>3
      <3>. QED
        BY <3>3, <3>4
    <2>. QED
      BY <2>1
  <1>5. destination'.entries = left
    OBVIOUS
  <1>6. \A e, f \in left : e[1] = f[1] => e = f
    BY <1>1
  <1>7. \A a \in FailedAttempts : left = ArtifactOf(a) => a \in completed
    BY <1>1, <1>4
  <1>8. EntriesAreWhole'
    BY <1>5, <1>6, <1>7 DEF EntriesAreWhole, ArtifactOf, FailedAttempts
  <1>. QED
    BY <1>3, <1>8

LEMMA RecoverKeeps ==
    ASSUME ExportInv, NEW p \in Exporters, BeginExport(p) \/ RecoverExport(p)
    PROVE  ExportInv'
  <1>. USE DEF ExporterAt
  <1>1. CASE BeginExport(p)
    <2> DEFINE r == [AtEase(NoOne) EXCEPT !.at = "look", !.attempt = FailedAttempt[p]]
    <2>1. r \in ExporterRecord /\ r.at = "look" /\ r.attempt \in FailedAttempts /\ r.claim = 0
      BY DEF AtEase, ExporterRecord, FailedAttempts
    <2>2. exporter' = [exporter EXCEPT ![p] = r] /\ Around(p)
      BY <1>1, NothingAround DEF BeginExport
    <2>. HIDE DEF r
    <2>. QED
      BY <2>1, <2>2, ExporterMoves DEF Holding, TakeOvers
  <1>2. CASE LookForDestination(p)
    <2>1. Around(p)
      BY <1>2, NothingAround DEF LookForDestination
    <2>2. CASE ExporterGoes(p, "link") \/ ExporterGoes(p, "recover")
      BY <1>2, <2>1, <2>2, ExporterContinues DEF LookForDestination
    <2>3. CASE ExporterFails(p)
      BY <2>1, <2>3, ExporterRests
    <2>4. CASE /\ VerifiesAs(destination, exporter[p].attempt)
               /\ exporter' = [exporter EXCEPT ![p].at = "release", ![p].found = TRUE]
      <3> DEFINE r == [exporter[p] EXCEPT !.at = "release", !.found = TRUE]
      <3>1. exporter[p] \in ExporterRecord /\ exporter[p].attempt \in FailedAttempts
        BY <1>2 DEF ExportInv, ExportTypes, LookForDestination
      <3>2. exporter' = [exporter EXCEPT ![p] = r]
        BY <2>4
      <3>3. /\ r \in ExporterRecord /\ r.at = "release" /\ r.claim = exporter[p].claim
            /\ r.attempt = exporter[p].attempt
        BY <3>1 DEF ExporterRecord
      <3>. HIDE DEF r
      <3>4. exporter[p].attempt \in completed
        BY <2>4, <3>1 DEF VerifiesAs, IsArtifactOf, ExportInv, EntriesAreWhole
      <3>. QED
        BY <2>1, <3>1, <3>2, <3>3, <3>4, ExporterMoves DEF Holding, TakeOvers
    <2>. QED
      BY <1>2, <2>2, <2>3, <2>4 DEF LookForDestination
  <1>3. CASE ReadRecoveredClaim(p)
    <2>1. Around(p)
      BY <1>3, NothingAround DEF ReadRecoveredClaim
    <2>2. CASE ExporterReports(p) \/ ExporterFails(p)
      BY <2>1, <2>2, ExporterRests
    <2>3. CASE /\ exportClaim # NoOne
               /\ exporter' = [exporter EXCEPT ![p].at = "retire", ![p].seen = exportClaim.id]
      <3> DEFINE r == [exporter[p] EXCEPT !.at = "retire", !.seen = exportClaim.id]
      <3>1. /\ exporter[p] \in ExporterRecord /\ exporter[p].attempt \in FailedAttempts
            /\ completed # {} /\ exportClaim.id \in 1 .. linked /\ exportClaim.id \in Nat
        BY <1>3, <2>3 DEF ExportInv, ExportTypes, SeenIsGone, ReadRecoveredClaim
      <3>2. exporter' = [exporter EXCEPT ![p] = r]
        BY <2>3
      <3>3. /\ r \in ExporterRecord /\ r.at = "retire" /\ r.claim = exporter[p].claim
            /\ r.attempt = exporter[p].attempt /\ r.seen = exportClaim.id
        BY <3>1 DEF ExporterRecord, TakeOvers
      <3>. HIDE DEF r
      <3>. QED
        BY <2>1, <3>1, <3>2, <3>3, ExporterMoves DEF Holding
    <2>. QED
      BY <1>3, <2>2, <2>3 DEF ReadRecoveredClaim
  <1>4. CASE ReadClaimOfIncomplete(p)
    BY <1>4, ExporterTakesOver DEF ReadClaimOfIncomplete
  <1>5. CASE CompareIncomplete(p)
    <2>1. Around(p)
      BY <1>5, NothingAround DEF CompareIncomplete
    <2>. QED
      BY <1>5, <2>1, ExporterRests, ExporterContinues DEF CompareIncomplete, TakeOvers
  <1>6. CASE RemoveSomeEntries(p)
    <2>1. UNCHANGED <<exportClaim, staged, linked, completed>>
      BY <1>6 DEF RemoveSomeEntries
    <2>2. destination' \in Directory \cup {NoOne} /\ EntriesAreWhole'
      <3>1. CASE destination' = destination
        BY <2>1, <3>1 DEF ExportInv, ExportTypes, EntriesAreWhole
      <3>2. CASE destination # NoOne /\ destination' # destination
        <4>1. PICK left \in SUBSET destination.entries, marker \in {0, destination.marker} :
                     destination' = [marker |-> marker, entries |-> left]
          BY <1>6, <3>2 DEF RemoveSomeEntries
        <4>2. marker \in Nat
          BY <3>2 DEF ExportInv, ExportTypes, Directory
        <4>. QED
          BY <2>1, <3>2, <4>1, <4>2, FewerEntries
      <3>. QED
        BY <1>6, <3>1, <3>2 DEF RemoveSomeEntries
    <2>3. Around(p)
      BY <2>1, <2>2 DEF Around
    <2>. QED
      BY <1>6, <2>3, ExporterContinues DEF RemoveSomeEntries, TakeOvers
  <1>7. CASE RemoveDestination(p)
    <2>1. Around(p)
      BY <1>7 DEF RemoveDestination, Around, EntriesAreWhole
    <2>. QED
      BY <1>7, <2>1, ExporterContinues DEF RemoveDestination, TakeOvers
  <1>8. ASSUME RetireClaim(p) \/ ReadFinally(p) \/ UnlinkSeenClaim(p)
        PROVE  ExportInv'
    <2>1. UNCHANGED <<destination, staged, linked, completed>>
          /\ (exportClaim' = exportClaim \/ exportClaim' = NoOne)
      BY <1>8 DEF RetireClaim, ReadFinally, UnlinkSeenClaim, RereadClaim
    <2>2. Around(p)
      BY <2>1, NothingAround
    <2>3. exporter[p].at \in TakeOvers /\ ~ExporterAt(p, "idle")
      BY <1>8 DEF RetireClaim, ReadFinally, UnlinkSeenClaim, RereadClaim, TakeOvers
    <2>4. \/ ExporterReports(p) \/ ExporterFails(p)
          \/ \E at \in {"link", "unstage", "unlink"} : ExporterGoes(p, at)
      BY <1>8 DEF RetireClaim, ReadFinally, UnlinkSeenClaim, RereadClaim, Retired
    <2>. QED
      BY <2>2, <2>3, <2>4, ExporterRests, ExporterContinues DEF TakeOvers
  <1>9. CASE RemoveSeenStaging(p)
    <2>1. /\ UNCHANGED <<destination, exportClaim, linked, completed>>
          /\ staged' = staged \ {exporter[p].seen} /\ exporter[p].at \in TakeOvers
      BY <1>9 DEF RemoveSeenStaging, TakeOvers
    <2>2. completed # {} \/ \A q \in Exporters : exporter[q].claim # exporter[p].seen
      BY <2>1 DEF ExportInv, SeenIsGone
    <2>3. Around(p)
      BY <2>1, <2>2 DEF Around, ExportInv, ExportTypes, EntriesAreWhole
    <2>. QED
      BY <1>9, <2>3, ExporterContinues DEF RemoveSeenStaging, TakeOvers
  <1>. QED
    BY <1>1, <1>2, <1>3, <1>4, <1>5, <1>6, <1>7, <1>8, <1>9 DEF RecoverExport

\* A file is linked under a name that is free.
LEMMA AnotherEntry ==
    ASSUME ExportInv, destination # NoOne, NEW name \in ArtifactFiles, NEW a \in FailedAttempts,
           \A b \in FailedAttempts : <<name, b>> \notin destination.entries,
           destination' = [destination EXCEPT !.entries = @ \cup {<<name, a>>}],
           completed' = completed \cup
               {b \in FailedAttempts : destination'.entries = ArtifactOf(b)}
    PROVE  destination' \in Directory /\ EntriesAreWhole'
  <1>1. /\ destination \in Directory
        /\ \A e, f \in destination.entries : e[1] = f[1] => e = f
    BY DEF ExportInv, ExportTypes, EntriesAreWhole
  <1> DEFINE entries == destination.entries \cup {<<name, a>>}
  <1>2. destination' \in Directory /\ destination'.entries = entries
    BY <1>1 DEF Directory
  <1>3. ASSUME NEW e \in destination.entries
        PROVE  e[1] # name
    <2>1. e \in ArtifactFiles \X FailedAttempts
      BY <1>1, <1>3 DEF Directory
    <2>2. e = <<e[1], e[2]>> /\ e[2] \in FailedAttempts
      BY <2>1
    <2>. QED
      BY <1>3, <2>2
  <1>4. <<name, a>>[1] = name
    OBVIOUS
  <1>5. \A e, f \in entries : e[1] = f[1] => e = f
    BY <1>1, <1>3, <1>4
  <1>. HIDE DEF entries
  <1>6. \A b \in FailedAttempts : entries = ArtifactOf(b) => b \in completed'
    BY <1>2
  <1>7. EntriesAreWhole'
    BY <1>2, <1>5, <1>6 DEF EntriesAreWhole, ArtifactOf, FailedAttempts
  <1>. QED
    BY <1>2, <1>7

LEMMA LinkClaimKeeps ==
    ASSUME ExportInv, NEW p \in Exporters, LinkExportClaim(p)
    PROVE  ExportInv'
  <1>1. CASE exportClaim # NoOne /\ ExporterGoes(p, "held") /\ UNCHANGED <<exportClaim, linked>>
    <2>1. Around(p)
      BY <1>1, NothingAround DEF LinkExportClaim
    <2>. QED
      BY <1>1, <2>1, ExporterContinues DEF LinkExportClaim, ExporterAt
  <1>2. CASE /\ exportClaim' = [id |-> linked + 1, attempt |-> exporter[p].attempt]
             /\ exporter' = [exporter EXCEPT ![p].at = "stage", ![p].claim = linked + 1]
             /\ linked' = linked + 1
    <2> DEFINE r == [exporter[p] EXCEPT !.at = "stage", !.claim = linked + 1]
    <2>1. /\ exporter \in [Exporters -> ExporterRecord] /\ exporter[p] \in ExporterRecord
          /\ exporter[p].attempt \in FailedAttempts /\ linked \in Nat /\ linked + 1 \in Nat
          /\ \A q \in Exporters : exporter[q].claim \in Nat /\ exporter[q].claim =< linked
      BY <1>2 DEF ExportInv, ExportTypes, ExportNumbered, LinkExportClaim, ExporterAt, ExporterRecord
    <2>2. exporter' = [exporter EXCEPT ![p] = r]
      BY <1>2
    <2>3. /\ r \in ExporterRecord /\ r.at = "stage" /\ r.claim = linked + 1
          /\ r.attempt = exporter[p].attempt
      BY <2>1 DEF ExporterRecord, Holding
    <2>. HIDE DEF r
    <2>4. /\ exporter'[p] = r /\ \A q \in Exporters \ {p} : exporter'[q] = exporter[q]
          /\ exporter' \in [Exporters -> ExporterRecord]
      BY <2>1, <2>2, <2>3
    <2>5. UNCHANGED <<destination, staged, completed>>
      BY DEF LinkExportClaim
    <2>6. exportClaim'.id = linked + 1
      BY <1>2
    <2>7. ExportTypes'
      BY <1>2, <2>1, <2>3, <2>4, <2>5, <2>6 DEF ExportInv, ExportTypes, ExporterAt
    <2>8. EntriesAreWhole'
      BY <2>5 DEF ExportInv, EntriesAreWhole
    <2>9. ExportNumbered'
      BY <1>2, <2>1, <2>3, <2>4 DEF ExportInv, ExportNumbered, TakeOvers
    <2>10. SeenIsGone'
      <3>1. ASSUME NEW x \in Exporters, exporter'[x].at \in TakeOvers, completed' = {}
            PROVE  \A q \in Exporters : exporter'[q].claim # exporter'[x].seen
        <4>1. x # p
          BY <2>3, <2>4, <3>1 DEF TakeOvers
        <4>2. /\ exporter'[x] = exporter[x] /\ exporter[x].seen \in 1 .. linked
              /\ \A q \in Exporters : exporter[q].claim # exporter[x].seen
          BY <2>4, <2>5, <3>1, <4>1 DEF ExportInv, ExportNumbered, SeenIsGone
        <4>. QED
          BY <2>1, <2>3, <2>4, <4>2
      <3>2. ASSUME NEW x \in Exporters, ExporterAt(x, "release")'
            PROVE  completed' # {}
        BY <2>3, <2>4, <2>5, <3>2 DEF ExportInv, SeenIsGone, ExporterAt
      <3>. QED
        BY <3>1, <3>2 DEF SeenIsGone
    <2>11. RunningStagingIsKept'
      BY <2>3, <2>4, <2>5 DEF ExportInv, RunningStagingIsKept
    <2>. QED
      BY <2>7, <2>8, <2>9, <2>10, <2>11 DEF ExportInv
  <1>. QED
    BY <1>1, <1>2 DEF LinkExportClaim

LEMMA PerformKeeps ==
    ASSUME ExportInv, NEW p \in Exporters, PerformExport(p) \/ KillExporter(p)
    PROVE  ExportInv'
  <1>1. CASE LinkExportClaim(p)
    BY <1>1, LinkClaimKeeps
  <1>2. CASE ReadHeldClaim(p)
    BY <1>2, ExporterTakesOver DEF ReadHeldClaim, ExporterAt
  <1>3. CASE StageFailure(p)
    <2>1. /\ UNCHANGED <<destination, exportClaim, linked, completed>>
          /\ staged' = staged \/ staged' = staged \cup {exporter[p].claim}
      BY <1>3 DEF StageFailure
    <2>2. Around(p)
      BY <2>1 DEF Around, ExportInv, ExportTypes, EntriesAreWhole
    <2>3. CASE ExporterGoes(p, "assert") /\ exporter[p].claim \in staged'
      BY <1>3, <2>1, <2>2, <2>3, ExporterContinues DEF StageFailure, ExporterAt, Holding
    <2>4. CASE ExporterGoes(p, "cleanup")
      BY <1>3, <2>2, <2>4, ExporterContinues DEF StageFailure, ExporterAt
    <2>. QED
      BY <1>3, <2>3, <2>4 DEF StageFailure
  <1>4. CASE AssertExportClaim(p)
    <2>1. Around(p)
      BY <1>4, NothingAround DEF AssertExportClaim
    <2>2. CASE ExporterGoes(p, "reserve")
      BY <1>4, <2>1, <2>2, ExporterContinues DEF AssertExportClaim, ExporterAt, Holding
    <2>3. CASE ExporterGoes(p, "cleanup")
      BY <1>4, <2>1, <2>3, ExporterContinues DEF AssertExportClaim, ExporterAt
    <2>. QED
      BY <1>4, <2>2, <2>3 DEF AssertExportClaim
  <1>5. CASE ReserveDestination(p)
    <2>1. CASE /\ destination' = [marker |-> 0, entries |-> {}]
               /\ ExporterGoes(p, "mark")
      <3>1. \A a \in FailedAttempts : ArtifactOf(a) # {}
        <4>1. PICK name \in ArtifactFiles : TRUE
          BY FailedConstants
        <4>2. \A a : <<name, a>> \in ArtifactOf(a)
          BY <4>1 DEF ArtifactOf
        <4>. QED
          BY <4>2
      <3>2. destination' \in Directory /\ destination'.entries = {}
        BY <2>1 DEF Directory
      <3>3. EntriesAreWhole'
        BY <3>1, <3>2 DEF EntriesAreWhole, ArtifactOf, FailedAttempts
      <3>4. Around(p)
        BY <1>5, <3>2, <3>3 DEF Around, ReserveDestination
      <3>. QED
        BY <1>5, <2>1, <3>4, ExporterContinues DEF ReserveDestination, ExporterAt, Holding
    <2>2. CASE ExporterGoes(p, "cleanup") /\ UNCHANGED destination
      <3>1. Around(p)
        BY <1>5, <2>2, NothingAround DEF ReserveDestination
      <3>. QED
        BY <1>5, <2>2, <3>1, ExporterContinues DEF ReserveDestination, ExporterAt
    <2>. QED
      BY <1>5, <2>1, <2>2 DEF ReserveDestination
  <1>6. ASSUME MarkIncomplete(p) \/ CompleteDestination(p)
        PROVE  ExportInv'
    <2>1. UNCHANGED <<exportClaim, staged, linked, completed>> /\ exporter[p].at \in {"mark", "fill"}
      BY <1>6 DEF MarkIncomplete, CompleteDestination, ExporterAt
    <2>2. \/ UNCHANGED destination
          \/ /\ destination # NoOne
             /\ \E marker \in Nat : destination' = [destination EXCEPT !.marker = marker]
      <3>1. exporter[p].claim \in Nat
        BY DEF ExportInv, ExportTypes, ExporterRecord
      <3>. QED
        BY <1>6, <3>1 DEF MarkIncomplete, CompleteDestination
    <2>3. destination' \in Directory \cup {NoOne} /\ EntriesAreWhole'
      <3>1. CASE UNCHANGED destination
        BY <2>1, <3>1 DEF ExportInv, ExportTypes, EntriesAreWhole
      <3>2. CASE destination # NoOne /\ ~UNCHANGED destination
        <4>1. PICK marker \in Nat : destination' = [destination EXCEPT !.marker = marker]
          BY <2>2, <3>2
        <4>2. destination' \in Directory /\ destination'.entries = destination.entries
          BY <3>2, <4>1 DEF ExportInv, ExportTypes, Directory
        <4>. QED
          BY <2>1, <3>2, <4>2 DEF ExportInv, EntriesAreWhole
      <3>. QED
        BY <2>2, <3>1, <3>2
    <2>4. Around(p)
      BY <2>1, <2>3 DEF Around
    <2>5. \/ ExporterGoes(p, "fill") \/ ExporterGoes(p, "tidy") \/ ExporterFails(p)
      BY <1>6 DEF MarkIncomplete, CompleteDestination
    <2>. QED
      BY <2>1, <2>4, <2>5, ExporterRests, ExporterContinues DEF ExporterAt, Holding
  <1>7. CASE LinkNextFile(p)
    <2>1. PICK name \in ArtifactFiles :
             \/ /\ destination # NoOne
                /\ \A a \in FailedAttempts : <<name, a>> \notin destination.entries
                /\ destination' =
                      [destination EXCEPT !.entries = @ \cup {<<name, exporter[p].attempt>>}]
                /\ completed' = completed \cup
                      {a \in FailedAttempts : destination'.entries = ArtifactOf(a)}
                /\ exporter' = [exporter EXCEPT ![p].placed = @ \cup {name}]
             \/ ExporterFails(p) /\ UNCHANGED <<destination, completed>>
      BY <1>7 DEF LinkNextFile
    <2>2. /\ UNCHANGED <<exportClaim, staged, linked>> /\ exporter[p].at = "fill"
          /\ exporter[p] \in ExporterRecord /\ exporter[p].attempt \in FailedAttempts
      BY <1>7 DEF LinkNextFile, ExporterAt, ExportInv, ExportTypes
    <2>3. CASE ExporterFails(p) /\ UNCHANGED <<destination, completed>>
      BY <2>2, <2>3, NothingAround, ExporterRests
    <2>4. CASE ~(ExporterFails(p) /\ UNCHANGED <<destination, completed>>)
      <3> DEFINE r == [exporter[p] EXCEPT !.placed = @ \cup {name}]
      <3>1. destination' \in Directory /\ EntriesAreWhole'
        BY <2>1, <2>2, <2>4, AnotherEntry
      <3>2. Around(p)
        BY <2>1, <2>2, <2>4, <3>1 DEF Around
      <3>3. exporter' = [exporter EXCEPT ![p] = r]
        BY <2>1, <2>4
      <3>4. /\ r \in ExporterRecord /\ r.at = "fill" /\ r.claim = exporter[p].claim
            /\ r.attempt = exporter[p].attempt
        BY <2>2 DEF ExporterRecord
      <3>. HIDE DEF r
      <3>5. r.claim # 0 /\ (r.claim \in staged' \/ completed # {})
        BY <2>2, <3>4 DEF ExportInv, ExportNumbered, RunningStagingIsKept, Holding
      <3>. QED
        BY <2>2, <3>2, <3>3, <3>4, <3>5, ExporterMoves DEF TakeOvers
    <2>. QED
      BY <2>3, <2>4
  <1>8. ASSUME RemoveOwnStaging(p) \/ CleanUp(p)
        PROVE  ExportInv'
    <2>1. /\ UNCHANGED <<destination, exportClaim, linked, completed>>
          /\ staged' = staged \ {exporter[p].claim} /\ exporter[p].at \in {"tidy", "cleanup"}
      BY <1>8 DEF RemoveOwnStaging, CleanUp, ExporterAt
    <2>2. \A q \in Exporters \ {p} :
             exporter[q].at \in Holding => exporter[q].claim # exporter[p].claim
      BY DEF ExportInv, ExportNumbered
    <2>3. Around(p)
      BY <2>1, <2>2 DEF Around, ExportInv, ExportTypes, EntriesAreWhole
    <2>4. ExporterGoes(p, "settle") \/ ExporterGoes(p, "unclaim") \/ ExporterFails(p)
      BY <1>8 DEF RemoveOwnStaging, CleanUp
    <2>. QED
      BY <2>1, <2>3, <2>4, ExporterRests, ExporterContinues DEF ExporterAt
  <1>9. CASE SettleClaim(p)
    <2>1. Around(p)
      BY <1>9, NothingAround DEF SettleClaim
    <2>2. CASE exporter' = [exporter EXCEPT ![p].at = "unclaim", ![p].found = TRUE]
      <3> DEFINE r == [exporter[p] EXCEPT !.at = "unclaim", !.found = TRUE]
      <3>1. exporter[p] \in ExporterRecord /\ exporter[p].attempt \in FailedAttempts
        BY <1>9 DEF ExportInv, ExportTypes, SettleClaim, ExporterAt
      <3>2. exporter' = [exporter EXCEPT ![p] = r]
        BY <2>2
      <3>3. /\ r \in ExporterRecord /\ r.at = "unclaim" /\ r.claim = exporter[p].claim
            /\ r.attempt = exporter[p].attempt
        BY <3>1 DEF ExporterRecord
      <3>. HIDE DEF r
      <3>. QED
        BY <2>1, <3>1, <3>2, <3>3, ExporterMoves DEF Holding, TakeOvers
    <2>. QED
      BY <1>9, <2>1, <2>2, ExporterRests DEF SettleClaim
  <1>10. CASE UnlinkOwnClaim(p) \/ KillExporter(p)
    <2>1. Around(p)
      BY <1>10, NothingAround DEF UnlinkOwnClaim, KillExporter
    <2>. QED
      BY <1>10, <2>1, ExporterRests DEF UnlinkOwnClaim, KillExporter
  <1>. QED
    BY <1>1, <1>2, <1>3, <1>4, <1>5, <1>6, <1>7, <1>8, <1>9, <1>10 DEF PerformExport

LEMMA ExportBegins ==
    ASSUME FailedInit
    PROVE  ExportInv
  <1>1. AtEase(NoOne) \in ExporterRecord /\ AtEase(NoOne).at = "idle" /\ AtEase(NoOne).claim = 0
    BY DEF AtEase, ExporterRecord
  <1>2. /\ exporter \in [Exporters -> ExporterRecord]
        /\ \A p \in Exporters : exporter[p].at = "idle" /\ exporter[p].claim = 0
        /\ linked = 0 /\ destination = NoOne /\ exportClaim = NoOne
    BY <1>1 DEF FailedInit
  <1>. QED
    BY <1>2 DEF ExportInv, ExportTypes, EntriesAreWhole, ExportNumbered, SeenIsGone,
        RunningStagingIsKept, ExporterAt, TakeOvers, Holding

\* The staging directory of a running exporter of a failed attempt goes only after an output was
\* whole (mcp-real-model-pilot-failure-artifact.mjs, publishFailedAttempt), for any number of
\* exporters, attempts, takeovers and kills.
THEOREM RunningStagingKept == FailedSpec => []RunningStagingIsKept
  <1>1. FailedInit => ExportInv
    BY ExportBegins
  <1>2. ExportInv /\ [FailedNext]_failedVars => ExportInv'
    <2> SUFFICES ASSUME ExportInv, [FailedNext]_failedVars
                 PROVE  ExportInv'
      OBVIOUS
    <2>1. CASE FailedNext
      BY <2>1, RecoverKeeps, PerformKeeps DEF FailedNext
    <2>2. CASE UNCHANGED failedVars
      BY <2>2 DEF failedVars, ExportInv, ExportTypes, EntriesAreWhole, ExportNumbered, SeenIsGone,
                  RunningStagingIsKept, ExporterAt
    <2>. QED
      BY <2>1, <2>2
  <1>3. ExportInv => RunningStagingIsKept
    BY DEF ExportInv
  <1>. QED
    BY <1>1, <1>2, <1>3, PTL DEF FailedSpec

=============================================================================
