--------------------------- MODULE ProcedureProofs ---------------------------
(***************************************************************************)
(* Proofs about the procedures that clients, operators and jobs run        *)
(* concurrently: the attempts of a benchmark (EvalAttempts), a release     *)
(* (Release), the pages of a listing (McpCatalog), a Temporal workflow     *)
(* (TimelineWorkflow) and the saves of an archive (ArchiveStore).          *)
(***************************************************************************)
EXTENDS EvalAttempts, Release, McpCatalog, TimelineWorkflow, ArchiveStore,
        FiniteSetTheorems, WellFoundedInduction, TLAPS

----------------------------------------------------------------------------
(* The ledger of attempts: types                                           *)

Attempt ==
    [status : {"pending", "claimed", "complete"}, path : Paths \cup {None},
     claim : Nat \cup {None}, decision : {"inconclusive", "continue", "kill", None},
     codes : Seq(Codes) \cup {None}]

Options == [path : Paths, overwrite : BOOLEAN, complete : BOOLEAN]

\* Steps inside the lock, and steps of a run.
InLock == {"read", "replace", "release"}
InRun == {"begin", "ask", "publish"}

Command ==
    [step : {"lock", "write"} \cup InLock \cup InRun, kind : {"prepare", "claim", "gate", "run"},
     options : Options \cup {None}, serial : Nat, next : Seq(Attempt), result : Result \cup {None}]

AttemptTypes ==
    /\ ledger \in Seq(Attempt)
    /\ locked \in BOOLEAN
    /\ files \in [Paths -> Result \cup {None}]
    /\ checkout \in Checkouts
    /\ command \in [Operators -> Command \cup {Resting}]
    /\ started \in Nat

----------------------------------------------------------------------------
(* The inductive invariant                                                 *)

\* One command is inside the lock at a time.
OneInLock ==
    /\ \A o \in Operators : command[o].step \in InLock => locked
    /\ \A o, q \in Operators :
          command[o].step \in InLock /\ command[q].step \in InLock => o = q

\* An attempt that is pending has no claim, and one that is complete the decision of its codes.
Entry(a) ==
    /\ a.status = "pending" => a.claim = None
    /\ a.status = "complete" => a.decision = Decision(a.codes)

\* Attempt n belongs to the command that began with this serial, and to this path.
ClaimedBy(n, claim, path) ==
    /\ n \in DOMAIN ledger
    /\ ledger[n].status # "pending"
    /\ ledger[n].claim = claim /\ ledger[n].path = path

\* Results r are where they were written, or a run that overwrites replaced them.
StillThere(r) ==
    /\ files[r.path] # None
    /\ files[r.path] = r \/ files[r.path].over

\* The next ledger that a command has computed follows from the one that is there.
Planned(c) ==
    \/ c.kind = "prepare" /\ MayPrepare(ledger) /\ c.next = PreparedIn(ledger)
    \/ c.kind = "claim" /\ MayClaim(ledger) /\ c.next = ClaimedIn(ledger, c.options.path, c.serial)
    \/ c.kind = "gate" /\ MayComplete(ledger, c.result) /\ c.next = CompletedIn(ledger, c.result)

\* The results a command is making.
Making(c) ==
    /\ c.result \in Result
    /\ c.result.path = c.options.path /\ c.result.over = c.options.overwrite
    /\ c.result.formal =>
          c.kind = "claim" /\ c.result.attempt = Len(c.next) /\ c.result.claim = c.serial

Proper(c) ==
    /\ c.step \in {"lock"} \cup InLock => c.kind \in {"prepare", "claim", "gate"}
    /\ c.step \in InRun => c.kind \in {"claim", "run"}
    /\ c.step # "idle" /\ c.kind \in {"claim", "run"} => c.options \in Options
    /\ c.step # "idle" /\ c.kind = "gate" => c.result \in Result /\ StillThere(c.result)
    /\ c.step = "replace" => Planned(c)
    /\ c.step \in {"release"} \cup InRun /\ c.kind = "claim" =>
          ClaimedBy(Len(c.next), c.serial, c.options.path)
    /\ c.step \in {"ask", "publish"} => Making(c)

\* Formal results come from the command that claimed their attempt and this path.
FileClaimed(p) ==
    files[p] # None /\ files[p].formal =>
        files[p].path = p /\ ClaimedBy(files[p].attempt, files[p].claim, p)

\* The results that a complete attempt was decided on are there, or were overwritten.
EntryHeld(n) ==
    /\ Entry(ledger[n])
    /\ ledger[n].status = "complete" =>
          LET r == files[ledger[n].path]
          IN /\ ledger[n].path \in Paths
             /\ r # None /\ (r.over \/ (r.attempt = n /\ r.codes = ledger[n].codes))

ClaimsKept ==
    /\ \A p \in Paths : FileClaimed(p)
    /\ \A n \in DOMAIN ledger : EntryHeld(n)

AttemptInv ==
    AttemptTypes /\ OneInLock /\ ClaimsKept /\ \A o \in Operators : Proper(command[o])

----------------------------------------------------------------------------
(* Values                                                                  *)

LEMMA RecordedTyped ==
    ASSUME NEW event \in ProviderEvents
    PROVE  Recorded(event) \in Codes
  BY AttemptConstants DEF Codes

LEMMA RestingFacts ==
    ASSUME AttemptTypes, NEW o \in Operators
    PROVE  /\ Resting.step = "idle"
           /\ command[o].step # "idle" => command[o] \in Command
           /\ \A step : IsAt(o, step) <=> command[o].step = step
  BY DEF AttemptTypes, Resting, Command, InLock, InRun, IsAt

\* Moving a command to another step changes nothing else of it.
LEMMA CommandMoves ==
    ASSUME NEW c \in Command, NEW step \in {"lock", "write"} \cup InLock \cup InRun
    PROVE  LET d == [c EXCEPT !.step = step]
           IN /\ d \in Command /\ d.step = step
              /\ d.kind = c.kind /\ d.options = c.options /\ d.serial = c.serial
              /\ d.next = c.next /\ d.result = c.result
  BY DEF Command

----------------------------------------------------------------------------
(* Steps that leave the ledger and the files alone                         *)

\* What holds of a command depends on nothing but itself, the ledger and the files.
LEMMA ProperStays ==
    ASSUME UNCHANGED <<ledger, files>>, NEW c
    PROVE  Proper(c)' <=> Proper(c)
  <1>1. \A n, claim, path : ClaimedBy(n, claim, path)' <=> ClaimedBy(n, claim, path)
    BY DEF ClaimedBy
  <1>2. \A r : StillThere(r)' <=> StillThere(r)
    BY DEF StillThere
  <1>3. Planned(c)' <=> Planned(c)
    BY DEF Planned
  <1>4. Making(c)' <=> Making(c)
    BY DEF Making
  <1>. QED
    BY <1>1, <1>2, <1>3, <1>4 DEF Proper

LEMMA KeptStays ==
    ASSUME UNCHANGED <<ledger, files>>, ClaimsKept
    PROVE  ClaimsKept'
  BY DEF ClaimsKept, FileClaimed, EntryHeld, ClaimedBy, Entry, Decision

\* A step of one command, which may enter the lock if it is free and open it from inside.
LEMMA OneCommandMoves ==
    ASSUME AttemptInv, NEW o \in Operators, NEW d \in Command \cup {Resting},
           command' = [command EXCEPT ![o] = d], Proper(d),
           UNCHANGED <<ledger, files, checkout>>, locked' \in BOOLEAN, started' \in Nat,
           d.step \in InLock => locked' /\ (command[o].step \in InLock \/ ~locked),
           locked /\ ~locked' => command[o].step \in InLock /\ d.step \notin InLock
    PROVE  AttemptInv'
  <1>1. /\ command \in [Operators -> Command \cup {Resting}]
        /\ command'[o] = d /\ \A q \in Operators \ {o} : command'[q] = command[q]
    BY DEF AttemptInv, AttemptTypes
  <1>2. AttemptTypes'
    BY <1>1 DEF AttemptInv, AttemptTypes
  <1>3. OneInLock'
    BY <1>1 DEF AttemptInv, AttemptTypes, OneInLock
  <1>4. ClaimsKept'
    BY KeptStays DEF AttemptInv
  <1>5. ASSUME NEW q \in Operators
        PROVE  Proper(command[q])'
    <2>1. PICK c : c = command'[q]
      OBVIOUS
    <2>2. Proper(c)
      BY <1>1, <2>1 DEF AttemptInv
    <2>3. Proper(c)'
      BY <2>2, ProperStays
    <2>. QED
      BY <2>1, <2>3
  <1>. QED
    BY <1>2, <1>3, <1>4, <1>5 DEF AttemptInv

\* A command that ends leaves nothing to hold of it.
LEMMA CommandEnds ==
    ASSUME AttemptInv, NEW o \in Operators, Ends(o),
           UNCHANGED <<ledger, files, checkout, started>>, locked' \in BOOLEAN,
           locked /\ ~locked' => command[o].step \in InLock
    PROVE  AttemptInv'
  <1>1. Proper(Resting) /\ Resting.step \notin InLock
    BY DEF Proper, Resting, InLock, InRun
  <1>2. command' = [command EXCEPT ![o] = Resting] /\ started' \in Nat
    BY DEF Ends, AttemptInv, AttemptTypes
  <1>. QED
    BY <1>1, <1>2, OneCommandMoves

\* A command that goes on without leaving or entering the lock.
LEMMA CommandGoes ==
    ASSUME AttemptInv, NEW o \in Operators, command[o].step # "idle",
           NEW step \in {"lock", "write"} \cup InLock \cup InRun, Goes(o, step),
           Proper([command[o] EXCEPT !.step = step]),
           UNCHANGED <<ledger, files, checkout, started>>, locked' \in BOOLEAN,
           step \in InLock => locked' /\ (command[o].step \in InLock \/ ~locked),
           locked /\ ~locked' => command[o].step \in InLock /\ step \notin InLock
    PROVE  AttemptInv'
  <1> DEFINE d == [command[o] EXCEPT !.step = step]
  <1>1. command[o] \in Command
    BY RestingFacts DEF AttemptInv
  <1>2. d \in Command /\ d.step = step
    BY <1>1, CommandMoves
  <1>3. command' = [command EXCEPT ![o] = d] /\ started' \in Nat
    BY DEF Goes, AttemptInv, AttemptTypes
  <1>. HIDE DEF d
  <1>. QED
    BY <1>2, <1>3, OneCommandMoves DEF d

LEMMA StartKeeps ==
    ASSUME AttemptInv, NEW o \in Operators, NEW kind \in {"prepare", "claim", "gate", "run"},
           NEW options \in Options \cup {None}, NEW result \in Result \cup {None},
           StartCommand(o, kind, options, result),
           kind \in {"claim", "run"} => options \in Options,
           kind = "gate" => result \in Result /\ StillThere(result)
    PROVE  AttemptInv'
  <1> DEFINE step == IF kind = "run" THEN "begin" ELSE "lock"
             d == [step |-> step, kind |-> kind, options |-> options, serial |-> started,
                   next |-> <<>>, result |-> result]
  <1>1. command' = [command EXCEPT ![o] = d] /\ started' = started + 1
    BY DEF StartCommand
  <1>2. started \in Nat
    BY DEF AttemptInv, AttemptTypes
  <1>3. d \in Command
    BY <1>2 DEF Command, InRun
  <1>4. d.step \notin InLock /\ Proper(d)
    <2>1. d.step = step /\ d.kind = kind /\ d.options = options /\ d.result = result
      OBVIOUS
    <2>. HIDE DEF d
    <2>. QED
      BY <2>1 DEF Proper, InLock, InRun
  <1>5. /\ UNCHANGED <<ledger, files, checkout>> /\ locked' = locked /\ locked' \in BOOLEAN
        /\ started' \in Nat
    BY <1>1, <1>2 DEF StartCommand, AttemptInv, AttemptTypes
  <1>. HIDE DEF d
  <1>. QED
    BY <1>1, <1>3, <1>4, <1>5, OneCommandMoves

LEMMA StartsKeep ==
    ASSUME AttemptInv, NEW o \in Operators,
           \/ Prepare(o)
           \/ \E p \in Paths : Gate(o, p) \/ \E b \in BOOLEAN : Claim(o, p, b) \/ RunDirectly(o, p, b)
    PROVE  AttemptInv'
  <1>1. ASSUME Prepare(o)
        PROVE  AttemptInv'
    BY <1>1, StartKeeps DEF Prepare
  <1>2. ASSUME NEW p \in Paths, Gate(o, p)
        PROVE  AttemptInv'
    <2>1. files[p] \in Result /\ files[p].path = p
      BY <1>2 DEF Gate, InputsFrozen, AttemptInv, AttemptTypes, ClaimsKept, FileClaimed
    <2>2. StillThere(files[p])
      BY <1>2, <2>1 DEF StillThere, Gate
    <2>. QED
      BY <1>2, <2>1, <2>2, StartKeeps DEF Gate
  <1>3. ASSUME NEW p \in Paths, NEW b \in BOOLEAN, Claim(o, p, b) \/ RunDirectly(o, p, b)
        PROVE  AttemptInv'
    <2> DEFINE given(overwrite, complete) ==
                   [path |-> p, overwrite |-> overwrite, complete |-> complete]
    <2>1. given(FALSE, b) \in Options /\ given(b, TRUE) \in Options
      BY DEF Options
    <2>2. \/ StartCommand(o, "claim", given(FALSE, b), None)
          \/ StartCommand(o, "run", given(b, TRUE), None)
      BY <1>3 DEF Claim, RunDirectly
    <2>. HIDE DEF given
    <2>. QED
      BY <2>1, <2>2, StartKeeps
  <1>. QED
    BY <1>1, <1>2, <1>3

LEMMA AcquireKeeps ==
    ASSUME AttemptInv, NEW o \in Operators, AcquireLock(o)
    PROVE  AttemptInv'
  <1>1. command[o].step = "lock" /\ command[o] \in Command /\ Proper(command[o])
    BY RestingFacts DEF AcquireLock, AttemptInv
  <1>2. CASE locked
    BY <1>2, CommandEnds DEF AcquireLock
  <1>3. CASE ~locked
    <2> DEFINE d == [command[o] EXCEPT !.step = "read"]
    <2>1. /\ d.step = "read" /\ d.kind = command[o].kind /\ d.options = command[o].options
          /\ d.result = command[o].result
      BY <1>1, CommandMoves DEF InLock
    <2>. HIDE DEF d
    <2>2. Proper(d)
      BY <1>1, <2>1 DEF Proper, InLock, InRun
    <2>. QED
      BY <1>1, <1>3, <2>2, CommandGoes DEF AcquireLock, InLock, d
  <1>. QED
    BY <1>2, <1>3

LEMMA DecisionTyped ==
    ASSUME NEW codes
    PROVE  Decision(codes) \in {"inconclusive", "continue", "kill"}
  BY DEF Decision

\* Each operation on the ledger gives a sequence of attempts.
LEMMA OperationsTyped ==
    ASSUME NEW entries \in Seq(Attempt)
    PROVE  /\ PreparedIn(entries) \in Seq(Attempt)
           /\ \A path \in Paths, claim \in Nat :
                 MayClaim(entries) => ClaimedIn(entries, path, claim) \in Seq(Attempt)
           /\ \A r \in Result :
                 MayComplete(entries, r) => CompletedIn(entries, r) \in Seq(Attempt)
  <1>1. PreparedIn(entries) \in Seq(Attempt)
    <2>1. [status |-> "pending", path |-> None, claim |-> None, decision |-> None, codes |-> None]
              \in Attempt
      BY DEF Attempt
    <2>. QED
      BY <2>1 DEF PreparedIn
  <1>2. ASSUME NEW n \in DOMAIN entries, NEW a \in Attempt
        PROVE  [entries EXCEPT ![n] = a] \in Seq(Attempt)
    BY <1>2
  <1>3. ASSUME NEW path \in Paths, NEW claim \in Nat, MayClaim(entries)
        PROVE  ClaimedIn(entries, path, claim) \in Seq(Attempt)
    <2> DEFINE n == Len(entries)
               a == [entries[n] EXCEPT !.status = "claimed", !.path = path, !.claim = claim]
    <2>1. n \in DOMAIN entries
      <3>1. Len(entries) \in Nat /\ Len(entries) # 0
        BY <1>3 DEF MayClaim
      <3>. QED
        BY <3>1
    <2>2. a \in Attempt
      <3>1. entries[n] \in Attempt
        BY <2>1
      <3>. HIDE DEF n
      <3>. QED
        BY <3>1 DEF Attempt
    <2>3. ClaimedIn(entries, path, claim) = [entries EXCEPT ![n] = a]
      BY DEF ClaimedIn
    <2>. HIDE DEF n, a
    <2>. QED
      BY <1>2, <2>1, <2>2, <2>3
  <1>4. ASSUME NEW r \in Result, MayComplete(entries, r)
        PROVE  CompletedIn(entries, r) \in Seq(Attempt)
    <2> DEFINE n == r.attempt
               a == [entries[n] EXCEPT !.status = "complete", !.decision = Decision(r.codes),
                                       !.codes = r.codes]
    <2>1. n \in DOMAIN entries
      BY <1>4 DEF MayComplete
    <2>2. a \in Attempt
      <3>1. entries[n] \in Attempt /\ r.codes \in Seq(Codes)
        BY <2>1 DEF Result
      <3>. HIDE DEF n
      <3>. QED
        BY <3>1, DecisionTyped DEF Attempt
    <2>3. CompletedIn(entries, r) = [entries EXCEPT ![n] = a]
      BY DEF CompletedIn
    <2>. HIDE DEF n, a
    <2>. QED
      BY <1>2, <2>1, <2>2, <2>3
  <1>. QED
    BY <1>1, <1>3, <1>4

LEMMA ReadKeeps ==
    ASSUME AttemptInv, NEW o \in Operators, ReadLedger(o)
    PROVE  AttemptInv'
  <1> DEFINE c == command[o]
             next == CASE c.kind = "prepare" -> PreparedIn(ledger)
                       [] c.kind = "claim" -> ClaimedIn(ledger, c.options.path, c.serial)
                       [] c.kind = "gate" -> CompletedIn(ledger, c.result)
             may == /\ LedgerConsistent(ledger)
                    /\ CASE c.kind = "prepare" -> MayPrepare(ledger)
                         [] c.kind = "claim" -> MayClaim(ledger)
                         [] c.kind = "gate" -> MayComplete(ledger, c.result)
             d == [c EXCEPT !.step = "replace", !.next = next]
  <1>1. /\ c.step = "read" /\ c \in Command /\ Proper(c) /\ locked
        /\ UNCHANGED <<ledger, files, checkout, started>>
        /\ ledger \in Seq(Attempt) /\ started \in Nat
    BY RestingFacts DEF ReadLedger, AttemptInv, AttemptTypes, OneInLock, InLock
  <1>2. IF may THEN command' = [command EXCEPT ![o] = d] /\ locked' = locked
        ELSE Ends(o) /\ locked' = FALSE
    BY DEF ReadLedger
  <1>3. /\ c.kind \in {"prepare", "claim", "gate"}
        /\ c.kind = "claim" => c.options \in Options
        /\ c.kind = "gate" => c.result \in Result /\ StillThere(c.result)
    BY <1>1 DEF Proper, InLock, InRun
  <1>. HIDE DEF c
  <1>4. CASE may
    <2>1. next \in Seq(Attempt)
      <3>1. CASE c.kind = "prepare"
        BY <1>1, <3>1, OperationsTyped
      <3>2. CASE c.kind = "claim"
        <4>1. c.options.path \in Paths /\ c.serial \in Nat /\ MayClaim(ledger)
          BY <1>1, <1>3, <1>4, <3>2 DEF Options, Command
        <4>. QED
          BY <1>1, <3>2, <4>1, OperationsTyped
      <3>3. CASE c.kind = "gate"
        BY <1>1, <1>3, <1>4, <3>3, OperationsTyped
      <3>. QED
        BY <1>3, <3>1, <3>2, <3>3
    <2>. HIDE DEF next
    <2>2. /\ d \in Command /\ d.step = "replace" /\ d.kind = c.kind /\ d.options = c.options
          /\ d.serial = c.serial /\ d.next = next /\ d.result = c.result
      BY <1>1, <2>1 DEF Command, InLock
    <2>. HIDE DEF d
    <2>3. Planned(d)
      BY <1>3, <1>4, <2>2 DEF Planned, next
    <2>4. Proper(d)
      BY <1>3, <2>2, <2>3 DEF Proper, InLock, InRun
    <2>5. command[o].step \in InLock /\ d.step \in InLock /\ locked' \in BOOLEAN /\ locked'
      BY <1>1, <1>2, <1>4, <2>2 DEF InLock, c
    <2>6. command' = [command EXCEPT ![o] = d] /\ started' \in Nat
      BY <1>1, <1>2, <1>4
    <2>. QED
      BY <1>1, <2>2, <2>4, <2>5, <2>6, OneCommandMoves
  <1>5. CASE ~may
    <2>1. Ends(o) /\ locked' \in BOOLEAN
      BY <1>2, <1>5
    <2>2. command[o].step \in InLock
      BY <1>1 DEF InLock, c
    <2>. QED
      BY <1>1, <2>1, <2>2, CommandEnds
  <1>. QED
    BY <1>4, <1>5

LEMMA ReplaceFailsKeeps ==
    ASSUME AttemptInv, NEW o \in Operators, ReplaceFails(o)
    PROVE  AttemptInv'
  <1>1. command[o].step \in InLock /\ locked' \in BOOLEAN
    BY DEF ReplaceFails, IsAt, InLock
  <1>. QED
    BY <1>1, CommandEnds DEF ReplaceFails

LEMMA ReleaseKeeps ==
    ASSUME AttemptInv, NEW o \in Operators, ReleaseLock(o)
    PROVE  AttemptInv'
  <1> DEFINE c == command[o]
  <1>1. /\ c.step = "release" /\ c \in Command /\ Proper(c) /\ c.step \in InLock
        /\ UNCHANGED <<ledger, files, checkout, started>> /\ locked' = FALSE
    BY RestingFacts DEF ReleaseLock, AttemptInv, InLock
  <1>2. c.kind \in {"prepare", "claim", "gate"}
    BY <1>1 DEF Proper, InLock
  <1>3. CASE c.kind = "prepare"
    BY <1>1, <1>3, CommandEnds DEF ReleaseLock
  <1>4. ASSUME NEW step, \/ step = "write" /\ c.kind = "gate"
                         \/ step = "begin" /\ c.kind = "claim"
        PROVE  Proper([c EXCEPT !.step = step])
    <2> DEFINE d == [c EXCEPT !.step = step]
    <2>1. /\ d.step = step /\ d.kind = c.kind /\ d.options = c.options /\ d.serial = c.serial
          /\ d.next = c.next /\ d.result = c.result
      BY <1>1, <1>4, CommandMoves DEF InRun
    <2>. HIDE DEF d
    <2>2. Proper(d)
      BY <1>1, <1>4, <2>1 DEF Proper, InLock, InRun
    <2>. QED
      BY <2>2 DEF d
  <1>5. CASE c.kind = "gate"
    <2>1. Goes(o, "write") /\ Proper([c EXCEPT !.step = "write"])
      BY <1>4, <1>5 DEF ReleaseLock
    <2>. QED
      BY <1>1, <2>1, CommandGoes DEF InLock
  <1>6. CASE c.kind = "claim"
    <2>1. Goes(o, "begin") /\ Proper([c EXCEPT !.step = "begin"])
      BY <1>4, <1>6 DEF ReleaseLock
    <2>. QED
      BY <1>1, <2>1, CommandGoes DEF InLock, InRun
  <1>. QED
    BY <1>2, <1>3, <1>5, <1>6

LEMMA BeginKeeps ==
    ASSUME AttemptInv, NEW o \in Operators, BeginRun(o)
    PROVE  AttemptInv'
  <1> DEFINE c == command[o]
             claims == c.kind = "claim"
             run == [attempt |-> Len(c.next), claim |-> c.serial, path |-> c.options.path,
                     formal |-> claims /\ c.options.complete, over |-> c.options.overwrite,
                     checkout |-> checkout, codes |-> <<>>, events |-> <<>>]
             d == [c EXCEPT !.step = "ask", !.result = run]
  <1>1. /\ c.step = "begin" /\ c \in Command /\ Proper(c)
        /\ UNCHANGED <<ledger, files, checkout, started>> /\ locked' = locked
        /\ checkout \in Checkouts /\ started \in Nat /\ locked \in BOOLEAN
    BY RestingFacts DEF BeginRun, AttemptInv, AttemptTypes
  <1>2. Ends(o) \/ command' = [command EXCEPT ![o] = d]
    BY DEF BeginRun, Ends
  <1>3. /\ c.kind \in {"claim", "run"} /\ c.options \in Options
        /\ c.kind = "claim" => ClaimedBy(Len(c.next), c.serial, c.options.path)
    BY <1>1 DEF Proper, InRun
  <1>4. CASE Ends(o)
    BY <1>1, <1>4, CommandEnds
  <1>5. CASE command' = [command EXCEPT ![o] = d]
    <2>. HIDE DEF c
    <2>1. run \in Result
      <3>1. Len(c.next) \in Nat /\ c.serial \in Nat
        BY <1>1 DEF Command
      <3>2. c.options.path \in Paths /\ c.options.overwrite \in BOOLEAN
            /\ c.options.complete \in BOOLEAN
        BY <1>3 DEF Options
      <3>. HIDE DEF claims
      <3>3. (claims /\ c.options.complete) \in BOOLEAN
        OBVIOUS
      <3>. QED
        BY <1>1, <3>1, <3>2, <3>3 DEF Result
    <2>2. /\ run.path = c.options.path /\ run.over = c.options.overwrite
          /\ run.formal => c.kind = "claim" /\ run.attempt = Len(c.next) /\ run.claim = c.serial
      OBVIOUS
    <2>. HIDE DEF run
    <2>3. /\ d \in Command /\ d.step = "ask" /\ d.kind = c.kind /\ d.options = c.options
          /\ d.serial = c.serial /\ d.next = c.next /\ d.result = run
      BY <1>1, <2>1 DEF Command, InRun
    <2>. HIDE DEF d
    <2>4. Proper(d) /\ d.step \notin InLock
      BY <1>3, <2>1, <2>2, <2>3 DEF Proper, Making, InLock, InRun
    <2>5. started' \in Nat /\ locked' \in BOOLEAN
      BY <1>1
    <2>. QED
      BY <1>1, <1>5, <2>3, <2>4, <2>5, OneCommandMoves
  <1>. QED
    BY <1>2, <1>4, <1>5

LEMMA AskKeeps ==
    ASSUME AttemptInv, NEW o \in Operators, NEW event \in ProviderEvents, AskProvider(o, event)
    PROVE  AttemptInv'
  <1> DEFINE c == command[o]
             r == [c.result EXCEPT !.codes = Append(@, Recorded(event)),
                                   !.events = Append(@, event)]
             d == [c EXCEPT !.result = r]
  <1>1. /\ c.step = "ask" /\ c \in Command /\ Proper(c)
        /\ UNCHANGED <<ledger, files, checkout, started>> /\ locked' = locked
        /\ started \in Nat /\ locked \in BOOLEAN
        /\ command \in [Operators -> Command \cup {Resting}]
    BY RestingFacts DEF AskProvider, AttemptInv, AttemptTypes
  <1>2. /\ c.kind \in {"claim", "run"} /\ c.options \in Options
        /\ c.kind = "claim" => ClaimedBy(Len(c.next), c.serial, c.options.path)
        /\ Making(c)
    BY <1>1 DEF Proper, InRun
  <1>3. CASE Ends(o)
    BY <1>1, <1>3, CommandEnds
  <1>4. CASE ~Ends(o)
    <2>1. command' = [command EXCEPT ![o].result.codes = Append(@, Recorded(event)),
                                     ![o].result.events = Append(@, event)]
      BY <1>4 DEF AskProvider
    <2>2. command' = [command EXCEPT ![o] = d]
      <3>1. c.result \in Result /\ "codes" \in DOMAIN c.result /\ "events" \in DOMAIN c.result
        BY <1>2 DEF Making, Result
      <3>2. "result" \in DOMAIN c
        BY <1>1 DEF Command
      <3>. QED
        BY <1>1, <2>1, <3>1, <3>2
    <2>. HIDE DEF c
    <2>3. /\ r \in Result /\ r.path = c.result.path /\ r.over = c.result.over
          /\ r.formal = c.result.formal /\ r.attempt = c.result.attempt
          /\ r.claim = c.result.claim
      <3> DEFINE made == c.result
                 code == Recorded(event)
                 codes == Append(made.codes, code)
                 events == Append(made.events, event)
      <3>1. made \in Result /\ code \in Codes
        BY <1>2, RecordedTyped DEF Making
      <3>. HIDE DEF made, code
      <3>2. made.codes \in Seq(Codes) /\ made.events \in Seq(ProviderEvents)
        BY <3>1 DEF Result
      <3>3. codes \in Seq(Codes) /\ events \in Seq(ProviderEvents)
        BY <3>1, <3>2
      <3>4. r = [made EXCEPT !.codes = codes, !.events = events]
        BY DEF made, code
      <3>. HIDE DEF codes, events, r
      <3>5. /\ r \in Result /\ r.path = made.path /\ r.over = made.over
            /\ r.formal = made.formal /\ r.attempt = made.attempt /\ r.claim = made.claim
        BY <3>1, <3>3, <3>4 DEF Result
      <3>. QED
        BY <3>5 DEF made
    <2>. HIDE DEF r
    <2>4. /\ d \in Command /\ d.step = "ask" /\ d.kind = c.kind /\ d.options = c.options
          /\ d.serial = c.serial /\ d.next = c.next /\ d.result = r
      BY <1>1, <2>3 DEF Command
    <2>. HIDE DEF d
    <2>5. Proper(d) /\ d.step \notin InLock
      BY <1>2, <2>3, <2>4 DEF Proper, Making, InLock, InRun
    <2>6. started' \in Nat /\ locked' \in BOOLEAN
      BY <1>1
    <2>. QED
      BY <1>1, <2>2, <2>4, <2>5, <2>6, OneCommandMoves
  <1>. QED
    BY <1>3, <1>4

LEMMA EndRunKeeps ==
    ASSUME AttemptInv, NEW o \in Operators, EndRun(o)
    PROVE  AttemptInv'
  <1> DEFINE d == [command[o] EXCEPT !.step = "publish"]
  <1>1. /\ command[o].step = "ask" /\ command[o] \in Command /\ Proper(command[o])
        /\ UNCHANGED <<ledger, files, checkout, started>> /\ locked' = locked
        /\ locked \in BOOLEAN
    BY RestingFacts DEF EndRun, AttemptInv, AttemptTypes
  <1>2. CASE Ends(o)
    BY <1>1, <1>2, CommandEnds
  <1>3. CASE Goes(o, "publish")
    <2>1. /\ d.step = "publish" /\ d.kind = command[o].kind /\ d.options = command[o].options
          /\ d.serial = command[o].serial /\ d.next = command[o].next
          /\ d.result = command[o].result
      BY <1>1, CommandMoves DEF InRun
    <2>. HIDE DEF d
    <2>2. Proper(d)
      BY <1>1, <2>1 DEF Proper, Making, InLock, InRun
    <2>. QED
      BY <1>1, <1>3, <2>2, CommandGoes DEF InRun, InLock, d
  <1>. QED
    BY <1>2, <1>3 DEF EndRun

LEMMA EndsKeep ==
    ASSUME AttemptInv, NEW o \in Operators, WriteGate(o) \/ CommandDies(o)
    PROVE  AttemptInv'
  <1>1. locked' = locked /\ locked \in BOOLEAN
    BY DEF WriteGate, CommandDies, AttemptInv, AttemptTypes
  <1>. QED
    BY <1>1, CommandEnds DEF WriteGate, CommandDies

LEMMA CheckoutKeeps ==
    ASSUME AttemptInv, NEW s \in Checkouts, CheckoutMoves(s)
    PROVE  AttemptInv'
  <1>1. UNCHANGED <<ledger, files, command, locked, started>> /\ checkout' = s
    BY DEF CheckoutMoves
  <1>2. AttemptTypes' /\ OneInLock'
    BY <1>1 DEF AttemptInv, AttemptTypes, OneInLock
  <1>3. ClaimsKept'
    BY <1>1, KeptStays DEF AttemptInv
  <1>4. ASSUME NEW o \in Operators
        PROVE  Proper(command[o])'
    <2>1. PICK c : c = command'[o]
      OBVIOUS
    <2>2. Proper(c)'
      BY <1>1, <2>1, ProperStays DEF AttemptInv
    <2>. QED
      BY <2>1, <2>2
  <1>. QED
    BY <1>2, <1>3, <1>4 DEF AttemptInv

----------------------------------------------------------------------------
(* The results of a run appear                                             *)

\* Results replace others only where the run was told to overwrite them, so that what was
\* read or decided on is there or is known to be overwritten.
LEMMA WrittenKeeps ==
    ASSUME AttemptInv, NEW o \in Operators, NEW c \in Command, c = command[o],
           c.step = "publish", Ends(o), c.options.overwrite \/ files[c.options.path] = None,
           files' = [files EXCEPT ![c.options.path] = c.result],
           UNCHANGED <<ledger, locked, checkout, started>>
    PROVE  AttemptInv'
  <1> DEFINE p == c.options.path
             r == c.result
  <1>1. /\ Making(c) /\ c.options \in Options /\ c.kind \in {"claim", "run"}
        /\ c.kind = "claim" => ClaimedBy(Len(c.next), c.serial, p)
    BY DEF AttemptInv, Proper, InRun
  <1>2. /\ p \in Paths /\ r \in Result /\ r # None /\ r.path = p
        /\ r.over \/ files[p] = None
        /\ r.formal => ClaimedBy(r.attempt, r.claim, p)
    BY <1>1, NoneIsNoResult DEF Making, Options
  <1>3. /\ files \in [Paths -> Result \cup {None}] /\ files' \in [Paths -> Result \cup {None}]
        /\ files'[p] = r /\ \A q \in Paths \ {p} : files'[q] = files[q]
    BY <1>2 DEF AttemptInv, AttemptTypes
  <1>. HIDE DEF p, r
  <1>4. /\ command \in [Operators -> Command \cup {Resting}]
        /\ command'[o] = Resting /\ \A q \in Operators \ {o} : command'[q] = command[q]
    BY DEF AttemptInv, AttemptTypes, Ends
  <1>5. Resting.step = "idle"
    BY DEF Resting
  <1>6. AttemptTypes'
    BY <1>3, <1>4 DEF AttemptInv, AttemptTypes, Ends
  <1>7. OneInLock'
    BY <1>4, <1>5 DEF AttemptInv, OneInLock, InLock
  <1>8. \A n, claim, path : ClaimedBy(n, claim, path)' <=> ClaimedBy(n, claim, path)
    BY DEF ClaimedBy
  <1>9. ASSUME NEW q \in Paths
        PROVE  FileClaimed(q)'
    BY <1>2, <1>3, <1>8 DEF AttemptInv, ClaimsKept, FileClaimed
  <1>10. ASSUME NEW n \in DOMAIN ledger
         PROVE  EntryHeld(n)'
    <2>1. EntryHeld(n) /\ ledger' = ledger
      BY DEF AttemptInv, ClaimsKept
    <2>. QED
      BY <1>2, <1>3, <2>1 DEF EntryHeld, Entry, Decision
  <1>11. ASSUME NEW x \in Result, StillThere(x)
         PROVE  StillThere(x)'
    BY <1>2, <1>3, <1>11 DEF StillThere, Result
  <1>12. ASSUME NEW q \in Operators
         PROVE  Proper(command[q])'
    <2>1. PICK e : e = command'[q]
      OBVIOUS
    <2>2. CASE q = o
      <3>1. e.step = "idle"
        BY <1>4, <1>5, <2>1, <2>2
      <3>. QED
        BY <2>1, <3>1 DEF Proper, InLock, InRun
    <2>3. CASE q # o
      <3>1. Proper(e)
        BY <1>4, <2>1, <2>3 DEF AttemptInv
      <3>2. Planned(e)' <=> Planned(e)
        BY DEF Planned
      <3>3. Making(e)' <=> Making(e)
        BY DEF Making
      <3>4. Proper(e)'
        BY <1>8, <1>11, <3>1, <3>2, <3>3 DEF Proper
      <3>. QED
        BY <2>1, <3>4
    <2>. QED
      BY <2>2, <2>3
  <1>13. DOMAIN ledger' = DOMAIN ledger
    OBVIOUS
  <1>. QED
    BY <1>6, <1>7, <1>9, <1>10, <1>12, <1>13 DEF AttemptInv, ClaimsKept

LEMMA LinkKeeps ==
    ASSUME AttemptInv, NEW o \in Operators, LinkResults(o)
    PROVE  AttemptInv'
  <1>1. PICK c \in Command : c = command[o]
    BY RestingFacts DEF LinkResults, AttemptInv
  <1>2. /\ c.step = "publish" /\ Ends(o) /\ Proper(c) /\ locked \in BOOLEAN
        /\ UNCHANGED <<ledger, locked, checkout, started>>
        /\ files' = [files EXCEPT ![c.options.path] =
                        IF c.options.overwrite \/ @ = None THEN c.result ELSE @]
    BY <1>1 DEF LinkResults, IsAt, AttemptInv, AttemptTypes
  <1>3. c.options.path \in Paths /\ files \in [Paths -> Result \cup {None}]
    BY <1>2 DEF Proper, InRun, Options, AttemptInv, AttemptTypes
  <1>4. CASE c.options.overwrite \/ files[c.options.path] = None
    <2>1. files' = [files EXCEPT ![c.options.path] = c.result]
      BY <1>2, <1>3, <1>4
    <2>. QED
      BY <1>1, <1>2, <1>4, <2>1, WrittenKeeps
  <1>5. CASE ~(c.options.overwrite \/ files[c.options.path] = None)
    <2>1. files' = files
      BY <1>2, <1>3, <1>5
    <2>. QED
      BY <1>2, <2>1, CommandEnds
  <1>. QED
    BY <1>4, <1>5

----------------------------------------------------------------------------
(* The ledger is replaced                                                  *)

\* The three operations, entry by entry.
LEMMA OperationsExact ==
    ASSUME NEW entries \in Seq(Attempt)
    PROVE  /\ MayPrepare(entries) =>
                 /\ Len(PreparedIn(entries)) = Len(entries) + 1
                 /\ \A n \in DOMAIN entries : PreparedIn(entries)[n] = entries[n]
                 /\ PreparedIn(entries)[Len(entries) + 1] =
                       [status |-> "pending", path |-> None, claim |-> None,
                        decision |-> None, codes |-> None]
           /\ \A path \in Paths, claim \in Nat : MayClaim(entries) =>
                 LET next == ClaimedIn(entries, path, claim)
                     n == Len(entries)
                 IN /\ Len(next) = n /\ n \in DOMAIN entries
                    /\ entries[n].status = "pending" /\ next[n].status = "claimed"
                    /\ next[n].path = path /\ next[n].claim = claim
                    /\ \A m \in DOMAIN entries \ {n} : next[m] = entries[m]
           /\ \A r \in Result : MayComplete(entries, r) =>
                 LET next == CompletedIn(entries, r)
                     n == r.attempt
                 IN /\ Len(next) = Len(entries) /\ n \in DOMAIN entries
                    /\ next[n].status = "complete" /\ next[n].codes = r.codes
                    /\ next[n].decision = Decision(r.codes)
                    /\ next[n].path = entries[n].path /\ next[n].claim = entries[n].claim
                    /\ \A m \in DOMAIN entries \ {n} : next[m] = entries[m]
                    /\ entries[n].status = "complete" /\ Entry(entries[n]) => next = entries
  <1>1. /\ Len(PreparedIn(entries)) = Len(entries) + 1
        /\ \A n \in DOMAIN entries : PreparedIn(entries)[n] = entries[n]
        /\ PreparedIn(entries)[Len(entries) + 1] =
              [status |-> "pending", path |-> None, claim |-> None,
               decision |-> None, codes |-> None]
    <2> DEFINE a == [status |-> "pending", path |-> None, claim |-> None,
                     decision |-> None, codes |-> None]
    <2>1. a \in Attempt
      BY DEF Attempt
    <2>2. PreparedIn(entries) = Append(entries, a)
      BY DEF PreparedIn
    <2>. HIDE DEF a
    <2>3. /\ Len(PreparedIn(entries)) = Len(entries) + 1
          /\ \A n \in 1..Len(entries) : PreparedIn(entries)[n] = entries[n]
          /\ PreparedIn(entries)[Len(entries) + 1] = a
      BY <2>1, <2>2
    <2>4. DOMAIN entries = 1..Len(entries)
      OBVIOUS
    <2>. QED
      BY <2>3, <2>4 DEF a
  <1>2. ASSUME NEW n \in DOMAIN entries, NEW a \in Attempt
        PROVE  LET next == [entries EXCEPT ![n] = a]
               IN /\ Len(next) = Len(entries) /\ next[n] = a
                  /\ \A m \in DOMAIN entries \ {n} : next[m] = entries[m]
                  /\ a = entries[n] => next = entries
    <2>1. [entries EXCEPT ![n] = a] \in Seq(Attempt)
      OBVIOUS
    <2>2. DOMAIN [entries EXCEPT ![n] = a] = DOMAIN entries
      OBVIOUS
    <2>. QED
      BY <2>1, <2>2
  <1>3. ASSUME NEW path \in Paths, NEW claim \in Nat, MayClaim(entries)
        PROVE  LET next == ClaimedIn(entries, path, claim)
                   n == Len(entries)
               IN /\ Len(next) = n /\ n \in DOMAIN entries
                  /\ entries[n].status = "pending" /\ next[n].status = "claimed"
                  /\ next[n].path = path /\ next[n].claim = claim
                  /\ \A m \in DOMAIN entries \ {n} : next[m] = entries[m]
    <2> DEFINE n == Len(entries)
               a == [entries[n] EXCEPT !.status = "claimed", !.path = path, !.claim = claim]
    <2>1. n \in DOMAIN entries
      <3>1. Len(entries) \in Nat /\ Len(entries) # 0
        BY <1>3 DEF MayClaim
      <3>. QED
        BY <3>1
    <2>2. ClaimedIn(entries, path, claim) = [entries EXCEPT ![n] = a]
      BY DEF ClaimedIn
    <2>3. entries[n] \in Attempt /\ entries[n].status = "pending"
      BY <1>3, <2>1 DEF MayClaim
    <2>. HIDE DEF n
    <2>4. a \in Attempt /\ a.status = "claimed" /\ a.path = path /\ a.claim = claim
      BY <2>3 DEF Attempt
    <2>. HIDE DEF a
    <2>5. LET next == [entries EXCEPT ![n] = a]
          IN /\ Len(next) = Len(entries) /\ next[n] = a
             /\ \A m \in DOMAIN entries \ {n} : next[m] = entries[m]
      BY <1>2, <2>1, <2>4
    <2>. QED
      BY <2>1, <2>2, <2>3, <2>4, <2>5 DEF n
  <1>4. ASSUME NEW r \in Result, MayComplete(entries, r)
        PROVE  LET next == CompletedIn(entries, r)
                   n == r.attempt
               IN /\ Len(next) = Len(entries) /\ n \in DOMAIN entries
                  /\ next[n].status = "complete" /\ next[n].codes = r.codes
                  /\ next[n].decision = Decision(r.codes)
                  /\ next[n].path = entries[n].path /\ next[n].claim = entries[n].claim
                  /\ \A m \in DOMAIN entries \ {n} : next[m] = entries[m]
                  /\ entries[n].status = "complete" /\ Entry(entries[n]) => next = entries
    <2> DEFINE n == r.attempt
               b == entries[n]
               a == [b EXCEPT !.status = "complete", !.decision = Decision(r.codes),
                              !.codes = r.codes]
    <2>1. n \in DOMAIN entries /\ (b.status = "complete" => b.codes = r.codes)
      BY <1>4 DEF MayComplete
    <2>2. CompletedIn(entries, r) = [entries EXCEPT ![n] = a]
      BY DEF CompletedIn
    <2>3. b \in Attempt /\ r.codes \in Seq(Codes)
      BY <2>1 DEF Result
    <2>4. entries[n] = b
      OBVIOUS
    <2>. HIDE DEF n, b
    <2>5. /\ a \in Attempt /\ a.status = "complete" /\ a.codes = r.codes
          /\ a.decision = Decision(r.codes) /\ a.path = b.path /\ a.claim = b.claim
      BY <2>3, DecisionTyped DEF Attempt
    <2>6. b.status = "complete" /\ Entry(b) => a = b
      <3>1. b.status = "complete" /\ Entry(b) => b.decision = Decision(r.codes)
        BY <2>1 DEF Entry
      <3>. QED
        BY <2>1, <2>3, <3>1 DEF Attempt
    <2>. HIDE DEF a
    <2>7. LET next == [entries EXCEPT ![n] = a]
          IN /\ Len(next) = Len(entries) /\ next[n] = a
             /\ \A m \in DOMAIN entries \ {n} : next[m] = entries[m]
             /\ a = entries[n] => next = entries
      BY <1>2, <2>1, <2>5
    <2>. QED
      BY <2>1, <2>2, <2>4, <2>5, <2>6, <2>7 DEF n
  <1>. QED
    BY <1>1, <1>3, <1>4

\* One replacement of the ledger: the body of LedgerMovesForward.
LedgerForward ==
    \/ /\ ledger' = PreparedIn(ledger)
       /\ \A n \in DOMAIN ledger : ledger[n].decision = "inconclusive"
    \/ /\ Len(ledger') = Len(ledger)
       /\ \E n \in DOMAIN ledger :
              /\ <<ledger[n].status, ledger'[n].status>> \in StatusSteps
              /\ ledger[n].claim # None => ledger'[n].claim = ledger[n].claim
              /\ \A m \in DOMAIN ledger \ {n} : ledger'[m] = ledger[m]

\* A ledger that is replaced by what a command has planned moves forward, keeps its claims,
\* and has the results of what it decides.
PlannedFollows ==
    /\ ledger' \in Seq(Attempt)
    /\ ledger' # ledger => LedgerForward
    /\ \A n, claim, path : ClaimedBy(n, claim, path) => ClaimedBy(n, claim, path)'
    /\ \A n \in DOMAIN ledger' : EntryHeld(n)'

LEMMA PreparedFollows ==
    ASSUME AttemptInv, MayPrepare(ledger), ledger' = PreparedIn(ledger), files' = files
    PROVE  PlannedFollows
  <1> DEFINE k == Len(ledger) + 1
  <1>1. ledger \in Seq(Attempt) /\ \A n \in DOMAIN ledger : EntryHeld(n)
    BY DEF AttemptInv, AttemptTypes, ClaimsKept
  <1>2. ledger' \in Seq(Attempt)
    BY <1>1, OperationsTyped
  <1>3. /\ Len(ledger') = k /\ \A n \in DOMAIN ledger : ledger'[n] = ledger[n]
        /\ ledger'[k] = [status |-> "pending", path |-> None, claim |-> None,
                         decision |-> None, codes |-> None]
    BY <1>1, OperationsExact
  <1>4. DOMAIN ledger = 1..Len(ledger) /\ DOMAIN ledger' = 1..k /\ Len(ledger) \in Nat
    BY <1>1, <1>2, <1>3
  <1>5. DOMAIN ledger' = DOMAIN ledger \cup {k}
    BY <1>4
  <1>6. ledger'[k].status = "pending" /\ ledger'[k].claim = None
    BY <1>3
  <1>. HIDE DEF k
  <1>7. \A n \in DOMAIN ledger : ledger[n].decision = "inconclusive"
    BY DEF MayPrepare, LedgerClosed, Decisive
  <1>8. \A n, claim, path : ClaimedBy(n, claim, path) => ClaimedBy(n, claim, path)'
    BY <1>3, <1>5 DEF ClaimedBy
  <1>9. ASSUME NEW n \in DOMAIN ledger'
        PROVE  EntryHeld(n)'
    <2>1. CASE n = k
      BY <1>6, <2>1 DEF EntryHeld, Entry
    <2>2. CASE n \in DOMAIN ledger
      BY <1>1, <1>3, <2>2 DEF EntryHeld, Entry, Decision
    <2>. QED
      BY <1>5, <2>1, <2>2
  <1>. QED
    BY <1>2, <1>7, <1>8, <1>9 DEF PlannedFollows, LedgerForward

LEMMA ClaimedFollows ==
    ASSUME AttemptInv, NEW path \in Paths, NEW claim \in Nat, MayClaim(ledger),
           ledger' = ClaimedIn(ledger, path, claim), files' = files
    PROVE  PlannedFollows /\ ClaimedBy(Len(ledger), claim, path)'
  <1>1. ledger \in Seq(Attempt) /\ \A n \in DOMAIN ledger : EntryHeld(n)
    BY DEF AttemptInv, AttemptTypes, ClaimsKept
  <1>2. ledger' \in Seq(Attempt)
    BY <1>1, OperationsTyped
  <1>3. PICK k \in DOMAIN ledger :
               /\ k = Len(ledger) /\ Len(ledger') = k
               /\ ledger[k].status = "pending" /\ ledger'[k].status = "claimed"
               /\ ledger'[k].path = path /\ ledger'[k].claim = claim
               /\ \A m \in DOMAIN ledger \ {k} : ledger'[m] = ledger[m]
    BY <1>1, OperationsExact
  <1>4. DOMAIN ledger' = DOMAIN ledger /\ Len(ledger') = Len(ledger)
    BY <1>1, <1>2, <1>3
  <1>5. ledger[k].claim = None
    BY <1>1, <1>3 DEF EntryHeld, Entry
  <1>6. LedgerForward
    BY <1>3, <1>4, <1>5 DEF LedgerForward, StatusSteps
  <1>7. \A n, other, place : ClaimedBy(n, other, place) => ClaimedBy(n, other, place)'
    BY <1>3, <1>4 DEF ClaimedBy
  <1>8. ASSUME NEW n \in DOMAIN ledger'
        PROVE  EntryHeld(n)'
    <2>1. CASE n = k
      BY <1>3, <2>1 DEF EntryHeld, Entry
    <2>2. CASE n # k
      <3>1. ledger'[n] = ledger[n] /\ EntryHeld(n)
        BY <1>1, <1>3, <1>4, <2>2
      <3>. QED
        BY <3>1 DEF EntryHeld, Entry, Decision
    <2>. QED
      BY <2>1, <2>2
  <1>9. ClaimedBy(Len(ledger), claim, path)'
    <2>1. k \in DOMAIN ledger' /\ ledger'[k].status # "pending"
      BY <1>3, <1>4
    <2>2. Len(ledger') = k
      BY <1>3
    <2>. QED
      BY <1>3, <2>1, <2>2 DEF ClaimedBy
  <1>. QED
    BY <1>2, <1>6, <1>7, <1>8, <1>9 DEF PlannedFollows

LEMMA CompletedFollows ==
    ASSUME AttemptInv, NEW r \in Result, StillThere(r), MayComplete(ledger, r),
           ledger' = CompletedIn(ledger, r), files' = files
    PROVE  PlannedFollows
  <1>1. ledger \in Seq(Attempt) /\ \A n \in DOMAIN ledger : EntryHeld(n)
    BY DEF AttemptInv, AttemptTypes, ClaimsKept
  <1>2. ledger' \in Seq(Attempt)
    BY <1>1, OperationsTyped
  <1>3. PICK k \in DOMAIN ledger :
               /\ k = r.attempt /\ Len(ledger') = Len(ledger)
               /\ ledger'[k].status = "complete" /\ ledger'[k].codes = r.codes
               /\ ledger'[k].decision = Decision(r.codes)
               /\ ledger'[k].path = ledger[k].path /\ ledger'[k].claim = ledger[k].claim
               /\ \A m \in DOMAIN ledger \ {k} : ledger'[m] = ledger[m]
               /\ ledger[k].status = "complete" /\ Entry(ledger[k]) => ledger' = ledger
    BY <1>1, OperationsExact
  <1>4. DOMAIN ledger' = DOMAIN ledger
    BY <1>1, <1>2, <1>3
  <1>5. ledger[k].status # "complete" =>
           ledger[k].status = "claimed" /\ ledger[k].path = r.path
    BY <1>3 DEF MayComplete
  <1>6. ledger[k].status = "complete" => ledger' = ledger
    BY <1>1, <1>3 DEF EntryHeld
  <1>7. ledger' # ledger => LedgerForward
    BY <1>3, <1>5, <1>6 DEF LedgerForward, StatusSteps
  <1>8. \A n, other, place : ClaimedBy(n, other, place) => ClaimedBy(n, other, place)'
    BY <1>3, <1>4 DEF ClaimedBy
  <1>9. ASSUME NEW n \in DOMAIN ledger'
        PROVE  EntryHeld(n)'
    <2>1. CASE ledger' = ledger
      BY <1>1, <2>1 DEF EntryHeld, Entry, Decision
    <2>2. CASE ledger' # ledger /\ n = k
      <3>1. ledger'[n].path = r.path /\ r.path \in Paths
        BY <1>3, <1>5, <1>6, <2>2 DEF Result
      <3>2. files'[r.path] # None /\ (files'[r.path] = r \/ files'[r.path].over)
        BY DEF StillThere
      <3>3. Entry(ledger[n])'
        BY <1>3, <2>2 DEF Entry, Decision
      <3>. QED
        BY <1>3, <2>2, <3>1, <3>2, <3>3 DEF EntryHeld
    <2>3. CASE n # k
      <3>1. ledger'[n] = ledger[n] /\ EntryHeld(n)
        BY <1>1, <1>3, <1>4, <2>3
      <3>. QED
        BY <3>1 DEF EntryHeld, Entry, Decision
    <2>. QED
      BY <2>1, <2>2, <2>3
  <1>. QED
    BY <1>2, <1>7, <1>8, <1>9 DEF PlannedFollows

LEMMA ReplaceFollows ==
    ASSUME AttemptInv, NEW o \in Operators, NEW c, c = command[o], ReplaceLedger(o)
    PROVE  /\ PlannedFollows
           /\ c.kind = "claim" => ClaimedBy(Len(ledger), c.serial, c.options.path)'
  <1>1. /\ c.step = "replace" /\ c \in Command /\ Planned(c) /\ ledger' = c.next
        /\ files' = files /\ Proper(c)
    BY RestingFacts DEF ReplaceLedger, IsAt, AttemptInv, Proper
  <1>2. /\ c.kind = "claim" => c.options \in Options
        /\ c.kind = "gate" => c.result \in Result /\ StillThere(c.result)
    BY <1>1 DEF Proper
  <1>3. CASE c.kind = "prepare"
    <2>1. MayPrepare(ledger) /\ ledger' = PreparedIn(ledger)
      BY <1>1, <1>3 DEF Planned
    <2>. QED
      BY <1>1, <1>3, <2>1, PreparedFollows
  <1>4. CASE c.kind = "claim"
    <2>1. /\ c.options.path \in Paths /\ c.serial \in Nat
          /\ MayClaim(ledger) /\ ledger' = ClaimedIn(ledger, c.options.path, c.serial)
      BY <1>1, <1>2, <1>4 DEF Planned, Options, Command
    <2>2. PICK path \in Paths, claim \in Nat : path = c.options.path /\ claim = c.serial
      BY <2>1
    <2>3. PlannedFollows /\ ClaimedBy(Len(ledger), claim, path)'
      BY <1>1, <2>1, <2>2, ClaimedFollows
    <2>. QED
      BY <2>2, <2>3
  <1>5. CASE c.kind = "gate"
    <2>1. MayComplete(ledger, c.result) /\ ledger' = CompletedIn(ledger, c.result)
      BY <1>1, <1>5 DEF Planned
    <2>2. PICK r \in Result : r = c.result
      BY <1>2, <1>5
    <2>3. StillThere(r) /\ MayComplete(ledger, r) /\ ledger' = CompletedIn(ledger, r)
      BY <1>2, <1>5, <2>1, <2>2
    <2>. QED
      BY <1>1, <1>5, <2>3, CompletedFollows
  <1>. QED
    BY <1>1, <1>3, <1>4, <1>5 DEF Planned

LEMMA ReplaceKeeps ==
    ASSUME AttemptInv, NEW o \in Operators, ReplaceLedger(o)
    PROVE  AttemptInv'
  <1> DEFINE d == [command[o] EXCEPT !.step = "release"]
  <1>1. PICK c \in Command : c = command[o]
    BY RestingFacts DEF ReplaceLedger, AttemptInv
  <1>2. /\ c.step = "replace" /\ Proper(c) /\ ledger' = c.next
        /\ UNCHANGED <<locked, files, checkout, started>>
        /\ command \in [Operators -> Command \cup {Resting}]
        /\ command' = [command EXCEPT ![o] = d]
    BY <1>1 DEF ReplaceLedger, IsAt, Goes, AttemptInv, AttemptTypes
  <1>3. PlannedFollows /\ (c.kind = "claim" => ClaimedBy(Len(ledger), c.serial, c.options.path)')
    BY <1>1, ReplaceFollows
  <1>4. /\ d \in Command /\ d.step = "release" /\ d.kind = c.kind /\ d.options = c.options
        /\ d.serial = c.serial /\ d.next = c.next /\ d.result = c.result
    BY <1>1, CommandMoves DEF InLock
  <1>5. PICK e : e = d
    OBVIOUS
  <1>. HIDE DEF d
  <1>6. command'[o] = e /\ \A q \in Operators \ {o} : command'[q] = command[q]
    BY <1>2, <1>5
  <1>7. AttemptTypes'
    BY <1>2, <1>3, <1>4 DEF AttemptInv, AttemptTypes, PlannedFollows
  <1>8. c.step \in InLock /\ e.step \in InLock
    BY <1>2, <1>4, <1>5 DEF InLock
  <1>9. OneInLock'
    BY <1>1, <1>2, <1>6, <1>8 DEF AttemptInv, OneInLock
  <1>10. ASSUME NEW p \in Paths
         PROVE  FileClaimed(p)'
    BY <1>2, <1>3 DEF AttemptInv, ClaimsKept, FileClaimed, PlannedFollows
  <1>11. \A x : StillThere(x)' <=> StillThere(x)
    BY <1>2 DEF StillThere
  <1>12. \A x : Making(x)' <=> Making(x)
    BY DEF Making
  <1>13. Proper(e)'
    <2>1. Proper(c)
      BY <1>2
    <2>2. /\ c.kind \in {"prepare", "claim", "gate"}
          /\ c.kind = "claim" => c.options \in Options
          /\ c.kind = "gate" => c.result \in Result /\ StillThere(c.result)
      BY <1>2, <1>8 DEF Proper, InLock, InRun
    <2>3. c.kind = "claim" => ClaimedBy(Len(c.next), c.serial, c.options.path)'
      <3>1. PICK n : n = Len(c.next)
        OBVIOUS
      <3>2. Len(ledger') = n
        BY <1>2, <3>1
      <3>3. c.kind = "claim" => ClaimedBy(n, c.serial, c.options.path)'
        BY <1>3, <3>2
      <3>. QED
        BY <3>1, <3>3
    <2>4. /\ e.step = "release" /\ e.kind = c.kind /\ e.options = c.options
          /\ e.serial = c.serial /\ e.next = c.next /\ e.result = c.result
      BY <1>4, <1>5
    <2>. QED
      BY <1>11, <2>2, <2>3, <2>4 DEF Proper, InLock, InRun
  <1>14. ASSUME NEW q \in Operators
         PROVE  Proper(command[q])'
    <2>1. PICK x : x = command'[q]
      OBVIOUS
    <2>2. CASE q = o
      BY <1>6, <1>13, <2>2
    <2>3. CASE q # o
      <3>1. x = command[q] /\ Proper(x) /\ x.step \notin InLock
        BY <1>1, <1>6, <1>8, <2>1, <2>3 DEF AttemptInv, OneInLock
      <3>2. Proper(x)'
        BY <1>3, <1>11, <1>12, <3>1 DEF Proper, PlannedFollows, InLock
      <3>. QED
        BY <2>1, <3>2
    <2>. QED
      BY <2>2, <2>3
  <1>. QED
    BY <1>3, <1>7, <1>9, <1>10, <1>14 DEF AttemptInv, ClaimsKept, PlannedFollows

----------------------------------------------------------------------------
(* The theorems                                                            *)

LEMMA AttemptsBegin ==
    ASSUME AttemptInit
    PROVE  AttemptInv
  <1>1. AttemptTypes
    <2>1. ledger \in Seq(Attempt)
      BY DEF AttemptInit
    <2>2. files \in [Paths -> Result \cup {None}]
      BY DEF AttemptInit
    <2>3. command \in [Operators -> Command \cup {Resting}]
      BY DEF AttemptInit
    <2>4. checkout \in Checkouts /\ locked \in BOOLEAN /\ started \in Nat
      BY AttemptConstants DEF AttemptInit
    <2>. QED
      BY <2>1, <2>2, <2>3, <2>4 DEF AttemptTypes
  <1>2. ledger = <<>> /\ DOMAIN ledger = {}
    BY DEF AttemptInit
  <1>3. \A p \in Paths : files[p] = None
    BY DEF AttemptInit
  <1>4. \A o \in Operators : command[o] = Resting
    BY DEF AttemptInit
  <1>5. Proper(Resting) /\ Resting.step \notin InLock
    BY DEF Proper, Resting, InLock, InRun
  <1>. QED
    BY <1>1, <1>2, <1>3, <1>4, <1>5 DEF AttemptInv, OneInLock, ClaimsKept, FileClaimed

LEMMA AttemptsStep ==
    ASSUME AttemptInv, [AttemptNext]_attemptVars
    PROVE  AttemptInv'
  <1>1. ASSUME NEW o \in Operators, ReplaceLedger(o) \/ ReadLedger(o) \/ ReplaceFails(o)
        PROVE  AttemptInv'
    BY <1>1, ReplaceKeeps, ReadKeeps, ReplaceFailsKeeps
  <1>2. ASSUME NEW o \in Operators, AcquireLock(o) \/ ReleaseLock(o)
        PROVE  AttemptInv'
    BY <1>2, AcquireKeeps, ReleaseKeeps
  <1>3. ASSUME NEW o \in Operators, BeginRun(o) \/ EndRun(o) \/ LinkResults(o)
        PROVE  AttemptInv'
    BY <1>3, BeginKeeps, EndRunKeeps, LinkKeeps
  <1>4. CASE UNCHANGED attemptVars
    <2>1. UNCHANGED <<ledger, files, command, locked, started, checkout>>
      BY <1>4 DEF attemptVars
    <2>2. AttemptTypes' /\ OneInLock'
      BY <2>1 DEF AttemptInv, AttemptTypes, OneInLock
    <2>3. ClaimsKept'
      BY <2>1, KeptStays DEF AttemptInv
    <2>4. ASSUME NEW o \in Operators
          PROVE  Proper(command[o])'
      <3>1. PICK c : c = command'[o]
        OBVIOUS
      <3>2. Proper(c)'
        BY <2>1, <3>1, ProperStays DEF AttemptInv
      <3>. QED
        BY <3>1, <3>2
    <2>. QED
      BY <2>2, <2>3, <2>4 DEF AttemptInv
  <1>. QED
    BY <1>1, <1>2, <1>3, <1>4, StartsKeep, AskKeeps, EndsKeep, CheckoutKeeps DEF AttemptNext

\* One command at a time replaces the ledger, by what still follows from it when it does,
\* and every claim and result that was decided on is kept.
THEOREM AttemptsInvariant == AttemptSpec => []AttemptInv
  BY AttemptsBegin, AttemptsStep, PTL DEF AttemptSpec

\* Formal results are the claimant's own, at the path it claimed, and what an attempt was
\* decided on is still there or was overwritten on request.
THEOREM DecisionsAreClaimants == AttemptSpec => []DecidedByClaimant
  <1>1. AttemptInv => DecidedByClaimant
    BY DEF AttemptInv, ClaimsKept, FileClaimed, EntryHeld, ClaimedBy, DecidedByClaimant
  <1>. QED
    BY <1>1, AttemptsInvariant, PTL

\* A replacement of the ledger moves one attempt one status on, or prepares a second one
\* after an inconclusive first.
THEOREM LedgerIsForward == AttemptSpec => LedgerMovesForward
  <1> DEFINE Forward == ledger' # ledger => LedgerForward
  <1>1. AttemptInv /\ [AttemptNext]_attemptVars => [Forward]_attemptVars
    <2>1. SUFFICES ASSUME AttemptInv, AttemptNext, ledger' # ledger
                   PROVE  LedgerForward
      OBVIOUS
    <2>2. ASSUME NEW o \in Operators, ReplaceLedger(o)
          PROVE  LedgerForward
      BY <2>1, <2>2, ReplaceFollows DEF PlannedFollows
    <2>3. ASSUME NEW o \in Operators, NEW p \in Paths, NEW b \in BOOLEAN,
                 Claim(o, p, b) \/ RunDirectly(o, p, b)
          PROVE  ledger' = ledger
      BY <2>3 DEF Claim, RunDirectly, StartCommand
    <2>4. \A o \in Operators, e \in ProviderEvents : AskProvider(o, e) => ledger' = ledger
      BY DEF AskProvider
    <2>5. ASSUME NEW o \in Operators,
                 \/ AcquireLock(o) \/ ReadLedger(o) \/ ReplaceFails(o) \/ ReleaseLock(o)
                 \/ BeginRun(o) \/ EndRun(o) \/ LinkResults(o) \/ WriteGate(o) \/ CommandDies(o)
          PROVE  ledger' = ledger
      BY <2>5 DEF AcquireLock, ReadLedger, ReplaceFails, ReleaseLock, BeginRun, EndRun,
          LinkResults, WriteGate, CommandDies
    <2>6. \A s \in Checkouts : CheckoutMoves(s) => ledger' = ledger
      BY DEF CheckoutMoves
    <2>7. \A o \in Operators : Prepare(o) => ledger' = ledger
      BY DEF Prepare, StartCommand
    <2>8. \A o \in Operators, p \in Paths : Gate(o, p) => ledger' = ledger
      BY DEF Gate, StartCommand
    <2>9. (\E o \in Operators : ReplaceLedger(o)) \/ ledger' = ledger
      BY <2>1, <2>3, <2>4, <2>5, <2>6, <2>7, <2>8 DEF AttemptNext
    <2>. QED
      BY <2>1, <2>2, <2>9
  <1>2. LedgerMovesForward <=> [][Forward]_attemptVars
    BY DEF LedgerMovesForward, LedgerForward
  <1>. HIDE DEF Forward
  <1>. QED
    BY <1>1, <1>2, AttemptsInvariant, PTL DEF AttemptSpec

----------------------------------------------------------------------------
(* A release: types and the inductive invariant                            *)

JobSteps == {"idle", "check", "attest", "retain", "upload", "inspect", "publish", "recover"}

JobAttempt ==
    [run : Nat, archive : Archives \cup {Nothing}, conclusion : {"none", "failure", "success"}]

ReleaseTypes ==
    /\ profile \in Profiles
    /\ pushes \in Seq(Commits)
    /\ attempts \in Seq(JobAttempt)
    /\ job \in [at : JobSteps, todo : SUBSET Kinds]
    /\ assets \in [Kinds -> Archives \cup Commits \cup {Nothing}]
    /\ npm \in Version \cup {Nothing}
    /\ listed \in BOOLEAN

\* The archive of attempt i is attested.
Attested(i) == [archive |-> attempts[i].archive, attempt |-> i] \in attestations

\* The public release has the assets of the last attempt.
Retained ==
    /\ release = "public"
    /\ \A k \in Kinds : assets[k] = AssetOf(k, This.archive, CommitOf(Now))

\* What attempt i packed comes from a finalized commit and installs; only the last one runs;
\* one that succeeded found or published its archive in the registry.
AttemptKept(i) ==
    /\ attempts[i].run \in 1..Tagged
    /\ attempts[i].archive # Nothing =>
          attempts[i].archive \in Installable /\ CommitOf(i) \in Finalized
    /\ attempts[i].conclusion = "none" => i = Now
    /\ attempts[i].conclusion = "success" =>
          /\ attempts[i].archive # Nothing /\ Attested(i)
          /\ npm # Nothing /\ npm.archive = attempts[i].archive

\* How far the job has come is how much is done.
JobKept ==
    Running =>
        /\ job.at = "check" => This.archive = Nothing
        /\ job.at \notin {"idle", "check"} => This.archive # Nothing
        /\ job.at \notin {"idle", "check", "attest"} => Attested(Now)
        /\ job.at = "upload" =>
              \A k \in Kinds \ job.todo : assets[k] = AssetOf(k, This.archive, CommitOf(Now))
        /\ job.at \in {"inspect", "publish", "recover"} => Retained

LastKept == Now > 0 /\ This.conclusion = "success" => Retained

\* What is published and what is attested is what the attempt packed.
OriginsKept ==
    /\ npm # Nothing => npm.attempt \in 1..Now /\ attempts[npm.attempt].archive = npm.archive
    /\ listed => npm # Nothing
    /\ \A a \in attestations :
          /\ a.attempt \in 1..Now /\ a.archive # Nothing
          /\ attempts[a.attempt].archive = a.archive

\* The answers that cannot change hold as long as the verification goes on.
RecordKept ==
    /\ verification \in {"download", "attest", "passed"} =>
          /\ record \in Records /\ DocumentAgrees(record) /\ WorkflowMatches(record)
          /\ npm # Nothing /\ npm.archive = record.archive
    /\ verification = "passed" => NpmProvenance(record) /\ GithubAttestations(record)

ReleaseInv ==
    /\ ReleaseTypes
    /\ \A i \in 1..Now : AttemptKept(i)
    /\ JobKept /\ LastKept /\ OriginsKept /\ RecordKept

----------------------------------------------------------------------------
(* A release: what steps keep                                              *)

LEMMA AttemptsIndexed ==
    ASSUME ReleaseTypes
    PROVE  /\ Now \in Nat /\ Tagged \in Nat
           /\ DOMAIN attempts = 1..Now /\ DOMAIN pushes = 1..Tagged
           /\ \A i \in 1..Now : attempts[i] \in JobAttempt
           /\ Now > 0 => Now \in 1..Now /\ This \in JobAttempt
  BY DEF ReleaseTypes, Now, This, Tagged

\* What never changes: the commit of a push, the run of an attempt, what it packed and how it
\* ended, the version in the registry and what was attested.
Grows ==
    /\ Now <= Now' /\ Now' \in Nat /\ Tagged <= Tagged' /\ Tagged' \in Nat
    /\ \A t \in 1..Tagged : pushes'[t] = pushes[t]
    /\ \A i \in 1..Now :
          /\ attempts'[i].run = attempts[i].run
          /\ attempts[i].archive # Nothing => attempts'[i].archive = attempts[i].archive
          /\ attempts[i].conclusion # "none" => attempts'[i].conclusion = attempts[i].conclusion
    /\ npm # Nothing => npm' = npm
    /\ attestations \subseteq attestations'
    /\ profile' = profile

\* A record that was accepted stays acceptable, up to the answers that may change.
LEMMA RecordStays ==
    ASSUME ReleaseInv, Grows, UNCHANGED auditVars
    PROVE  RecordKept'
  <1>1. UNCHANGED <<record, verification, profile>>
    BY DEF auditVars, Grows
  <1>2. Now \in Nat /\ Tagged \in Nat
    BY AttemptsIndexed DEF ReleaseInv
  <1>3. ASSUME verification \in {"download", "attest", "passed"}
        PROVE  /\ (record \in Records)' /\ DocumentAgrees(record)' /\ WorkflowMatches(record)'
               /\ npm' # Nothing /\ npm' = npm /\ npm.archive = record.archive
               /\ record.attempt \in 1..Now /\ record.publication \in 1..Now
    <2>1. /\ record \in Records /\ DocumentAgrees(record) /\ WorkflowMatches(record)
          /\ npm # Nothing /\ npm.archive = record.archive
      BY <1>3 DEF ReleaseInv, RecordKept
    <2>2. /\ record.tag \in 1..Tagged /\ record.archive \in Archives
          /\ record.attempt \in 1..Now /\ record.publication \in 1..Now
      BY <2>1 DEF Records
    <2>3. 1..Tagged \subseteq 1..Tagged' /\ 1..Now \subseteq 1..Now'
      BY <1>2 DEF Grows
    <2>4. (record \in Records)'
      BY <1>1, <2>1, <2>3 DEF Records
    <2>5. DocumentAgrees(record)'
      BY <1>1, <2>1, <2>2 DEF DocumentAgrees, Grows
    <2>6. WorkflowMatches(record)'
      <3>1. attempts[record.attempt].run \in 1..Tagged
        BY <2>2 DEF ReleaseInv, AttemptKept
      <3>2. pushes'[attempts'[record.attempt].run] = pushes[attempts[record.attempt].run]
        BY <2>2, <3>1 DEF Grows
      <3>3. attempts'[record.attempt].conclusion = "success"
        BY <2>1, <2>2 DEF Grows, WorkflowMatches
      <3>4. pushes'[record.tag] = pushes[record.tag]
        BY <2>2 DEF Grows
      <3>. QED
        BY <1>1, <2>1, <3>2, <3>3, <3>4 DEF WorkflowMatches, CommitOf, CommitIn
    <2>. QED
      BY <2>1, <2>2, <2>4, <2>5, <2>6 DEF Grows
  <1>4. ASSUME verification = "passed"
        PROVE  NpmProvenance(record)' /\ GithubAttestations(record)'
    <2>1. NpmProvenance(record) /\ GithubAttestations(record)
      BY <1>4 DEF ReleaseInv, RecordKept
    <2>. QED
      BY <1>1, <1>3, <1>4, <2>1 DEF NpmProvenance, GithubAttestations, Grows
  <1>. QED
    BY <1>1, <1>3, <1>4 DEF RecordKept

\* A step of the running job that goes on.
LEMMA JobGoes ==
    ASSUME ReleaseInv, Running, ReleaseTypes', JobKept',
           UNCHANGED <<attempts, pushes, profile, auditVars>>,
           \/ UNCHANGED attestations
           \/ /\ This.archive # Nothing
              /\ attestations' = attestations \cup {[archive |-> This.archive, attempt |-> Now]},
           \/ UNCHANGED npm
           \/ /\ This.archive # Nothing /\ npm = Nothing
              /\ npm' = [archive |-> This.archive, attempt |-> Now],
           listed' => listed \/ npm' # Nothing
    PROVE  ReleaseInv'
  <1>1. /\ Now \in Nat /\ Tagged \in Nat /\ Now > 0 /\ Now' = Now /\ Tagged' = Tagged
        /\ attempts' = attempts /\ pushes' = pushes /\ profile' = profile
        /\ This.conclusion = "none" /\ This' = This
    BY AttemptsIndexed DEF ReleaseInv, Running, Now, Tagged, This
  <1>2. Now \in 1..Now /\ This = attempts[Now]
    BY <1>1 DEF This
  <1>3. npm' # npm => npm = Nothing
    OBVIOUS
  <1>4. attestations \subseteq attestations'
    OBVIOUS
  <1>5. Grows
    BY <1>1, <1>3, <1>4 DEF Grows
  <1>6. ASSUME NEW i \in 1..Now'
        PROVE  AttemptKept(i)'
    <2>1. AttemptKept(i) /\ i \in 1..Now
      BY <1>1 DEF ReleaseInv
    <2>2. attempts'[i] = attempts[i] /\ CommitOf(i)' = CommitOf(i)
      BY <1>1 DEF CommitOf
    <2>3. Attested(i) => Attested(i)'
      BY <1>1, <1>4 DEF Attested
    <2>4. npm # Nothing => npm' = npm
      BY <1>3
    <2>. QED
      BY <1>1, <2>1, <2>2, <2>3, <2>4 DEF AttemptKept
  <1>7. LastKept'
    BY <1>1 DEF LastKept
  <1>8. OriginsKept'
    <2>1. npm' # Nothing => npm'.attempt \in 1..Now /\ attempts[npm'.attempt].archive = npm'.archive
      <3>1. CASE npm' = npm
        BY <3>1 DEF ReleaseInv, OriginsKept
      <3>2. CASE npm' = [archive |-> This.archive, attempt |-> Now]
        BY <1>2, <3>2
      <3>. QED
        BY <3>1, <3>2
    <2>2. listed' => npm' # Nothing
      BY <1>3 DEF ReleaseInv, OriginsKept
    <2>3. ASSUME NEW a \in attestations'
          PROVE  /\ a.attempt \in 1..Now /\ a.archive # Nothing
                 /\ attempts[a.attempt].archive = a.archive
      <3>1. CASE a \in attestations
        BY <3>1 DEF ReleaseInv, OriginsKept
      <3>2. CASE a \notin attestations
        <4>1. a = [archive |-> This.archive, attempt |-> Now] /\ This.archive # Nothing
          BY <3>2
        <4>. QED
          BY <1>2, <4>1
      <3>. QED
        BY <3>1, <3>2
    <2>. QED
      BY <1>1, <2>1, <2>2, <2>3 DEF OriginsKept
  <1>9. RecordKept'
    BY <1>5, RecordStays DEF auditVars
  <1>. QED
    BY <1>6, <1>7, <1>8, <1>9 DEF ReleaseInv

\* A step that concludes the running attempt, perhaps after a publication.
LEMMA JobConcludes ==
    ASSUME ReleaseInv, Running, NEW conclusion \in {"failure", "success"}, Conclude(conclusion),
           UNCHANGED <<profile, pushes, auditVars, release, assets, attestations>>,
           \/ UNCHANGED npm
           \/ /\ This.archive # Nothing /\ npm = Nothing
              /\ npm' = [archive |-> This.archive, attempt |-> Now],
           listed' \in BOOLEAN, listed' => listed \/ npm' # Nothing,
           conclusion = "success" =>
              /\ This.archive # Nothing /\ Attested(Now) /\ Retained
              /\ npm' # Nothing /\ npm'.archive = This.archive
    PROVE  ReleaseInv'
  <1> DEFINE n == Now
             ended == [attempts[n] EXCEPT !.conclusion = conclusion]
  <1>1. /\ n \in Nat /\ Tagged \in Nat /\ n > 0 /\ n \in 1..n /\ DOMAIN attempts = 1..n
        /\ Tagged' = Tagged /\ pushes' = pushes /\ profile' = profile
        /\ This.conclusion = "none" /\ This = attempts[n] /\ This \in JobAttempt
        /\ attempts \in Seq(JobAttempt)
    BY AttemptsIndexed DEF ReleaseInv, Running, Now, Tagged, This, ReleaseTypes
  <1>2. attempts' = [attempts EXCEPT ![n] = ended] /\ job' = [at |-> "idle", todo |-> {}]
    BY DEF Conclude
  <1>3. /\ ended \in JobAttempt /\ ended.run = This.run /\ ended.archive = This.archive
        /\ ended.conclusion = conclusion
    BY <1>1 DEF JobAttempt
  <1>. HIDE DEF ended
  <1>4. /\ attempts' \in Seq(JobAttempt) /\ Len(attempts') = Len(attempts)
        /\ attempts'[n] = ended /\ \A i \in 1..n \ {n} : attempts'[i] = attempts[i]
    BY <1>1, <1>2, <1>3
  <1>5. Now' = n
    BY <1>4 DEF Now
  <1>. HIDE DEF n
  <1>6. PICK k \in 1..n : k = n
    BY <1>1
  <1>7. /\ Now = k /\ Now' = k /\ This = attempts[k] /\ attempts'[k] = ended
        /\ \A i \in 1..k \ {k} : attempts'[i] = attempts[i]
        /\ k \in Nat /\ k \in 1..k
    BY <1>1, <1>4, <1>5, <1>6 DEF n
  <1>8. ReleaseTypes'
    <2>1. npm' \in Version \cup {Nothing}
      <3>1. CASE npm' = npm
        BY <3>1 DEF ReleaseInv, ReleaseTypes
      <3>2. CASE npm' # npm
        <4>1. npm' = [archive |-> This.archive, attempt |-> Now] /\ This.archive # Nothing
          BY <3>2
        <4>2. This.archive \in Archives
          BY <1>1, <4>1 DEF JobAttempt
        <4>. QED
          BY <1>7, <4>1, <4>2 DEF Version
      <3>. QED
        BY <3>1, <3>2
    <2>2. job' \in [at : JobSteps, todo : SUBSET Kinds]
      BY <1>2 DEF JobSteps
    <2>. QED
      BY <1>4, <2>1, <2>2 DEF ReleaseInv, ReleaseTypes
  <1>9. \A i \in 1..k : attempts'[i].run = attempts[i].run
                        /\ attempts'[i].archive = attempts[i].archive
    BY <1>3, <1>7
  <1>10. npm' # npm => npm = Nothing
    OBVIOUS
  <1>11. Grows
    BY <1>1, <1>7, <1>9, <1>10 DEF Grows
  <1>12. ASSUME NEW i \in 1..k
         PROVE  AttemptKept(i)'
    <2>1. AttemptKept(i)
      BY <1>7 DEF ReleaseInv
    <2>2. /\ attempts'[i].run = attempts[i].run /\ attempts'[i].archive = attempts[i].archive
          /\ CommitOf(i)' = CommitOf(i)
      BY <1>1, <1>9 DEF CommitOf
    <2>3. Attested(i)' <=> Attested(i)
      BY <2>2 DEF Attested
    <2>4. CASE i = k
      <3>1. attempts'[i].conclusion = conclusion /\ attempts[i].archive = This.archive
        BY <1>3, <1>7, <2>4
      <3>2. conclusion = "success" =>
               /\ attempts[i].archive # Nothing /\ Attested(i)
               /\ npm' # Nothing /\ npm'.archive = attempts[i].archive
        BY <1>7, <2>4
      <3>. QED
        BY <1>1, <1>7, <2>1, <2>2, <2>3, <2>4, <3>1, <3>2 DEF AttemptKept
    <2>5. CASE i # k
      <3>1. attempts'[i] = attempts[i]
        BY <1>7, <2>5
      <3>. QED
        BY <1>1, <1>7, <1>10, <2>1, <2>2, <2>3, <3>1 DEF AttemptKept
    <2>. QED
      BY <2>4, <2>5
  <1>13. /\ This' = ended /\ CommitOf(Now)' = CommitOf(Now) /\ This'.archive = This.archive
    BY <1>1, <1>3, <1>7, <1>9 DEF This, CommitOf
  <1>14. JobKept'
    BY <1>3, <1>13 DEF JobKept, Running
  <1>15. LastKept'
    <2>1. Retained => Retained'
      BY <1>13 DEF Retained, AssetOf
    <2>. QED
      BY <1>3, <1>13, <2>1 DEF LastKept
  <1>16. OriginsKept'
    <2>1. npm' # Nothing => npm'.attempt \in 1..k /\ attempts[npm'.attempt].archive = npm'.archive
      <3>1. CASE npm' = npm
        BY <1>7, <3>1 DEF ReleaseInv, OriginsKept
      <3>2. CASE npm' = [archive |-> This.archive, attempt |-> Now]
        BY <1>7, <3>2
      <3>. QED
        BY <3>1, <3>2
    <2>2. listed' => npm' # Nothing
      BY <1>10 DEF ReleaseInv, OriginsKept
    <2>3. \A a \in attestations :
             /\ a.attempt \in 1..k /\ a.archive # Nothing
             /\ attempts[a.attempt].archive = a.archive
      BY <1>7 DEF ReleaseInv, OriginsKept
    <2>. QED
      BY <1>7, <1>9, <2>1, <2>2, <2>3 DEF OriginsKept
  <1>17. RecordKept'
    BY <1>11, RecordStays DEF auditVars
  <1>. QED
    BY <1>7, <1>8, <1>12, <1>14, <1>15, <1>16, <1>17 DEF ReleaseInv

----------------------------------------------------------------------------
(* A release: its steps                                                    *)

\* What holds while the job is at a step.
LEMMA JobFacts ==
    ASSUME ReleaseInv, Running
    PROVE  /\ Now \in Nat /\ Now > 0 /\ Now \in 1..Now /\ This = attempts[Now]
           /\ This \in JobAttempt /\ This.conclusion = "none" /\ AttemptKept(Now)
           /\ CommitOf(Now) \in Commits /\ job \in [at : JobSteps, todo : SUBSET Kinds]
  <1>1. /\ Now \in Nat /\ Now > 0 /\ Now \in 1..Now /\ This = attempts[Now]
        /\ This \in JobAttempt /\ This.conclusion = "none" /\ AttemptKept(Now)
    BY AttemptsIndexed DEF ReleaseInv, Running, This
  <1>2. attempts[Now].run \in 1..Tagged /\ DOMAIN pushes = 1..Tagged /\ pushes \in Seq(Commits)
    BY <1>1, AttemptsIndexed DEF AttemptKept, ReleaseInv, ReleaseTypes
  <1>3. PICK t \in 1..Tagged : t = attempts[Now].run
    BY <1>2
  <1>4. pushes[t] \in Commits
    <2>1. pushes \in Seq(Commits) /\ t \in DOMAIN pushes
      BY <1>2
    <2>. QED
      BY <2>1
  <1>5. CommitOf(Now) \in Commits
    BY <1>3, <1>4 DEF CommitOf
  <1>. QED
    BY <1>1, <1>5 DEF ReleaseInv, ReleaseTypes

LEMMA StartAttemptKeeps ==
    ASSUME ReleaseInv, NEW run \in 1..Tagged, StartAttempt(run), UNCHANGED <<profile, pushes, auditVars>>
    PROVE  ReleaseInv'
  <1> DEFINE new == [run |-> run, archive |-> Nothing, conclusion |-> "none"]
  <1>1. /\ Now \in Nat /\ Tagged \in Nat /\ DOMAIN attempts = 1..Now
        /\ attempts \in Seq(JobAttempt) /\ job \in [at : JobSteps, todo : SUBSET Kinds]
    BY AttemptsIndexed DEF ReleaseInv, ReleaseTypes
  <1>2. new \in JobAttempt
    BY <1>1 DEF JobAttempt
  <1>3. /\ attempts' = Append(attempts, new) /\ job' = [job EXCEPT !.at = "check"]
        /\ UNCHANGED <<profile, pushes, record, verification, release, assets, attestations, npm, listed>>
        /\ ~Running
    BY DEF StartAttempt, Goto, auditVars
  <1>. HIDE DEF new
  <1>4. PICK k : k = Now + 1
    OBVIOUS
  <1>5. /\ attempts' \in Seq(JobAttempt) /\ Len(attempts') = Len(attempts) + 1
        /\ \A i \in 1..Len(attempts) : attempts'[i] = attempts[i]
        /\ attempts'[Len(attempts) + 1] = new
    BY <1>1, <1>2, <1>3
  <1>6. /\ Now' = k /\ attempts'[k] = new /\ \A i \in 1..Now : attempts'[i] = attempts[i]
        /\ k \in Nat /\ 1..Now \subseteq 1..k /\ \A i \in 1..k : i \in 1..Now \/ i = k
    BY <1>1, <1>4, <1>5 DEF Now
  <1>7. Tagged' = Tagged
    BY <1>3 DEF Tagged
  <1>8. ReleaseTypes'
    <2>1. job' \in [at : JobSteps, todo : SUBSET Kinds]
      BY <1>1, <1>3 DEF JobSteps
    <2>. QED
      BY <1>3, <1>5, <2>1 DEF ReleaseInv, ReleaseTypes
  <1>9. Grows
    <2>1. Now <= Now' /\ Now' \in Nat
      BY <1>1, <1>4, <1>6
    <2>. QED
      BY <1>1, <1>3, <1>6, <1>7, <2>1 DEF Grows
  <1>10. ASSUME NEW i \in 1..k
         PROVE  AttemptKept(i)'
    <2>1. CASE i = k
      <3>1. attempts'[i].run = run /\ attempts'[i].archive = Nothing
            /\ attempts'[i].conclusion = "none"
        BY <1>6, <2>1 DEF new
      <3>. QED
        BY <1>6, <1>7, <2>1, <3>1 DEF AttemptKept
    <2>2. CASE i \in 1..Now
      <3>1. AttemptKept(i) /\ attempts'[i] = attempts[i]
        BY <1>6, <2>2 DEF ReleaseInv
      <3>2. attempts[i].conclusion # "none"
        <4>1. i = Now => Now > 0 /\ This = attempts[i]
          BY <1>1, <2>2 DEF This
        <4>. QED
          BY <1>3, <3>1, <4>1 DEF AttemptKept, Running
      <3>3. CommitOf(i)' = CommitOf(i) /\ (Attested(i)' <=> Attested(i))
        BY <1>3, <3>1 DEF CommitOf, Attested
      <3>. QED
        BY <1>3, <1>7, <3>1, <3>2, <3>3 DEF AttemptKept
    <2>. QED
      BY <1>6, <2>1, <2>2
  <1>11. This' = new
    BY <1>6 DEF This
  <1>12. JobKept' /\ LastKept'
    BY <1>1, <1>3, <1>11 DEF JobKept, LastKept, new
  <1>13. OriginsKept'
    BY <1>3, <1>6 DEF ReleaseInv, OriginsKept
  <1>14. RecordKept'
    BY <1>9, RecordStays
  <1>. QED
    BY <1>6, <1>8, <1>10, <1>12, <1>13, <1>14 DEF ReleaseInv

\* The archive that installs is that of a finalized commit.
LEMMA BuildKeeps ==
    ASSUME ReleaseInv, Build, UNCHANGED <<profile, pushes, auditVars>>
    PROVE  ReleaseInv'
  <1>1. Running /\ job.at = "check" /\ This.archive = Nothing
    BY DEF Build, At, ReleaseInv, JobKept
  <1>2. CASE Conclude("failure")
    BY <1>1, <1>2, JobConcludes DEF Build, ReleaseInv, ReleaseTypes
  <1>3. ASSUME NEW b \in Builds[CommitOf(Now)], b \in Installable, CheckRelease(CommitOf(Now)),
               attempts' = [attempts EXCEPT ![Now].archive = b], Goto("attest")
        PROVE  ReleaseInv'
    <2> DEFINE built == [attempts[Now] EXCEPT !.archive = b]
    <2>1. PICK k \in 1..Now : k = Now
      BY <1>1, JobFacts
    <2>2. /\ k \in Nat /\ k > 0 /\ k \in 1..k /\ This = attempts[k] /\ This \in JobAttempt
          /\ This.conclusion = "none" /\ This.archive = Nothing /\ AttemptKept(k)
          /\ attempts \in Seq(JobAttempt) /\ DOMAIN attempts = 1..k /\ Tagged \in Nat
          /\ job \in [at : JobSteps, todo : SUBSET Kinds] /\ CommitOf(k) \in Commits
      BY <1>1, <2>1, JobFacts, AttemptsIndexed DEF ReleaseInv, ReleaseTypes
    <2>3. b \in Archives /\ b # Nothing
      BY <2>1, <2>2, ReleaseConstants, <1>3 DEF Archives
    <2>4. /\ built \in JobAttempt /\ built.run = This.run /\ built.archive = b
          /\ built.conclusion = "none"
      BY <2>1, <2>2, <2>3 DEF JobAttempt
    <2>5. attempts' = [attempts EXCEPT ![k] = built]
      BY <1>3, <2>1
    <2>. HIDE DEF built
    <2>6. /\ attempts' \in Seq(JobAttempt) /\ Len(attempts') = Len(attempts)
          /\ attempts'[k] = built /\ \A i \in 1..k \ {k} : attempts'[i] = attempts[i]
      BY <2>2, <2>4, <2>5
    <2>7. Now' = k /\ Now = k /\ This' = built
      BY <2>1, <2>6 DEF Now, This
    <2>8. /\ UNCHANGED <<profile, pushes, record, verification, release, assets, attestations, npm, listed>>
          /\ job' = [job EXCEPT !.at = "attest"] /\ Tagged' = Tagged
      BY <1>2, <1>3 DEF Build, auditVars, Goto, Tagged
    <2>9. ReleaseTypes'
      <3>1. job' \in [at : JobSteps, todo : SUBSET Kinds]
        BY <2>2, <2>8 DEF JobSteps
      <3>. QED
        BY <2>6, <2>8, <3>1 DEF ReleaseInv, ReleaseTypes
    <2>10. \A i \in 1..k : /\ attempts'[i].run = attempts[i].run
                           /\ attempts'[i].conclusion = attempts[i].conclusion
                           /\ attempts[i].archive # Nothing => attempts'[i] = attempts[i]
      BY <2>2, <2>4, <2>6
    <2>11. Grows
      BY <2>2, <2>7, <2>8, <2>10 DEF Grows
    <2>12. ASSUME NEW i \in 1..k
           PROVE  AttemptKept(i)'
      <3>1. AttemptKept(i) /\ CommitOf(i)' = CommitOf(i)
        BY <2>7, <2>8, <2>10 DEF ReleaseInv, CommitOf
      <3>2. CASE i = k
        <4>1. attempts'[i].run = attempts[i].run /\ attempts'[i].archive = b
              /\ attempts'[i].conclusion = "none"
          BY <2>4, <2>6, <2>10, <3>2
        <4>2. CommitOf(i) \in Finalized
          BY <1>3, <2>7, <3>2 DEF CheckRelease
        <4>. QED
          BY <1>3, <2>7, <2>8, <3>1, <3>2, <4>1, <4>2 DEF AttemptKept
      <3>3. CASE i # k
        <4>1. attempts'[i] = attempts[i]
          BY <2>6, <3>3
        <4>2. Attested(i)' <=> Attested(i)
          BY <2>8, <4>1 DEF Attested
        <4>. QED
          BY <2>7, <2>8, <3>1, <4>1, <4>2 DEF AttemptKept
      <3>. QED
        BY <3>2, <3>3
    <2>13. JobKept' /\ LastKept'
      <3>1. job'.at = "attest"
        BY <2>2, <2>8
      <3>. QED
        BY <2>3, <2>4, <2>7, <3>1 DEF JobKept, LastKept
    <2>14. OriginsKept'
      <3>1. npm # Nothing => npm.archive # Nothing
        BY ReleaseConstants DEF ReleaseInv, ReleaseTypes, Version
      <3>. QED
        BY <2>7, <2>8, <2>10, <3>1 DEF ReleaseInv, OriginsKept
    <2>15. RecordKept'
      BY <2>11, RecordStays
    <2>. QED
      BY <2>7, <2>9, <2>12, <2>13, <2>14, <2>15 DEF ReleaseInv
  <1>. QED
    BY <1>2, <1>3 DEF Build

\* The archive is attested before anything is uploaded.
LEMMA AttestKeeps ==
    ASSUME ReleaseInv, Attest, UNCHANGED <<profile, pushes, auditVars>>
    PROVE  ReleaseInv'
  <1>1. Running /\ job.at = "attest" /\ This.archive # Nothing
    BY DEF Attest, At, ReleaseInv, JobKept
  <1>2. job \in [at : JobSteps, todo : SUBSET Kinds] /\ job' = [job EXCEPT !.at = "retain"]
    BY <1>1, JobFacts DEF Attest, Goto
  <1>3. job' \in [at : JobSteps, todo : SUBSET Kinds] /\ job'.at = "retain"
    BY <1>2 DEF JobSteps
  <1>4. /\ UNCHANGED <<attempts, profile, pushes, release, assets, npm, listed>>
        /\ attestations' = attestations \cup {[archive |-> This.archive, attempt |-> Now]}
    BY DEF Attest
  <1>5. ReleaseTypes'
    BY <1>3, <1>4 DEF ReleaseInv, ReleaseTypes
  <1>6. Now' = Now /\ This' = This /\ Attested(Now)'
    <2>1. Now' = Now /\ This' = This /\ This = attempts[Now]
      BY <1>4 DEF Now, This
    <2>. QED
      BY <1>4, <2>1 DEF Attested
  <1>7. JobKept'
    BY <1>1, <1>3, <1>6 DEF JobKept
  <1>. QED
    BY <1>1, <1>4, <1>5, <1>7, JobGoes

\* A step within the job that only changes how far it is, the release and its assets.
LEMMA JobMoves ==
    ASSUME ReleaseInv, Running, job.at \notin {"idle", "check", "attest"},
           job' \in [at : JobSteps \ {"idle", "check", "attest"}, todo : SUBSET Kinds],
           assets' \in [Kinds -> Archives \cup Commits \cup {Nothing}],
           UNCHANGED <<attempts, profile, pushes, auditVars, attestations, npm, listed>>,
           job'.at = "upload" =>
              \A k \in Kinds \ job'.todo : assets'[k] = AssetOf(k, This.archive, CommitOf(Now)),
           job'.at \in {"inspect", "publish", "recover"} => Retained'
    PROVE  ReleaseInv'
  <1>1. This.archive # Nothing /\ Attested(Now)
    BY DEF ReleaseInv, JobKept
  <1>2. Now' = Now /\ This' = This /\ CommitOf(Now)' = CommitOf(Now)
    BY DEF Now, This, CommitOf
  <1>3. Attested(Now)'
    BY <1>1, <1>2 DEF Attested
  <1>4. job' \in [at : JobSteps, todo : SUBSET Kinds]
    OBVIOUS
  <1>5. ReleaseTypes'
    BY <1>4 DEF ReleaseInv, ReleaseTypes
  <1>6. job'.at \notin {"idle", "check", "attest"}
    OBVIOUS
  <1>7. \A k : AssetOf(k, This.archive, CommitOf(Now))' = AssetOf(k, This.archive, CommitOf(Now))
    BY <1>2 DEF AssetOf
  <1>8. JobKept'
    BY <1>1, <1>2, <1>3, <1>6, <1>7 DEF JobKept
  <1>. QED
    BY <1>5, <1>8, JobGoes

LEMMA ViewKeeps ==
    ASSUME ReleaseInv, ViewRelease, UNCHANGED <<profile, pushes, auditVars>>
    PROVE  ReleaseInv'
  <1>1. Running /\ job.at = "retain"
    BY DEF ViewRelease, At
  <1>2. CASE Conclude("failure") /\ UNCHANGED release
    BY <1>1, <1>2, JobConcludes DEF ViewRelease, ReleaseInv, ReleaseTypes
  <1>3. CASE job' = [at |-> "upload", todo |-> Kinds] /\ UNCHANGED attempts
    <2>1. job' \in [at : JobSteps \ {"idle", "check", "attest"}, todo : SUBSET Kinds]
      BY <1>3 DEF JobSteps
    <2>2. UNCHANGED <<assets, attestations, npm, listed>>
      BY DEF ViewRelease
    <2>. QED
      BY <1>1, <1>3, <2>1, <2>2, JobMoves DEF ReleaseInv, ReleaseTypes
  <1>. QED
    BY <1>2, <1>3 DEF ViewRelease

\* An asset is deleted, or uploaded and done.
LEMMA UploadKeeps ==
    ASSUME ReleaseInv, NEW k \in Kinds, UploadAsset(k), UNCHANGED <<profile, pushes, auditVars>>
    PROVE  ReleaseInv'
  <1>1. /\ Running /\ job.at = "upload" /\ k \in job.todo
        /\ job \in [at : JobSteps, todo : SUBSET Kinds]
        /\ assets \in [Kinds -> Archives \cup Commits \cup {Nothing}]
        /\ \A j \in Kinds \ job.todo : assets[j] = AssetOf(j, This.archive, CommitOf(Now))
        /\ This.archive # Nothing
    BY DEF UploadAsset, At, ReleaseInv, JobKept, ReleaseTypes
  <1>2. UNCHANGED <<attempts, attestations, npm, listed>>
    BY DEF UploadAsset
  <1>3. AssetOf(k, This.archive, CommitOf(Now)) \in Archives \cup Commits
    BY <1>1, JobFacts DEF AssetOf, JobAttempt
  <1> DEFINE asset == AssetOf(k, This.archive, CommitOf(Now))
  <1>4. CASE assets[k] = Nothing
    <2>1. assets' = [assets EXCEPT ![k] = asset] /\ job' = [job EXCEPT !.todo = @ \ {k}]
      BY <1>4 DEF UploadAsset
    <2>2. PICK a \in Archives \cup Commits : a = asset
      BY <1>3
    <2>3. /\ job'.at = "upload" /\ job'.todo = job.todo \ {k}
          /\ job' \in [at : JobSteps \ {"idle", "check", "attest"}, todo : SUBSET Kinds]
      BY <1>1, <2>1
    <2>4. /\ assets' \in [Kinds -> Archives \cup Commits \cup {Nothing}]
          /\ assets'[k] = asset /\ \A j \in Kinds \ {k} : assets'[j] = assets[j]
      BY <1>1, <2>1, <2>2
    <2>5. \A j \in Kinds \ job'.todo : assets'[j] = AssetOf(j, This.archive, CommitOf(Now))
      BY <1>1, <2>3, <2>4
    <2>. QED
      BY <1>1, <1>2, <2>3, <2>4, <2>5, JobMoves
  <1>5. CASE assets[k] # Nothing
    <2>1. assets' = [assets EXCEPT ![k] = Nothing] /\ job' = job
      BY <1>5 DEF UploadAsset
    <2>2. /\ assets' \in [Kinds -> Archives \cup Commits \cup {Nothing}]
          /\ \A j \in Kinds \ {k} : assets'[j] = assets[j]
      BY <1>1, <2>1
    <2>3. \A j \in Kinds \ job'.todo : assets'[j] = AssetOf(j, This.archive, CommitOf(Now))
      BY <1>1, <2>1, <2>2
    <2>4. job' \in [at : JobSteps \ {"idle", "check", "attest"}, todo : SUBSET Kinds]
      BY <1>1, <2>1 DEF JobSteps
    <2>. QED
      BY <1>1, <1>2, <2>1, <2>2, <2>3, <2>4, JobMoves
  <1>. QED
    BY <1>4, <1>5

\* The job goes on only with a public release that has its own assets.
LEMMA RetainKeeps ==
    ASSUME ReleaseInv, RetainAssets, UNCHANGED <<profile, pushes, auditVars>>
    PROVE  ReleaseInv'
  <1>1. /\ Running /\ job.at = "upload" /\ job.todo = {}
        /\ job \in [at : JobSteps, todo : SUBSET Kinds]
        /\ assets \in [Kinds -> Archives \cup Commits \cup {Nothing}]
        /\ \A j \in Kinds : assets[j] = AssetOf(j, This.archive, CommitOf(Now))
    BY DEF RetainAssets, At, ReleaseInv, JobKept, ReleaseTypes
  <1>2. UNCHANGED <<assets, attestations, npm, listed>>
    BY DEF RetainAssets
  <1>3. CASE UNCHANGED <<attempts, job>>
    <2>1. job' \in [at : JobSteps \ {"idle", "check", "attest"}, todo : SUBSET Kinds]
      BY <1>1, <1>3 DEF JobSteps
    <2>. QED
      BY <1>1, <1>2, <1>3, <2>1, JobMoves
  <1>4. CASE Goto("inspect") /\ UNCHANGED <<attempts, release>> /\ ReleaseState(TRUE)
    <2>1. /\ job' \in [at : JobSteps \ {"idle", "check", "attest"}, todo : SUBSET Kinds]
          /\ job'.at = "inspect"
      BY <1>1, <1>4 DEF JobSteps, Goto
    <2>2. Retained
      BY <1>1, <1>4 DEF Retained, ReleaseState
    <2>3. Retained'
      <3>1. Now' = Now /\ This' = This /\ CommitOf(Now)' = CommitOf(Now)
        BY <1>4 DEF Now, This, CommitOf
      <3>. QED
        BY <1>2, <1>4, <2>2, <3>1 DEF Retained, AssetOf
    <2>. QED
      BY <1>1, <1>2, <1>4, <2>1, <2>3, JobMoves
  <1>5. CASE Conclude("failure") /\ UNCHANGED release
    BY <1>1, <1>2, <1>5, JobConcludes DEF ReleaseInv, ReleaseTypes
  <1>. QED
    BY <1>3, <1>4, <1>5 DEF RetainAssets

\* What an attempt that inspects or publishes has done so far.
LEMMA PublishingFacts ==
    ASSUME ReleaseInv, Running, job.at \in {"inspect", "publish", "recover"}
    PROVE  /\ This.archive # Nothing /\ This.archive \in Archives
           /\ Attested(Now) /\ Retained
           /\ [archive |-> This.archive, attempt |-> Now] \in Version
           /\ Nothing \notin Version
           /\ \A step \in {"publish", "recover"} :
                 /\ Goto(step) =>
                       /\ job'.at = step
                       /\ job' \in [at : JobSteps \ {"idle", "check", "attest"}, todo : SUBSET Kinds]
           /\ UNCHANGED <<attempts, pushes, release, assets>> => Retained'
  <1>1. This.archive # Nothing /\ Attested(Now) /\ Retained
    BY DEF ReleaseInv, JobKept
  <1>2. This.archive \in Archives /\ [archive |-> This.archive, attempt |-> Now] \in Version
    BY <1>1, JobFacts DEF JobAttempt, Version
  <1>3. ASSUME NEW step \in {"publish", "recover"}, Goto(step)
        PROVE  /\ job'.at = step
               /\ job' \in [at : JobSteps \ {"idle", "check", "attest"}, todo : SUBSET Kinds]
    BY <1>3, JobFacts DEF Goto, JobSteps
  <1>4. UNCHANGED <<attempts, pushes, release, assets>> => Retained'
    BY <1>1 DEF Retained, AssetOf, Now, This, CommitOf
  <1>. QED
    BY <1>1, <1>2, <1>3, <1>4, NothingIsNoVersion

\* An attempt succeeds if the registry has its archive, and goes on to publish if it does not
\* list any, or if it does not say.
LEMMA InspectKeeps ==
    ASSUME ReleaseInv, Inspect \/ InspectFails, UNCHANGED <<profile, pushes, auditVars>>
    PROVE  ReleaseInv'
  <1>1. /\ Running /\ job.at = "inspect" /\ listed \in BOOLEAN
        /\ assets \in [Kinds -> Archives \cup Commits \cup {Nothing}]
    BY DEF Inspect, InspectFails, At, ReleaseInv, ReleaseTypes
  <1>2. UNCHANGED <<release, assets, attestations, npm, listed>>
    BY DEF Inspect, InspectFails
  <1>3. CASE Conclude("success") /\ SameArchive
    BY <1>1, <1>2, <1>3, JobConcludes, PublishingFacts DEF SameArchive
  <1>4. CASE Conclude("failure")
    BY <1>1, <1>2, <1>4, JobConcludes
  <1>5. CASE Goto("publish") /\ UNCHANGED attempts
    <2>1. /\ job'.at = "publish" /\ Retained'
          /\ job' \in [at : JobSteps \ {"idle", "check", "attest"}, todo : SUBSET Kinds]
      BY <1>1, <1>2, <1>5, PublishingFacts
    <2>. QED
      BY <1>1, <1>2, <1>5, <2>1, JobMoves
  <1>. QED
    BY <1>3, <1>4, <1>5 DEF Inspect, InspectFails

\* A version is published once, by the attempt that packed it.
LEMMA PublishKeeps ==
    ASSUME ReleaseInv, Publish \/ PublishFails, UNCHANGED <<profile, pushes, auditVars>>
    PROVE  ReleaseInv'
  <1> DEFINE version == [archive |-> This.archive, attempt |-> Now]
  <1>1. /\ Running /\ job.at = "publish" /\ listed \in BOOLEAN
        /\ assets \in [Kinds -> Archives \cup Commits \cup {Nothing}]
    BY DEF Publish, PublishFails, At, ReleaseInv, ReleaseTypes
  <1>2. /\ This.archive # Nothing /\ version \in Version /\ Nothing \notin Version
        /\ Attested(Now) /\ Retained
    BY <1>1, PublishingFacts
  <1>3. /\ UNCHANGED <<release, assets, attestations>>
        /\ \/ UNCHANGED <<npm, listed>>
           \/ npm = Nothing /\ npm' = version /\ listed' \in BOOLEAN
    BY DEF Publish, PublishFails
  <1>4. listed' \in BOOLEAN /\ (listed' => listed \/ npm' # Nothing)
    BY <1>1, <1>2, <1>3
  <1>5. \/ UNCHANGED npm
        \/ /\ This.archive # Nothing /\ npm = Nothing
           /\ npm' = [archive |-> This.archive, attempt |-> Now]
    BY <1>2, <1>3
  <1>6. CASE Conclude("success") /\ npm' = version
    <2>1. npm' # Nothing /\ npm'.archive = This.archive
      BY <1>2, <1>6
    <2>. HIDE DEF version
    <2>. QED
      BY <1>1, <1>2, <1>3, <1>4, <1>5, <1>6, <2>1, JobConcludes
  <1>7. CASE Conclude("failure")
    BY <1>1, <1>3, <1>4, <1>5, <1>7, JobConcludes
  <1>8. CASE Goto("recover") /\ UNCHANGED attempts
    <2>1. /\ job'.at = "recover" /\ Retained'
          /\ job' \in [at : JobSteps, todo : SUBSET Kinds]
      BY <1>1, <1>3, <1>8, PublishingFacts
    <2>2. Now' = Now /\ This' = This
      BY <1>8 DEF Now, This
    <2>3. Attested(Now)'
      BY <1>2, <1>3, <1>8, <2>2 DEF Attested
    <2>4. JobKept'
      BY <1>2, <2>1, <2>2, <2>3 DEF JobKept
    <2>5. npm' \in Version \cup {Nothing}
      BY <1>2, <1>3 DEF ReleaseInv, ReleaseTypes
    <2>6. ReleaseTypes'
      BY <1>3, <1>4, <1>8, <2>1, <2>5 DEF ReleaseInv, ReleaseTypes
    <2>. QED
      BY <1>1, <1>3, <1>4, <1>5, <1>8, <2>4, <2>6, JobGoes
  <1>. QED
    BY <1>6, <1>7, <1>8 DEF Publish, PublishFails

LEMMA EndsJobKeep ==
    ASSUME ReleaseInv, Recover \/ JobDies, UNCHANGED <<profile, pushes, auditVars>>
    PROVE  ReleaseInv'
  <1>1. /\ Running /\ listed \in BOOLEAN
        /\ UNCHANGED <<release, assets, attestations, npm, listed>>
    BY DEF Recover, JobDies, At, ReleaseInv, ReleaseTypes
  <1>2. CASE Conclude("success") /\ SameArchive /\ job.at = "recover"
    BY <1>1, <1>2, JobConcludes, PublishingFacts DEF SameArchive
  <1>3. CASE Conclude("failure")
    BY <1>1, <1>3, JobConcludes
  <1>. QED
    BY <1>2, <1>3 DEF Recover, JobDies, At

\* Steps outside the job: the tag is pushed, the registry lists what it has, or the record is
\* verified.
LEMMA OutsideKeeps ==
    ASSUME ReleaseInv, UNCHANGED <<profile, attempts, job, release, assets, attestations, npm>>,
           Grows, pushes' \in Seq(Commits), listed' \in BOOLEAN, listed' => npm # Nothing,
           RecordKept'
    PROVE  ReleaseInv'
  <1>1. /\ Now \in Nat /\ Now' = Now /\ This' = This /\ Tagged \in Nat
        /\ Tagged <= Tagged' /\ Tagged' \in Nat
    BY AttemptsIndexed DEF ReleaseInv, Now, This, Grows
  <1>2. ReleaseTypes'
    BY DEF ReleaseInv, ReleaseTypes
  <1>3. ASSUME NEW i \in 1..Now
        PROVE  AttemptKept(i)' /\ CommitOf(i)' = CommitOf(i) /\ Attested(i)' = Attested(i)
    <2>1. AttemptKept(i)
      BY DEF ReleaseInv
    <2>2. attempts[i].run \in 1..Tagged
      BY <2>1 DEF AttemptKept
    <2>3. CommitOf(i)' = CommitOf(i) /\ attempts[i].run \in 1..Tagged'
      BY <1>1, <2>2 DEF Grows, CommitOf
    <2>4. Attested(i)' = Attested(i)
      BY DEF Attested
    <2>. QED
      BY <1>1, <2>1, <2>3, <2>4 DEF AttemptKept
  <1>4. Now > 0 =>
           /\ Retained' = Retained /\ CommitOf(Now)' = CommitOf(Now)
           /\ Attested(Now)' = Attested(Now)
    <2>1. SUFFICES ASSUME Now > 0
                   PROVE  /\ Retained' = Retained /\ CommitOf(Now)' = CommitOf(Now)
                          /\ Attested(Now)' = Attested(Now)
      OBVIOUS
    <2>2. PICK n \in 1..Now : n = Now
      BY <1>1, <2>1
    <2>3. CommitOf(Now)' = CommitOf(Now) /\ Attested(Now)' = Attested(Now)
      BY <1>1, <1>3, <2>2
    <2>. QED
      BY <1>1, <2>3 DEF Retained, AssetOf
  <1>5. JobKept'
    <2>1. \A k : Now > 0 =>
             AssetOf(k, This.archive, CommitOf(Now))' = AssetOf(k, This.archive, CommitOf(Now))
      BY <1>1, <1>4 DEF AssetOf
    <2>. QED
      BY <1>1, <1>4, <2>1 DEF ReleaseInv, JobKept, Running
  <1>6. LastKept'
    BY <1>1, <1>4 DEF ReleaseInv, LastKept
  <1>7. OriginsKept'
    BY <1>1 DEF ReleaseInv, OriginsKept
  <1>. QED
    BY <1>1, <1>2, <1>3, <1>5, <1>6, <1>7 DEF ReleaseInv

LEMMA PushKeeps ==
    ASSUME ReleaseInv, NEW c \in Commits, PushTag(c)
    PROVE  ReleaseInv'
  <1>1. /\ pushes \in Seq(Commits) /\ pushes' = Append(pushes, c)
        /\ UNCHANGED <<profile, attempts, job, release, assets, attestations, npm, listed>>
        /\ UNCHANGED auditVars
    BY DEF PushTag, jobVars, ReleaseInv, ReleaseTypes
  <1>2. /\ Len(pushes') = Len(pushes) + 1 /\ \A t \in 1..Len(pushes) : pushes'[t] = pushes[t]
        /\ Len(pushes) \in Nat /\ pushes' \in Seq(Commits)
    BY <1>1
  <1>3. Tagged <= Tagged' /\ Tagged' \in Nat
    BY <1>2 DEF Tagged
  <1>4. Now <= Now' /\ Now' \in Nat
    BY <1>1, AttemptsIndexed DEF Now, ReleaseInv
  <1>5. Grows
    BY <1>1, <1>2, <1>3, <1>4 DEF Grows, Tagged
  <1>6. RecordKept'
    BY <1>1, <1>5, RecordStays
  <1>7. listed' \in BOOLEAN /\ (listed' => npm # Nothing)
    BY <1>1 DEF ReleaseInv, ReleaseTypes, OriginsKept
  <1>. QED
    BY <1>1, <1>2, <1>5, <1>6, <1>7, OutsideKeeps

\* Nothing but the answers changes: the list of the registry, or the verification.
LEMMA AnswersKeep ==
    ASSUME ReleaseInv, UNCHANGED <<profile, pushes, attempts, job, release, assets, attestations, npm>>,
           listed' \in BOOLEAN, listed' => npm # Nothing,
           \/ UNCHANGED auditVars
           \/ RecordKept'
    PROVE  ReleaseInv'
  <1>1. Now' = Now /\ Tagged' = Tagged /\ Now \in Nat /\ Tagged \in Nat
    BY AttemptsIndexed DEF ReleaseInv, Now, Tagged
  <1>2. Grows
    BY <1>1 DEF Grows
  <1>3. pushes' \in Seq(Commits)
    BY DEF ReleaseInv, ReleaseTypes
  <1>. QED
    BY <1>2, <1>3, RecordStays, OutsideKeeps

LEMMA PropagateKeeps ==
    ASSUME ReleaseInv, Propagate, UNCHANGED <<profile, pushes, auditVars>>
    PROVE  ReleaseInv'
  BY AnswersKeep DEF Propagate

\* The verification accepts a record for the answers of this moment.
LEMMA VerificationKeeps ==
    ASSUME ReleaseInv, FetchAnswers \/ DownloadAssets \/ VerifyAttestations
    PROVE  ReleaseInv'
  <1>1. /\ UNCHANGED <<profile, pushes, attempts, job, release, assets, attestations, npm, listed>>
        /\ listed \in BOOLEAN /\ (listed => npm # Nothing)
    BY DEF FetchAnswers, DownloadAssets, VerifyAttestations, VerifyStep, jobVars, ReleaseInv,
        ReleaseTypes, OriginsKept
  <1>2. Now' = Now /\ Tagged' = Tagged
    BY <1>1 DEF Now, Tagged
  <1>3. Records' = Records
    BY <1>2 DEF Records
  <1>4. \A r : /\ DocumentAgrees(r)' <=> DocumentAgrees(r)
               /\ WorkflowMatches(r)' <=> WorkflowMatches(r)
               /\ NpmProvenance(r)' <=> NpmProvenance(r)
               /\ GithubAttestations(r)' <=> GithubAttestations(r)
    BY <1>1 DEF DocumentAgrees, WorkflowMatches, NpmProvenance, GithubAttestations, CommitOf,
        CommitIn
  <1>5. ASSUME FetchAnswers
        PROVE  RecordKept'
    <2>1. PICK r \in Records : EvidenceHolds(r) /\ Answered(r) /\ record' = r
      BY <1>5 DEF FetchAnswers
    <2>2. /\ DocumentAgrees(r) /\ WorkflowMatches(r) /\ npm # Nothing
          /\ npm.archive = r.archive
      BY <2>1 DEF EvidenceHolds, Answered, RegistryListed, RegistryTarball
    <2>3. verification' = "download"
      BY <1>5 DEF FetchAnswers
    <2>4. DocumentAgrees(record)' /\ WorkflowMatches(record)'
      BY <1>1, <2>1, <2>2 DEF DocumentAgrees, WorkflowMatches, CommitOf, CommitIn
    <2>5. (record \in Records)'
      BY <1>3, <2>1
    <2>. QED
      BY <1>1, <2>1, <2>2, <2>3, <2>4, <2>5 DEF RecordKept
  <1>6. ASSUME NEW from \in {"download", "attest"}, NEW test \in BOOLEAN, NEW to,
               VerifyStep(from, test, to),
               to = "attest" \/ (to = "passed" /\
                   (test => NpmProvenance(record) /\ GithubAttestations(record)))
        PROVE  RecordKept'
    <2>1. CASE test
      <3>1. record' = record /\ verification' = to /\ verification = from
        BY <1>6, <2>1 DEF VerifyStep
      <3>2. /\ record \in Records /\ DocumentAgrees(record) /\ WorkflowMatches(record)
            /\ npm # Nothing /\ npm.archive = record.archive
        BY <3>1 DEF ReleaseInv, RecordKept
      <3>3. DocumentAgrees(record)' /\ WorkflowMatches(record)'
        BY <1>1, <3>1, <3>2 DEF DocumentAgrees, WorkflowMatches, CommitOf, CommitIn
      <3>4. to = "passed" => NpmProvenance(record)' /\ GithubAttestations(record)'
        BY <1>1, <1>6, <2>1, <3>1 DEF NpmProvenance, GithubAttestations
      <3>5. (record \in Records)'
        BY <1>3, <3>1, <3>2
      <3>. QED
        BY <1>1, <3>1, <3>2, <3>3, <3>4, <3>5 DEF RecordKept
    <2>2. CASE ~test
      <3>1. verification' = "none"
        BY <1>6, <2>2 DEF VerifyStep
      <3>. QED
        BY <3>1 DEF RecordKept
    <2>. QED
      BY <2>1, <2>2
  <1> DEFINE downloaded == TagMatches(record) /\ ArchiveMatches(record) /\ SbomMatches(record)
             attested == NpmProvenance(record) /\ GithubAttestations(record) /\ CleanInstall(record)
  <1>7. ASSUME DownloadAssets
        PROVE  RecordKept'
    <2>1. VerifyStep("download", downloaded, "attest")
      BY <1>7 DEF DownloadAssets
    <2>2. downloaded \in BOOLEAN
      BY DEF TagMatches, ArchiveMatches, SbomMatches
    <2>. HIDE DEF downloaded
    <2>. QED
      BY <1>6, <2>1, <2>2
  <1>8. ASSUME VerifyAttestations
        PROVE  RecordKept'
    <2>1. VerifyStep("attest", attested, "passed")
      BY <1>8 DEF VerifyAttestations
    <2>2. attested \in BOOLEAN
      BY DEF NpmProvenance, GithubAttestations, CleanInstall
    <2>3. attested => NpmProvenance(record) /\ GithubAttestations(record)
      OBVIOUS
    <2>. HIDE DEF attested
    <2>. QED
      BY <1>6, <2>1, <2>2, <2>3
  <1>9. RecordKept'
    BY <1>5, <1>7, <1>8
  <1>. QED
    BY <1>1, <1>9, AnswersKeep

LEMMA ReleaseBegins ==
    ASSUME ReleaseInit
    PROVE  ReleaseInv
  <1>1. pushes \in Seq(Commits)
    <2>1. PICK c \in Commits : pushes = <<c>>
      BY DEF ReleaseInit
    <2>. QED
      BY <2>1
  <1>2. /\ attempts = <<>> /\ Now = 0
    BY DEF ReleaseInit, Now
  <1>3. attempts \in Seq(JobAttempt)
    BY <1>2
  <1>4. job \in [at : JobSteps, todo : SUBSET Kinds]
    BY DEF ReleaseInit, JobSteps
  <1>5. /\ profile \in Profiles /\ assets \in [Kinds -> Archives \cup Commits \cup {Nothing}]
        /\ npm = Nothing /\ listed = FALSE /\ attestations = {} /\ verification = "none"
    BY DEF ReleaseInit
  <1>6. ReleaseTypes
    BY <1>1, <1>3, <1>4, <1>5 DEF ReleaseTypes
  <1>7. JobKept /\ LastKept
    BY <1>2 DEF JobKept, LastKept, Running
  <1>8. OriginsKept /\ RecordKept
    BY <1>5 DEF OriginsKept, RecordKept
  <1>. QED
    BY <1>2, <1>6, <1>7, <1>8 DEF ReleaseInv

LEMMA ReleaseStep ==
    ASSUME ReleaseInv, [ReleaseNext]_releaseVars
    PROVE  ReleaseInv'
  <1>1. ASSUME UNCHANGED <<profile, pushes, auditVars>>,
               Inspect \/ InspectFails \/ Publish \/ PublishFails \/ Recover \/ JobDies \/ Propagate
        PROVE  ReleaseInv'
    BY <1>1, InspectKeeps, PublishKeeps, EndsJobKeep, PropagateKeeps
  <1>2. ASSUME UNCHANGED <<profile, pushes, auditVars>>,
               \/ \E run \in 1..Tagged : StartAttempt(run)
               \/ Build \/ Attest \/ ViewRelease \/ (\E k \in Kinds : UploadAsset(k)) \/ RetainAssets
        PROVE  ReleaseInv'
    BY <1>2, StartAttemptKeeps, BuildKeeps, AttestKeeps, ViewKeeps, UploadKeeps, RetainKeeps
  <1>3. CASE UNCHANGED releaseVars
    <2>1. /\ UNCHANGED <<profile, pushes, attempts, job, release, assets, attestations, npm, listed>>
          /\ UNCHANGED auditVars
      BY <1>3 DEF releaseVars, jobVars
    <2>2. listed \in BOOLEAN /\ (listed => npm # Nothing)
      BY DEF ReleaseInv, ReleaseTypes, OriginsKept
    <2>. QED
      BY <2>1, <2>2, AnswersKeep
  <1>. QED
    BY <1>1, <1>2, <1>3, PushKeeps, VerificationKeeps DEF ReleaseNext

\* A job keeps its archive, the assets and attestations it made of it, and the version it
\* published together, however often it is rerun.
THEOREM ReleaseInvariant == ReleaseSpec => []ReleaseInv
  BY ReleaseBegins, ReleaseStep, PTL DEF ReleaseSpec

\* What passes verification was released from a finalized commit by the recorded attempts.
THEOREM VerifiedWasReleased == ReleaseSpec => []VerifiedIsReleased
  <1>1. ASSUME ReleaseInv, verification = "passed"
        PROVE  /\ npm.archive = record.archive /\ CommitOf(npm.attempt) = CommitIn(record)
               /\ npm.attempt <= record.attempt
               /\ CommitIn(record) \in Finalized
               /\ attempts[record.attempt].archive = record.archive
    <2>1. /\ record \in Records /\ DocumentAgrees(record) /\ WorkflowMatches(record)
          /\ npm # Nothing /\ npm.archive = record.archive
          /\ NpmProvenance(record) /\ GithubAttestations(record)
      BY <1>1 DEF ReleaseInv, RecordKept
    <2>2. npm.attempt = record.publication /\ npm.attempt <= record.attempt
      BY <2>1 DEF NpmProvenance, DocumentAgrees
    <2>3. CommitOf(npm.attempt) = CommitIn(record) /\ CommitOf(record.attempt) = CommitIn(record)
      BY <2>1, <2>2 DEF DocumentAgrees, WorkflowMatches, CommitOf
    <2>4. attempts[record.attempt].archive = record.archive /\ record.archive # Nothing
      BY <1>1, <2>1 DEF GithubAttestations, ReleaseInv, OriginsKept
    <2>5. record.attempt \in 1..Now
      BY <2>1 DEF Records
    <2>6. CommitIn(record) \in Finalized
      BY <1>1, <2>3, <2>4, <2>5 DEF ReleaseInv, AttemptKept
    <2>. QED
      BY <2>1, <2>2, <2>3, <2>4, <2>6
  <1>2. ReleaseInv => VerifiedIsReleased
    BY <1>1 DEF VerifiedIsReleased
  <1>. QED
    BY <1>2, ReleaseInvariant, PTL

\* A successful attempt leaves what some record needs to be accepted and verified.
THEOREM SuccessVerifies == ReleaseSpec => []SuccessIsVerifiable
  <1>1. ASSUME ReleaseInv, Now > 0, This.conclusion = "success", listed,
               CommitOf(Now) = pushes[Tagged], attempts[npm.attempt].run = This.run,
               profile = "core" => attempts[npm.attempt].conclusion = "success"
        PROVE  \E r \in Records :
                  /\ EvidenceHolds(r) /\ Answered(r)
                  /\ NpmProvenance(r) /\ GithubAttestations(r) /\ CleanInstall(r)
    <2> DEFINE last == IF profile = "core" THEN npm.attempt ELSE Now
               r == [tag |-> Tagged, archive |-> npm.archive, attempt |-> last,
                     publication |-> npm.attempt]
    <2>1. /\ Now \in Nat /\ Now \in 1..Now /\ This = attempts[Now] /\ Tagged \in Nat
          /\ \A i \in 1..Now : AttemptKept(i)
      BY <1>1, AttemptsIndexed DEF ReleaseInv, This
    <2>2. /\ npm # Nothing /\ npm.attempt \in 1..Now /\ npm \in Version
          /\ attempts[npm.attempt].archive = npm.archive
      BY <1>1 DEF ReleaseInv, OriginsKept, ReleaseTypes
    <2>3. last \in 1..Now /\ npm.attempt <= last
      BY <2>1, <2>2
    <2>4. attempts[last].run = This.run /\ attempts[last].conclusion = "success"
      BY <1>1, <2>1 DEF ReleaseInv, ReleaseTypes
    <2>5. /\ attempts[last].archive # Nothing /\ Attested(last)
          /\ npm.archive = attempts[last].archive /\ attempts[last].archive \in Installable
          /\ attempts[last].run \in 1..Tagged
      BY <2>1, <2>3, <2>4 DEF AttemptKept
    <2>6. Tagged \in 1..Tagged
      BY <2>1, <2>5
    <2>7. npm.archive = This.archive /\ Retained
      BY <1>1, <2>1 DEF ReleaseInv, LastKept, AttemptKept
    <2>8. CommitOf(last) = pushes[Tagged]
      BY <1>1, <2>1, <2>4 DEF CommitOf
    <2>. HIDE DEF last
    <2>9. /\ r.tag = Tagged /\ r.archive = npm.archive /\ r.attempt = last
          /\ r.publication = npm.attempt /\ r \in Records
      BY <2>2, <2>3, <2>6 DEF Records, Version
    <2>10. profile = "core" => last = npm.attempt
      BY DEF last
    <2>. HIDE DEF r
    <2>11. EvidenceHolds(r)
      BY <1>1, <2>3, <2>4, <2>9, <2>10 DEF EvidenceHolds, DocumentAgrees, CheckoutAgrees
    <2>12. GithubRelease(r)
      <3>1. release = "public" /\ assets["archive"] = This.archive /\ assets["sbom"] = CommitOf(Now)
        BY <2>7 DEF Retained, AssetOf, Kinds
      <3>. QED
        BY <1>1, <2>7, <2>9, <3>1 DEF GithubRelease, ArchiveMatches, SbomMatches, CommitIn
    <2>13. Answered(r)
      BY <1>1, <2>2, <2>4, <2>8, <2>9, <2>12
         DEF Answered, RegistryListed, RegistryTarball, WorkflowMatches, TagMatches, CommitIn
    <2>14. NpmProvenance(r) /\ GithubAttestations(r) /\ CleanInstall(r)
      BY <2>2, <2>5, <2>9 DEF NpmProvenance, GithubAttestations, CleanInstall, Attested
    <2>. QED
      BY <2>9, <2>11, <2>13, <2>14
  <1>2. ReleaseInv => SuccessIsVerifiable
    BY <1>1 DEF SuccessIsVerifiable
  <1>. QED
    BY <1>2, ReleaseInvariant, PTL


----------------------------------------------------------------------------
(* Numbers, for the catalog and the workflow                               *)

\* A set of numbers that is not empty has a least one.
LEMMA LeastNumber ==
    ASSUME NEW T \in SUBSET Nat, T # {}
    PROVE  \E n \in T : \A m \in T : n =< m
  <1>. DEFINE Lt == {pair \in Nat \X Nat : pair[1] < pair[2]}
  <1>1. IsWellFoundedOn(Lt, Nat)
    BY NatLessThanWellFounded DEF OpToRel
  <1>2. PICK n \in T : \A m \in T : ~(<<m, n>> \in Lt)
    BY <1>1, WFMin
  <1>3. ASSUME NEW m \in T
        PROVE  n =< m
    <2>1. m \in Nat /\ n \in Nat
      OBVIOUS
    <2>2. ~(m < n)
      BY <1>2, <2>1
    <2>. QED
      BY <2>1, <2>2
  <1>. QED
    BY <1>3

\* Induction up to a number, for a set of numbers.
LEMMA UpTo ==
    ASSUME NEW n \in Nat, NEW T, 0 \in T, \A i \in 1 .. n : i - 1 \in T => i \in T
    PROVE  0 .. n \subseteq T
  <1>. DEFINE Bad == {i \in 0 .. n : i \notin T}
  <1>1. SUFFICES ASSUME Bad # {} PROVE FALSE
    OBVIOUS
  <1>2. PICK i \in Bad : \A m \in Bad : i =< m
    <2>1. Bad \in SUBSET Nat
      OBVIOUS
    <2>. HIDE DEF Bad
    <2>. QED
      BY <1>1, <2>1, LeastNumber
  <1>3. i \in 1 .. n /\ i - 1 \in 0 .. n /\ i - 1 \notin Bad
    BY <1>2
  <1>. QED
    BY <1>3

\* What is defined step by step up to a number is defined.
Steps(n, S) == [1 .. n -> [S -> S]]
Runs(f, n, S, start, step) ==
    f \in [0 .. n -> S] /\ f[0] = start /\ \A i \in 1 .. n : f[i] = step[i][f[i - 1]]

LEMMA StepByStep ==
    ASSUME NEW n \in Nat, NEW S, NEW start \in S, NEW step \in Steps(n, S)
    PROVE  \E f : Runs(f, n, S, start, step)
  <1>. USE DEF Steps
  <1>. DEFINE Works(f, k) == f[0] = start /\ \A i \in 1 .. k : f[i] = step[i][f[i - 1]]
              T == {k \in 0 .. n : \E f \in [0 .. k -> S] : Works(f, k)}
  <1>1. 0 \in T
    <2>1. PICK f : f = [i \in 0 .. 0 |-> start]
      OBVIOUS
    <2>2. f \in [0 .. 0 -> S] /\ Works(f, 0)
      BY <2>1
    <2>. HIDE DEF Works
    <2>. QED
      BY <2>2
  <1>2. ASSUME NEW k \in 1 .. n, k - 1 \in T
        PROVE  k \in T
    <2>1. PICK f \in [0 .. k - 1 -> S] : Works(f, k - 1)
      BY <1>2
    <2>. DEFINE g == [i \in 0 .. k |-> IF i = k THEN step[k][f[k - 1]] ELSE f[i]]
    <2>2. g \in [0 .. k -> S]
      BY <2>1
    <2>3. g[0] = start
      BY <2>1
    <2>4. ASSUME NEW i \in 1 .. k
          PROVE  g[i] = step[i][g[i - 1]]
      <3>1. g[i - 1] = f[i - 1]
        OBVIOUS
      <3>. QED
        BY <2>1, <3>1
    <2>5. Works(g, k)
      BY <2>3, <2>4
    <2>. HIDE DEF Works, g
    <2>. QED
      BY <2>2, <2>5
  <1>3. 0 .. n \subseteq T
    <2>. HIDE DEF T
    <2>. QED
      BY <1>1, <1>2, UpTo
  <1>. QED
    BY <1>3 DEF Runs

----------------------------------------------------------------------------
(* The catalog and its pages                                               *)

\* Files in their sorting order, each once.
Increasing(s) == \A i, j \in DOMAIN s : i < j => s[i] < s[j]

Enumerates(s, S) == s \in [1 .. Cardinality(S) -> S] /\ Increasing(s)

\* A finite set of numbers is enumerated in order: its least element first, then the others.
LEMMA SetIsEnumerated ==
    ASSUME NEW S \in SUBSET Nat, IsFiniteSet(S)
    PROVE  \E s : Enumerates(s, S)
  <1>. DEFINE Fails(n) == \E U \in SUBSET Nat :
                              IsFiniteSet(U) /\ Cardinality(U) = n /\ ~\E s : Enumerates(s, U)
              Bad == {n \in Nat : Fails(n)}
  <1>1. SUFFICES ASSUME Bad # {} PROVE FALSE
    <2>1. Cardinality(S) \in Nat
      BY FS_CardinalityType
    <2>. QED
      BY <2>1
  <1>2. PICK n \in Bad : \A m \in Bad : n =< m
    BY <1>1, LeastNumber
  <1>3. PICK U \in SUBSET Nat : /\ IsFiniteSet(U) /\ Cardinality(U) = n
                                /\ ~\E s : Enumerates(s, U)
    BY <1>2
  <1>4. U # {}
    <2>1. ASSUME U = {} PROVE FALSE
      <3>1. n = 0
        BY <1>3, <2>1, FS_EmptySet
      <3>2. Enumerates([i \in 1 .. 0 |-> i], U)
        BY <1>3, <2>1, <3>1 DEF Enumerates, Increasing
      <3>. QED
        BY <3>2, <1>3
    <2>. QED
      BY <2>1
  <1>5. PICK least \in U : \A m \in U : least =< m
    BY <1>4, LeastNumber
  <1>. DEFINE Rest == U \ {least}
  <1>6. IsFiniteSet(Rest) /\ Cardinality(Rest) = n - 1 /\ n - 1 \in Nat
    <2>1. IsFiniteSet(Rest) /\ Cardinality(Rest) = n - 1
      BY <1>3, <1>5, FS_RemoveElement
    <2>. QED
      BY <2>1, FS_CardinalityType
  <1>7. PICK f : Enumerates(f, Rest)
    <2>1. n - 1 \notin Bad
      BY <1>2, <1>6
    <2>. QED
      BY <2>1, <1>6
  <1>. DEFINE g == [i \in 1 .. n |-> IF i = 1 THEN least ELSE f[i - 1]]
  <1>8. f \in [1 .. n - 1 -> Rest] /\ Increasing(f) /\ n \in Nat
    BY <1>6, <1>7, <1>2 DEF Enumerates
  <1>9. g \in [1 .. n -> U]
    BY <1>8, <1>5
  <1>10. ASSUME NEW i \in 1 .. n, NEW j \in 1 .. n, i < j
         PROVE  g[i] < g[j]
    <2>1. j - 1 \in 1 .. n - 1 /\ g[j] = f[j - 1] /\ f[j - 1] \in Rest
      BY <1>8, <1>10
    <2>2. CASE i = 1
      <3>1. g[i] = least /\ g[j] \in Rest
        BY <2>1, <2>2, <1>8
      <3>2. least \in Nat /\ g[j] \in Nat /\ least # g[j] /\ least =< g[j]
        BY <3>1, <1>5
      <3>. QED
        BY <3>1, <3>2
    <2>3. CASE i # 1
      <3>1. i - 1 \in DOMAIN f /\ j - 1 \in DOMAIN f /\ i - 1 < j - 1 /\ g[i] = f[i - 1]
        BY <2>1, <2>3, <1>8, <1>10
      <3>. QED
        BY <2>1, <3>1, <1>8 DEF Increasing
    <2>. QED
      BY <2>2, <2>3
  <1>11. Enumerates(g, U)
    BY <1>3, <1>9, <1>10 DEF Enumerates, Increasing
  <1>. QED
    BY <1>3, <1>11

\* So what ReadNames takes for the sorted directory is its names, in order.
LEMMA SortedEnumerates ==
    ASSUME NEW S \in SUBSET Nat, IsFiniteSet(S)
    PROVE  /\ Sorted(S) \in Seq(Nat) /\ Increasing(Sorted(S))
           /\ \A i \in DOMAIN Sorted(S) : Sorted(S)[i] \in S
  <1>1. \E s \in [1 .. Cardinality(S) -> S] : Increasing(s)
    BY SetIsEnumerated DEF Enumerates
  <1>2. Sorted(S) \in [1 .. Cardinality(S) -> S] /\ Increasing(Sorted(S))
    BY <1>1 DEF Sorted, Increasing
  <1>3. Cardinality(S) \in Nat
    BY FS_CardinalityType
  <1>4. Sorted(S) \in [1 .. Cardinality(S) -> Nat]
    BY <1>2
  <1>5. Sorted(S) \in Seq(Nat)
    BY <1>3, <1>4
  <1>. QED
    BY <1>2, <1>5

\* A listing of files that are stored, each once and in order.
Listed(s) == s \in Seq(Nat) /\ (\A i \in DOMAIN s : s[i] \in names) /\ Increasing(s)

Pager == [at : {"idle", "load", "next", "done"}, cursor : Cursor \cup {NoCursor}, limit : Nat,
          files : Seq(Nat), start : Nat, page : Seq(Nat), listing : Seq(Nat)]

Begins(listing, sorted) == \A i \in 1 .. Len(listing) : listing[i] = sorted[i]
Follows(page, start, sorted) == \A i \in 1 .. Len(page) : page[i] = sorted[start + i]

\* What a client has collected is the catalog of its cursor, up to the file of the cursor.
CursorKept(q) ==
    /\ q.cursor = NoCursor => q.listing = <<>>
    /\ q.cursor # NoCursor =>
          /\ Listed(q.cursor.catalog)
          /\ Len(q.listing) \in DOMAIN q.cursor.catalog
          /\ q.cursor.file = q.cursor.catalog[Len(q.listing)]
          /\ Begins(q.listing, q.cursor.catalog)

\* The page under way continues it, in the catalog that was read last.
PageKept(q) ==
    /\ Listed(q.files) /\ q.limit > 0
    /\ q.start = Len(q.listing) /\ q.start + Len(q.page) =< Len(q.files)
    /\ Begins(q.listing, q.files) /\ Follows(q.page, q.start, q.files)

PagerKept(q) ==
    /\ q \in Pager
    /\ q.at # "done" => CursorKept(q)
    /\ q.at = "load" => PageKept(q)
    /\ q.at = "done" => Listed(q.files) /\ q.listing = q.files

\* The inductive invariant of the catalog.
CatalogInv ==
    /\ names \in SUBSET FileNames
    /\ pager \in [Pagers -> Pager]
    /\ \A p \in Pagers : PagerKept(pager[p])

\* The steps of a pager.
LEMMA IdleKept == PagerKept(IdlePager) /\ IdlePager \in Pager
  BY DEF PagerKept, IdlePager, Pager, CursorKept

LEMMA SameSequence ==
    ASSUME NEW s \in Seq(Nat), NEW t \in Seq(Nat), Len(s) = Len(t),
           \A i \in 1 .. Len(s) : s[i] = t[i]
    PROVE  s = t
  OBVIOUS

\* A page that starts where a listing ends continues it.
LEMMA PageContinues ==
    ASSUME NEW sorted \in Seq(Nat), NEW listing \in Seq(Nat), NEW page \in Seq(Nat),
           NEW start \in Nat, start = Len(listing), start + Len(page) =< Len(sorted),
           Begins(listing, sorted), Follows(page, start, sorted)
    PROVE  Begins(listing \o page, sorted) /\ Len(listing \o page) = start + Len(page)
  <1>1. Len(listing \o page) = start + Len(page) /\ Len(page) \in Nat
    OBVIOUS
  <1>2. ASSUME NEW i \in 1 .. start + Len(page)
        PROVE  (listing \o page)[i] = sorted[i]
    <2>1. CASE i =< start
      BY <2>1, <1>1 DEF Begins
    <2>2. CASE i > start
      <3>1. (listing \o page)[i] = page[i - start] /\ i - start \in 1 .. Len(page)
        BY <2>2, <1>1
      <3>2. page[i - start] = sorted[start + (i - start)]
        BY <3>1 DEF Follows
      <3>3. start + (i - start) = i
        BY <1>1
      <3>. QED
        BY <3>1, <3>2, <3>3
    <2>3. i \in Nat
      BY <1>1
    <2>. QED
      BY <2>1, <2>2, <2>3
  <1>. QED
    BY <1>1, <1>2 DEF Begins

LEMMA PageGrows ==
    ASSUME NEW sorted \in Seq(Nat), NEW page \in Seq(Nat), NEW start \in Nat,
           start + Len(page) < Len(sorted), Follows(page, start, sorted),
           NEW f \in Nat, f = sorted[start + Len(page) + 1]
    PROVE  /\ Append(page, f) \in Seq(Nat) /\ start + Len(Append(page, f)) =< Len(sorted)
           /\ Follows(Append(page, f), start, sorted)
  <1>1. Len(page) \in Nat /\ Len(Append(page, f)) = Len(page) + 1
    OBVIOUS
  <1>2. ASSUME NEW i \in 1 .. Len(page) + 1
        PROVE  Append(page, f)[i] = sorted[start + i]
    <2>1. CASE i = Len(page) + 1
      BY <2>1, <1>1
    <2>2. CASE i # Len(page) + 1
      <3>1. i \in 1 .. Len(page) /\ Append(page, f)[i] = page[i]
        BY <2>2, <1>1
      <3>. QED
        BY <3>1 DEF Follows
    <2>. QED
      BY <2>1, <2>2
  <1>. QED
    BY <1>1, <1>2 DEF Follows

LEMMA PageEnds ==
    ASSUME NEW sorted \in Seq(Nat), NEW page \in Seq(Nat), NEW start \in Nat, page # <<>>,
           start + Len(page) =< Len(sorted), Follows(page, start, sorted)
    PROVE  /\ Last(page) = sorted[start + Len(page)]
           /\ start + Len(page) \in DOMAIN sorted
  <1>1. Last(page) = page[Len(page)] /\ Len(page) \in Nat /\ Len(page) > 0
    BY DEF Last
  <1>. QED
    BY <1>1 DEF Follows

\* One client moves, the directory stays.
LEMMA PagerMoves ==
    ASSUME CatalogInv, NEW p \in Pagers, NEW q, PagerKept(q), UNCHANGED names,
           pager' = [pager EXCEPT ![p] = q]
    PROVE  CatalogInv'
  <1>1. q \in Pager
    BY DEF PagerKept
  <1>2. pager' \in [Pagers -> Pager] /\ \A o \in Pagers : pager'[o] = IF o = p THEN q ELSE pager[o]
    BY <1>1 DEF CatalogInv
  <1>3. \A s : Listed(s) => Listed(s)'
    BY DEF Listed
  <1>. QED
    BY <1>2, <1>3 DEF CatalogInv, PagerKept, CursorKept, PageKept, Listed

\* Every step keeps the invariant: names are added only, and a cursor that StartOf accepts
\* was cut from the directory just read.
LEMMA CatalogMoves ==
    ASSUME CatalogInv, [CatalogNext]_catalogVars
    PROVE  CatalogInv'
  <1>1. ASSUME UNCHANGED pager, names \subseteq names', names' \in SUBSET FileNames
        PROVE  CatalogInv'
    <2>1. \A s : s \in Seq(Nat) /\ Listed(s) =>
              (s \in Seq(Nat) /\ (\A i \in DOMAIN s : s[i] \in names') /\ Increasing(s))
      BY <1>1 DEF Listed
    <2>. QED
      BY <1>1, <2>1 DEF CatalogInv, PagerKept, CursorKept, PageKept, Listed
  <1>2. ASSUME NEW f \in FileNames, CreateFile(f)
        PROVE  CatalogInv'
    BY <1>1, <1>2 DEF CreateFile, CatalogInv
  <1>3. ASSUME NEW p \in Pagers, ReadNames(p)
        PROVE  CatalogInv'
    <2>1. PICK limit \in PageLimits :
             LET sorted == Sorted(names)
                 start == StartOf(pager[p].cursor, sorted)
             IN  /\ pager[p].at \in {"idle", "next"}
                 /\ IF Len(sorted) > MaxListedRuns \/ start > Len(sorted)
                    THEN pager' = [pager EXCEPT ![p] = IdlePager]
                    ELSE pager' = [pager EXCEPT ![p] = [@ EXCEPT !.at = "load",
                             !.limit = limit, !.files = sorted, !.start = start, !.page = <<>>]]
                 /\ UNCHANGED <<names, tornReads>>
      BY <1>3 DEF ReadNames
    <2>2. PICK sorted : sorted = Sorted(names)
      OBVIOUS
    <2>3. names \in SUBSET Nat /\ IsFiniteSet(names)
      <3>1. names \in SUBSET FileNames /\ FileNames \subseteq Nat /\ IsFiniteSet(FileNames)
        BY CatalogConstants DEF CatalogInv
      <3>. QED
        BY <3>1, FS_Subset
    <2>4. Listed(sorted)
      BY <2>2, <2>3, SortedEnumerates DEF Listed
    <2>5. PICK start : start = StartOf(pager[p].cursor, sorted)
      OBVIOUS
    <2>6. CASE Len(sorted) > MaxListedRuns \/ start > Len(sorted)
      BY <2>1, <2>2, <2>5, <2>6, IdleKept, PagerMoves
    <2>7. CASE ~(Len(sorted) > MaxListedRuns \/ start > Len(sorted))
      <3>1. PICK q : q = pager[p]
        OBVIOUS
      <3>2. PICK r : r = [q EXCEPT !.at = "load", !.limit = limit, !.files = sorted,
                                   !.start = start, !.page = <<>>]
        OBVIOUS
      <3>3. pager' = [pager EXCEPT ![p] = r] /\ UNCHANGED names /\ q.at \in {"idle", "next"}
        BY <2>1, <2>2, <2>5, <2>7, <3>1, <3>2
      <3>4. q \in Pager /\ CursorKept(q) /\ limit \in Nat \ {0}
        BY <3>1, <3>3, CatalogConstants DEF CatalogInv, PagerKept
      <3>5. start = Len(q.listing) /\ Begins(q.listing, sorted) /\ start =< Len(sorted)
        <4>1. CASE q.cursor = NoCursor
          <5>1. start = 0 /\ q.listing = <<>> /\ sorted \in Seq(Nat)
            BY <4>1, <3>1, <3>4, <2>4, <2>5 DEF CursorKept, StartOf, Listed
          <5>. QED
            BY <5>1 DEF Begins
        <4>2. CASE q.cursor # NoCursor
          <5>1. PICK n : n = Len(q.listing)
            OBVIOUS
          <5>2. q.cursor.catalog = sorted
            BY <4>2, <3>1, <2>5, <2>7, <2>4 DEF StartOf, Stale, Listed
          <5>3. n \in DOMAIN sorted /\ q.cursor.file = sorted[n] /\ Begins(q.listing, sorted)
            BY <4>2, <5>1, <5>2, <3>4 DEF CursorKept
          <5>4. start = CHOOSE i \in DOMAIN sorted : sorted[i] = q.cursor.file
            BY <4>2, <5>2, <3>1, <2>5 DEF StartOf, Stale
          <5>5. \A i \in DOMAIN sorted : sorted[i] = sorted[n] => i = n
            BY <2>4, <5>3 DEF Listed, Increasing
          <5>6. start = n
            BY <5>3, <5>4, <5>5
          <5>. QED
            BY <5>1, <5>3, <5>6, <2>4 DEF Listed
        <4>. QED
          BY <4>1, <4>2
      <3>6. start \in Nat /\ sorted \in Seq(Nat)
        BY <3>4, <3>5, <2>4 DEF Pager, Listed
      <3>7. /\ r \in Pager /\ r.at = "load" /\ r.limit = limit /\ r.files = sorted
            /\ r.start = start /\ r.page = <<>> /\ r.listing = q.listing /\ r.cursor = q.cursor
        <4>1. <<>> \in Seq(Nat) /\ limit \in Nat
          BY <3>4
        <4>. QED
          BY <3>2, <3>4, <3>6, <4>1 DEF Pager
      <3>8. CursorKept(r)
        BY <3>4, <3>7 DEF CursorKept
      <3>9. Len(<<>>) = 0 /\ Follows(<<>>, start, sorted) /\ limit > 0
        BY <3>4 DEF Follows
      <3>10. PageKept(r)
        BY <3>5, <3>6, <3>7, <3>9, <2>4 DEF PageKept
      <3>. QED
        BY <3>3, <3>7, <3>8, <3>10, PagerMoves DEF PagerKept
    <2>. QED
      BY <2>6, <2>7
  <1>4. ASSUME NEW p \in Pagers, LoadNext(p)
        PROVE  CatalogInv'
    <2>1. PICK q : q = pager[p]
      OBVIOUS
    <2>2. PICK n : n = q.start + Len(q.page)
      OBVIOUS
    <2>3. q \in Pager /\ CursorKept(q) /\ PageKept(q) /\ q.at = "load" /\ n < Len(q.files)
      BY <1>4, <2>1, <2>2 DEF LoadNext, Remaining, HasMore, CatalogInv, PagerKept
    <2>4. q.files \in Seq(Nat) /\ q.page \in Seq(Nat) /\ q.start \in Nat
      BY <2>3 DEF Pager
    <2>5. PICK f : f = q.files[n + 1]
      OBVIOUS
    <2>6. PICK longer : longer = Append(q.page, f)
      OBVIOUS
    <2>12. /\ longer \in Seq(Nat) /\ Follows(longer, q.start, q.files)
           /\ q.start + Len(longer) =< Len(q.files)
      <3>1. Follows(q.page, q.start, q.files)
        BY <2>3 DEF PageKept
      <3>2. f \in Nat
        BY <2>2, <2>3, <2>4, <2>5
      <3>. QED
        BY <3>1, <3>2, <2>2, <2>3, <2>4, <2>5, <2>6, PageGrows
    <2>7. PICK r : r = [q EXCEPT !.page = longer]
      OBVIOUS
    <2>8. pager' = [pager EXCEPT ![p] = r] /\ UNCHANGED names
      BY <1>4, <2>1, <2>2, <2>5, <2>6, <2>7 DEF LoadNext, CatalogInv
    <2>9. /\ r \in Pager /\ r.page = longer /\ r.at = "load" /\ r.start = q.start
          /\ r.files = q.files /\ r.limit = q.limit /\ r.listing = q.listing
          /\ r.cursor = q.cursor
      BY <2>3, <2>12, <2>7 DEF Pager
    <2>10. CursorKept(r)
      BY <2>3, <2>9 DEF CursorKept
    <2>11. PageKept(r)
      BY <2>3, <2>12, <2>9 DEF PageKept
    <2>. QED
      BY <2>8, <2>9, <2>10, <2>11, PagerMoves DEF PagerKept
  <1>5. ASSUME NEW p \in Pagers, LoadMeetsRename(p)
        PROVE  CatalogInv'
    <2>. DEFINE q == pager[p]
    <2>1. PICK r : r = [q EXCEPT !.at = "next"]
      OBVIOUS
    <2>2. q \in Pager /\ CursorKept(q) /\ pager' = [pager EXCEPT ![p] = r] /\ UNCHANGED names
      BY <1>5, <2>1 DEF LoadMeetsRename, CatalogInv, PagerKept
    <2>3. PagerKept(r)
      BY <2>1, <2>2 DEF Pager, PagerKept, CursorKept
    <2>. QED
      BY <2>2, <2>3, PagerMoves
  <1>6. ASSUME NEW p \in Pagers, ReplyPage(p)
        PROVE  CatalogInv'
    <2>1. PICK q : q = pager[p]
      OBVIOUS
    <2>2. q \in Pager /\ PageKept(q) /\ ~Remaining(q)
      BY <1>6, <2>1 DEF ReplyPage, CatalogInv, PagerKept
    <2>3. PICK n : n = q.start + Len(q.page)
      OBVIOUS
    <2>4. /\ q.files \in Seq(Nat) /\ q.page \in Seq(Nat) /\ q.start \in Nat
          /\ q.limit \in Nat \ {0} /\ q.listing \in Seq(Nat)
      BY <2>2 DEF Pager, PageKept
    <2>5. PICK longer : longer = q.listing \o q.page
      OBVIOUS
    <2>6. Begins(longer, q.files) /\ Len(longer) = n /\ longer \in Seq(Nat) /\ n =< Len(q.files)
      <3>1. /\ q.start = Len(q.listing) /\ q.start + Len(q.page) =< Len(q.files)
            /\ Begins(q.listing, q.files) /\ Follows(q.page, q.start, q.files)
        BY <2>2 DEF PageKept
      <3>2. longer \in Seq(Nat)
        BY <2>4, <2>5
      <3>3. Begins(longer, q.files) /\ Len(longer) = n
        <4>1. PICK sorted, page, start, listing : /\ sorted = q.files /\ page = q.page
                                                 /\ start = q.start /\ listing = q.listing
          OBVIOUS
        <4>2. /\ sorted \in Seq(Nat) /\ page \in Seq(Nat) /\ start \in Nat /\ listing \in Seq(Nat)
              /\ start = Len(listing) /\ start + Len(page) =< Len(sorted)
              /\ Begins(listing, sorted) /\ Follows(page, start, sorted)
          BY <3>1, <2>4, <4>1
        <4>3. Begins(listing \o page, sorted) /\ Len(listing \o page) = start + Len(page)
          BY <4>2, PageContinues
        <4>. QED
          BY <4>1, <4>3, <2>3, <2>5
      <3>. QED
        BY <3>1, <3>2, <3>3, <2>3
    <2>7. UNCHANGED names
      BY <1>6 DEF ReplyPage
    <2>8. CASE HasMore(q)
      <3>1. q.page # <<>>
        BY <2>2, <2>4, <2>8 DEF Remaining
      <3>3. Last(q.page) = q.files[n] /\ n \in DOMAIN q.files
        <4>1. /\ q.start + Len(q.page) =< Len(q.files)
              /\ Follows(q.page, q.start, q.files)
          BY <2>2 DEF PageKept
        <4>. QED
          BY <4>1, <2>3, <2>4, <3>1, PageEnds
      <3>4. PICK c : c = [catalog |-> q.files, file |-> q.files[n]]
        OBVIOUS
      <3>5. q.files[n] \in Nat
        BY <2>4, <3>3
      <3>6. c \in Cursor /\ c # NoCursor
        BY <2>4, <3>4, <3>5, NoCursorIsNoCursor DEF Cursor
      <3>7. PICK r : r = [q EXCEPT !.listing = longer, !.at = "next", !.cursor = c]
        OBVIOUS
      <3>8. pager' = [pager EXCEPT ![p] = r]
        BY <1>6, <2>1, <2>5, <2>8, <3>3, <3>4, <3>7 DEF ReplyPage
      <3>9. r \in Pager /\ r.at = "next" /\ r.cursor = c /\ r.listing = longer
        BY <2>2, <2>6, <3>6, <3>7 DEF Pager
      <3>10. c.catalog = q.files /\ c.file = q.files[n] /\ Listed(q.files)
        BY <2>2, <3>4 DEF PageKept
      <3>11. CursorKept(r)
        BY <2>6, <3>3, <3>6, <3>9, <3>10 DEF CursorKept
      <3>. QED
        BY <2>7, <3>8, <3>9, <3>11, PagerMoves DEF PagerKept
    <2>9. CASE ~HasMore(q)
      <3>1. n = Len(q.files)
        BY <2>3, <2>4, <2>6, <2>9 DEF HasMore
      <3>2. PICK r : r = [q EXCEPT !.listing = longer, !.at = "done", !.cursor = NoCursor]
        OBVIOUS
      <3>3. pager' = [pager EXCEPT ![p] = r]
        BY <1>6, <2>1, <2>5, <2>9, <3>2 DEF ReplyPage
      <3>4. r \in Pager /\ r.at = "done" /\ r.listing = longer /\ r.files = q.files
        BY <2>2, <2>6, <3>2 DEF Pager
      <3>5. r.listing = r.files
        <4>1. \A i \in 1 .. Len(longer) : longer[i] = q.files[i]
          BY <2>6 DEF Begins
        <4>. QED
          BY <3>1, <3>4, <4>1, <2>4, <2>6, SameSequence
      <3>6. Listed(r.files)
        BY <2>2, <3>4 DEF PageKept
      <3>. QED
        BY <2>7, <3>3, <3>4, <3>5, <3>6, PagerMoves DEF PagerKept
    <2>. QED
      BY <2>8, <2>9
  <1>7. ASSUME NEW p \in Pagers, Forget(p)
        PROVE  CatalogInv'
    BY <1>7, IdleKept, PagerMoves DEF Forget
  <1>8. CASE UNCHANGED catalogVars
    BY <1>1, <1>8 DEF catalogVars, CatalogInv
  <1>. QED
    BY <1>2, <1>3, <1>4, <1>5, <1>6, <1>7, <1>8 DEF CatalogNext

LEMMA CatalogStarts == CatalogInit => CatalogInv
  BY IdleKept DEF CatalogInit, CatalogInv

\* The pages that a client followed to the end are one catalog, each run once and in order,
\* for any names, page sizes and clients, whatever is created meanwhile and however many
\* loads meet a rename (listPage of store.ts).
THEOREM PagesOfOneCatalog == CatalogSpec => []PagesAreOneCatalog
  <1>1. CatalogInv => PagesAreOneCatalog
    BY DEF CatalogInv, PagesAreOneCatalog, PagerKept, Listed, Increasing, Range
  <1>. QED
    BY <1>1, CatalogStarts, CatalogMoves, PTL DEF CatalogSpec

----------------------------------------------------------------------------
(* The workflow: types and the handlers of a batch                         *)

\* The state of the workflow, and a signal of its history.
Flow == [status : {"new", "collecting", "evaluating", "done", "stuck"}, events : Seq(Nat),
         finalized : BOOLEAN, threw : BOOLEAN, document : Seq(Nat)]
Signal == [type : {"append", "finalize"}, sequence : Nat]

\* A handler leaves a state of the workflow.
LEMMA OnSignalFlow ==
    ASSUME NEW f \in Flow, NEW s \in Signal
    PROVE  OnSignal(f, s) \in Flow
  <1>1. f.events \in Seq(Nat) /\ s.sequence \in Nat
    BY DEF Flow, Signal
  <1>2. Append(f.events, s.sequence) \in Seq(Nat)
    BY <1>1
  <1>. QED
    BY <1>2 DEF OnSignal, Flow, Signal

\* The states of the workflow between the handlers of a batch.
Handles(after, f, signals, types) ==
    /\ after \in [0 .. Len(signals) -> Flow]
    /\ after[0] = f
    /\ \A i \in 1 .. Len(signals) :
          after[i] = IF signals[i].type \in types THEN OnSignal(after[i - 1], signals[i])
                     ELSE after[i - 1]

\* Handled is the last of them.
LEMMA HandledStepwise ==
    ASSUME NEW f \in Flow, NEW signals \in Seq(Signal), NEW types
    PROVE  \E after : /\ Handles(after, f, signals, types)
                      /\ Handled(f, signals, types) = after[Len(signals)]
  <1>. DEFINE n == Len(signals)
              Step(i, g) == IF signals[i].type \in types THEN OnSignal(g, signals[i]) ELSE g
              Whole(h) == [i \in 0 .. n |-> IF i = 0 THEN f ELSE Step(i, h[i - 1])]
  <1>1. n \in Nat /\ \A i \in 1 .. n : signals[i] \in Signal
    OBVIOUS
  <1>2. \A i \in 1 .. n : \A g \in Flow : Step(i, g) \in Flow
    BY <1>1, OnSignalFlow
  <1>. HIDE DEF n, Step
  <1>3. PICK after \in [0 .. n -> Flow] :
           after[0] = f /\ \A i \in 1 .. n : after[i] = Step(i, after[i - 1])
    <2>. DEFINE step == [i \in 1 .. n |-> [g \in Flow |-> Step(i, g)]]
    <2>1. step \in [1 .. n -> [Flow -> Flow]]
      BY <1>2
    <2>2. PICK after \in [0 .. n -> Flow] :
             after[0] = f /\ \A i \in 1 .. n : after[i] = step[i][after[i - 1]]
      <3>1. step \in Steps(n, Flow)
        BY <2>1 DEF Steps
      <3>2. \E after : Runs(after, n, Flow, f, step)
        <4>. HIDE DEF step
        <4>. QED
          BY <1>1, <3>1, StepByStep
      <3>. QED
        BY <3>2 DEF Runs
    <2>3. \A i \in 1 .. n : after[i] = Step(i, after[i - 1])
      <3>. SUFFICES ASSUME NEW i \in 1 .. n
                    PROVE  after[i] = Step(i, after[i - 1])
        OBVIOUS
      <3>1. i - 1 \in 0 .. n
        BY <1>1
      <3>2. after[i - 1] \in Flow
        BY <3>1, <2>2
      <3>. QED
        BY <2>2, <3>2
    <2>. QED
      BY <2>2, <2>3
  <1>4. after = Whole(after)
    BY <1>1, <1>3
  <1>5. PICK h : h = CHOOSE g : g = Whole(g)
    OBVIOUS
  <1>6. h = Whole(h)
    BY <1>4, <1>5
  <1>7. Handled(f, signals, types) = h[n]
    BY <1>5 DEF Handled, n, Step
  <1>8. h[0] = f /\ \A i \in 1 .. n : h[i] = Step(i, h[i - 1])
    BY <1>1, <1>6
  <1>9. 0 .. n \subseteq {i \in 0 .. n : h[i] \in Flow}
    <2>. DEFINE T == {i \in 0 .. n : h[i] \in Flow}
    <2>1. 0 \in T /\ \A i \in 1 .. n : i - 1 \in T => i \in T
      BY <1>1, <1>2, <1>8
    <2>. HIDE DEF T
    <2>2. 0 .. n \subseteq T
      BY <1>1, <2>1, UpTo
    <2>. QED
      BY <2>2 DEF T
  <1>10. h \in [0 .. n -> Flow]
    BY <1>6, <1>9
  <1>. QED
    BY <1>7, <1>8, <1>10 DEF Handles, n, Step

\* The appends among the first n signals of the history.
Appended(n) == {i \in 1 .. n : history[i].type = "append"}
\* The i-th signal is a finalization.
Finalizes(i) == history[i].type = "finalize"

\* Events are numbered from 0 without a gap.
Numbered(events) == \A k \in 1 .. Len(events) : events[k] = k - 1

\* The workflow holds the events of the first n signals.
Holds(f, n) ==
    /\ Numbered(f.events)
    /\ Len(f.events) = InitialEvents + Cardinality(Appended(n))

\* The inductive invariant of the workflow.
FlowTypes ==
    /\ history \in Seq(Signal) /\ delivered \in 0 .. Len(history)
    /\ flow \in Flow /\ count \in [SignalClients -> Nat]

Collected ==
    flow.status # "stuck" =>
        /\ ~flow.threw /\ Holds(flow, delivered)
        /\ flow.finalized <=> \E i \in 1 .. delivered : Finalizes(i)

DocumentSettled ==
    /\ flow.status \in {"new", "collecting"} => ~flow.finalized
    /\ flow.status \in {"evaluating", "done"} => flow.finalized /\ flow.document = flow.events
    /\ flow.status = "done" => delivered = Len(history) /\ report = flow.document

FlowInv == FlowTypes /\ Collected /\ DocumentSettled /\ (Orderly => flow.status # "stuck")

\* Counting the appends, one signal at a time.
LEMMA AppendedCounts ==
    ASSUME NEW n \in Nat
    PROVE  /\ IsFiniteSet(Appended(n)) /\ Cardinality(Appended(n)) \in Nat
           /\ Cardinality(Appended(n + 1)) =
                 IF history[n + 1].type = "append" THEN Cardinality(Appended(n)) + 1
                 ELSE Cardinality(Appended(n))
           /\ Appended(n) = 1 .. n => Cardinality(Appended(n)) = n
  <1>1. IsFiniteSet(1 .. n) /\ Cardinality(1 .. n) = n
    BY FS_Interval
  <1>2. IsFiniteSet(Appended(n)) /\ Cardinality(Appended(n)) \in Nat
    <2>1. Appended(n) \in SUBSET (1 .. n)
      BY DEF Appended
    <2>. QED
      BY <1>1, <2>1, FS_Subset, FS_CardinalityType
  <1>3. CASE history[n + 1].type = "append"
    <2>1. Appended(n + 1) = Appended(n) \cup {n + 1} /\ n + 1 \notin Appended(n)
      BY <1>3 DEF Appended
    <2>. QED
      BY <1>1, <1>2, <1>3, <2>1, FS_AddElement
  <1>4. CASE history[n + 1].type # "append"
    <2>1. Appended(n + 1) = Appended(n)
      BY <1>4 DEF Appended
    <2>. QED
      BY <1>1, <1>2, <1>4, <2>1
  <1>. QED
    BY <1>3, <1>4

\* One signal: the n-th of the history.
LEMMA SignalHandled ==
    ASSUME FlowTypes, NEW n \in Nat, n + 1 =< Len(history), NEW f \in Flow, ~f.threw, Holds(f, n),
           NEW g, g = OnSignal(f, history[n + 1])
    PROVE  /\ ~g.threw => Holds(g, n + 1)
           /\ ~g.threw => (g.finalized <=> f.finalized \/ Finalizes(n + 1))
           /\ g.status = f.status /\ g.document = f.document
           /\ f.finalized /\ ~g.threw => g.events = f.events
           /\ Orderly /\ (f.finalized => \E i \in 1 .. n : Finalizes(i)) => ~g.threw
  <1>1. PICK s : s = history[n + 1]
    OBVIOUS
  <1>2. s \in Signal /\ n + 1 \in DOMAIN history
    BY <1>1 DEF FlowTypes
  <1>3. s.type \in {"append", "finalize"} /\ s.sequence \in Nat
    BY <1>2 DEF Signal
  <1>4. f.events \in Seq(Nat) /\ Len(f.events) \in Nat
    BY DEF Flow
  <1>5. CASE s.type = "finalize"
    <2>1. g = [f EXCEPT !.finalized = TRUE]
      BY <1>1, <1>5 DEF OnSignal
    <2>2. g.finalized /\ g.status = f.status /\ g.document = f.document /\ g.events = f.events
          /\ g.threw = f.threw
      BY <2>1 DEF Flow
    <2>3. Holds(g, n + 1)
      BY <1>1, <1>5, <2>2, AppendedCounts DEF Holds
    <2>. QED
      BY <1>1, <1>5, <2>2, <2>3 DEF Finalizes
  <1>6. CASE s.type = "append" /\ (f.finalized \/ s.sequence # Len(f.events))
    <2>1. g = [f EXCEPT !.threw = TRUE]
      BY <1>1, <1>6 DEF OnSignal
    <2>2. g.threw /\ g.status = f.status /\ g.document = f.document
      BY <2>1 DEF Flow
    <2>3. ASSUME Orderly, f.finalized => \E i \in 1 .. n : Finalizes(i)
          PROVE  FALSE
      <3>1. n + 1 \in Appends(history)
        BY <1>1, <1>2, <1>6 DEF Appends
      <3>2. s.sequence = InitialEvents + n /\ \A j \in 1 .. n : j \in Appends(history)
        BY <1>1, <2>3, <3>1 DEF Orderly
      <3>3. \A j \in 1 .. n : history[j].type = "append"
        BY <3>2 DEF Appends
      <3>4. ~f.finalized
        BY <2>3, <3>3 DEF Finalizes
      <3>5. Appended(n) = 1 .. n
        BY <3>3 DEF Appended
      <3>6. Len(f.events) = InitialEvents + n
        BY <3>5, AppendedCounts DEF Holds
      <3>. QED
        BY <1>6, <3>2, <3>4, <3>6
    <2>. QED
      BY <2>2, <2>3
  <1>7. CASE s.type = "append" /\ ~f.finalized /\ s.sequence = Len(f.events)
    <2>1. g = [f EXCEPT !.events = Append(f.events, s.sequence)]
      BY <1>1, <1>7 DEF OnSignal
    <2>2. /\ g.events = Append(f.events, s.sequence) /\ g.status = f.status /\ ~g.threw
          /\ g.document = f.document /\ g.finalized = f.finalized
      BY <2>1 DEF Flow
    <2>3. Len(g.events) = Len(f.events) + 1 /\ Numbered(g.events)
      <3>1. Len(g.events) = Len(f.events) + 1
        BY <1>4, <2>2
      <3>2. ASSUME NEW k \in 1 .. Len(f.events) + 1
            PROVE  g.events[k] = k - 1
        <4>1. CASE k = Len(f.events) + 1
          BY <4>1, <1>3, <1>4, <1>7, <2>2
        <4>2. CASE k # Len(f.events) + 1
          <5>1. k \in 1 .. Len(f.events) /\ g.events[k] = f.events[k]
            BY <4>2, <1>3, <1>4, <2>2
          <5>. QED
            BY <5>1 DEF Holds, Numbered
        <4>. QED
          BY <4>1, <4>2
      <3>. QED
        BY <3>1, <3>2 DEF Numbered
    <2>4. Cardinality(Appended(n + 1)) = Cardinality(Appended(n)) + 1
          /\ Cardinality(Appended(n)) \in Nat
      BY <1>1, <1>7, AppendedCounts
    <2>5. Holds(g, n + 1)
      BY <2>3, <2>4, WorkflowConstants DEF Holds
    <2>6. ~Finalizes(n + 1)
      BY <1>1, <1>7 DEF Finalizes
    <2>. QED
      BY <1>7, <2>2, <2>5, <2>6
  <1>. QED
    BY <1>3, <1>5, <1>6, <1>7

\* A finalization changes the finalized flag only, and a state that threw stays as it is.
LEMMA FinalizeHandled ==
    ASSUME NEW f \in Flow, NEW s \in Signal, s.type = "finalize", NEW g, g = OnSignal(f, s)
    PROVE  /\ g.status = f.status /\ g.document = f.document /\ g.events = f.events
           /\ g.threw = f.threw /\ (~f.threw => g.finalized)
  BY DEF OnSignal, Flow

LEMMA ThrewStays ==
    ASSUME NEW f \in Flow, NEW s, f.threw
    PROVE  OnSignal(f, s) = f
  BY DEF OnSignal

\* A batch is the signals that wait, in their order.
LEMMA BatchSignals ==
    ASSUME FlowTypes, NEW n \in delivered .. Len(history), NEW batch,
           batch = SubSeq(history, delivered + 1, n)
    PROVE  /\ n \in Nat /\ batch \in Seq(Signal) /\ Len(batch) = n - delivered
           /\ \A i \in 1 .. n - delivered : batch[i] = history[delivered + i]
  <1>1. history \in Seq(Signal) /\ delivered \in Nat /\ n \in Nat /\ n =< Len(history)
    BY DEF FlowTypes
  <1>. QED
    BY <1>1

\* What a batch leaves, once the first k of its signals of some types are handled.
After(a, k, types) ==
    /\ a \in Flow /\ a.status = flow.status /\ a.document = flow.document
    /\ ~a.threw =>
          /\ Holds(a, delivered + k)
          /\ a.finalized <=> \/ flow.finalized
                             \/ /\ "finalize" \in types
                                /\ \E j \in delivered + 1 .. delivered + k : Finalizes(j)
          /\ flow.finalized => a.events = flow.events
    /\ Orderly => ~a.threw

\* By induction over the signals of the batch.
LEMMA BatchHandled ==
    ASSUME FlowInv, flow.status # "stuck", NEW n \in delivered .. Len(history), NEW batch,
           batch = SubSeq(history, delivered + 1, n),
           NEW types \in SUBSET {"append", "finalize"}, "append" \in types
    PROVE  After(Handled(flow, batch, types), n - delivered, types)
  <1>1. FlowTypes /\ flow \in Flow /\ delivered \in Nat
    BY DEF FlowInv, FlowTypes
  <1>2. PICK m : m = n - delivered
    OBVIOUS
  <1>3. /\ n \in Nat /\ batch \in Seq(Signal) /\ Len(batch) = m /\ m \in Nat
        /\ \A i \in 1 .. m : batch[i] = history[delivered + i]
    <2>1. /\ n \in Nat /\ batch \in Seq(Signal) /\ Len(batch) = n - delivered
          /\ \A i \in 1 .. n - delivered : batch[i] = history[delivered + i]
      BY <1>1, BatchSignals
    <2>2. n - delivered \in Nat
      BY <1>1, <2>1
    <2>. QED
      BY <1>2, <2>1, <2>2
  <1>4. PICK after : /\ Handles(after, flow, batch, types)
                     /\ Handled(flow, batch, types) = after[Len(batch)]
    BY <1>1, <1>3, HandledStepwise
  <1>. DEFINE T == {i \in 0 .. m : After(after[i], i, types)}
  <1>5. 0 \in T
    <2>1. after[0] = flow /\ delivered + 0 = delivered
      BY <1>1, <1>4 DEF Handles
    <2>2. ~flow.threw /\ Holds(flow, delivered)
      BY DEF FlowInv, Collected
    <2>3. After(flow, 0, types)
      BY <1>1, <2>2 DEF After
    <2>. QED
      BY <1>3, <2>1, <2>3
  <1>6. ASSUME NEW i \in 1 .. m, i - 1 \in T
        PROVE  i \in T
    <2>1. PICK k, a, b, s : /\ k = delivered + i - 1 /\ a = after[i] /\ b = after[i - 1]
                            /\ s = history[k + 1]
      OBVIOUS
    <2>2. k \in Nat /\ k + 1 = delivered + i /\ k = delivered + (i - 1) /\ k + 1 =< Len(history)
      BY <1>1, <1>2, <1>3, <2>1 DEF FlowTypes
    <2>3. After(b, i - 1, types)
      BY <1>6, <2>1
    <2>4. a \in Flow /\ b \in Flow /\ a = IF s.type \in types THEN OnSignal(b, s) ELSE b
      <3>1. batch[i] = s /\ i - 1 \in 0 .. m /\ i \in 0 .. m
        BY <1>3, <2>1, <2>2
      <3>2. /\ after \in [0 .. m -> Flow]
            /\ after[i] = IF batch[i].type \in types THEN OnSignal(after[i - 1], batch[i])
                          ELSE after[i - 1]
        BY <1>3, <1>4 DEF Handles
      <3>3. after[i] \in Flow /\ after[i - 1] \in Flow
        BY <3>1, <3>2
      <3>. QED
        BY <2>1, <3>1, <3>2, <3>3
    <2>5. s \in Signal /\ s.type \in {"append", "finalize"}
      <3>1. history \in Seq(Signal) /\ k + 1 \in DOMAIN history
        BY <1>1, <2>2 DEF FlowTypes
      <3>2. s \in Signal
        BY <2>1, <3>1
      <3>. QED
        BY <3>2 DEF Signal
    <2>6. CASE s.type \in types /\ b.threw
      <3>1. a = b
        BY <2>4, <2>6, ThrewStays
      <3>2. After(a, i, types)
        BY <2>3, <2>6, <3>1 DEF After
      <3>. QED
        BY <2>1, <3>2
    <2>7. CASE s.type \in types /\ ~b.threw
      <3>1. Holds(b, k) /\ a = OnSignal(b, history[k + 1])
        BY <2>1, <2>2, <2>3, <2>4, <2>7 DEF After
      <3>2. /\ ~a.threw => Holds(a, k + 1)
            /\ ~a.threw => (a.finalized <=> b.finalized \/ Finalizes(k + 1))
            /\ a.status = b.status /\ a.document = b.document
            /\ b.finalized /\ ~a.threw => a.events = b.events
            /\ Orderly /\ (b.finalized => \E j \in 1 .. k : Finalizes(j)) => ~a.threw
        BY <1>1, <2>2, <2>4, <2>7, <3>1, SignalHandled
      <3>3. b.finalized => \E j \in 1 .. k : Finalizes(j)
        <4>1. flow.finalized => \E j \in 1 .. delivered : Finalizes(j)
          BY DEF FlowInv, Collected
        <4>2. b.finalized => flow.finalized \/ \E j \in delivered + 1 .. k : Finalizes(j)
          BY <2>2, <2>3, <2>7 DEF After
        <4>3. /\ \A j \in 1 .. delivered : j \in 1 .. k
              /\ \A j \in delivered + 1 .. k : j \in 1 .. k
          <5>1. delivered \in Nat /\ k \in Nat /\ i \in 1 .. m /\ k = delivered + i - 1
            BY <1>1, <2>1, <2>2
          <5>2. i \in Nat /\ i >= 1
            BY <5>1, <1>3
          <5>3. delivered =< k
            BY <5>1, <5>2
          <5>. QED
            BY <5>1, <5>3
        <4>. QED
          BY <4>1, <4>2, <4>3
      <3>4. ~a.threw =>
               (a.finalized <=> \/ flow.finalized
                                \/ /\ "finalize" \in types
                                   /\ \E j \in delivered + 1 .. delivered + i : Finalizes(j))
        <4>1. b.finalized <=> \/ flow.finalized
                              \/ /\ "finalize" \in types
                                 /\ \E j \in delivered + 1 .. k : Finalizes(j)
          BY <2>2, <2>3, <2>7 DEF After
        <4>2. Finalizes(k + 1) => "finalize" \in types
          BY <2>1, <2>7 DEF Finalizes
        <4>3. delivered + 1 .. delivered + i = (delivered + 1 .. k) \cup {k + 1}
          BY <1>1, <2>2, <1>3
        <4>. QED
          BY <3>2, <4>1, <4>2, <4>3
      <3>5. flow.finalized /\ ~a.threw => a.events = flow.events
        BY <2>3, <2>7, <3>2 DEF After
      <3>6. After(a, i, types)
        BY <2>2, <2>3, <2>4, <3>2, <3>3, <3>4, <3>5 DEF After
      <3>. QED
        BY <2>1, <3>6
    <2>8. CASE s.type \notin types
      <3>1. a = b /\ s.type = "finalize" /\ "finalize" \notin types
        BY <2>4, <2>5, <2>8
      <3>2. Cardinality(Appended(k + 1)) = Cardinality(Appended(k))
        BY <2>1, <2>2, <3>1, AppendedCounts
      <3>3. After(a, i, types)
        BY <2>2, <2>3, <3>1, <3>2 DEF After, Holds
      <3>. QED
        BY <2>1, <3>3
    <2>. QED
      BY <2>6, <2>7, <2>8
  <1>7. 0 .. m \subseteq T
    <2>. HIDE DEF T
    <2>. QED
      BY <1>3, <1>5, <1>6, UpTo
  <1>. QED
    BY <1>2, <1>3, <1>4, <1>7

\* One of the first n signals is a finalization.
AnyFinalize(signals, n) == \E i \in 1 .. n : signals[i].type = "finalize"

\* What a pass over the finalizations among the first k signals leaves.
FinalizedBy(g, f, signals, k) ==
    /\ g \in Flow /\ g.status = f.status /\ g.document = f.document
    /\ g.events = f.events /\ g.threw = f.threw
    /\ ~f.threw => (g.finalized <=> f.finalized \/ AnyFinalize(signals, k))

\* By induction over the signals again.
LEMMA FinalizationsHandled ==
    ASSUME NEW f \in Flow, NEW signals \in Seq(Signal)
    PROVE  FinalizedBy(Handled(f, signals, {"finalize"}), f, signals, Len(signals))
  <1>. DEFINE Same(a, k) == FinalizedBy(a, f, signals, k)
  <1>1. PICK m : m = Len(signals)
    OBVIOUS
  <1>2. m \in Nat
    BY <1>1
  <1>3. PICK after : /\ Handles(after, f, signals, {"finalize"})
                     /\ Handled(f, signals, {"finalize"}) = after[m]
    BY <1>1, HandledStepwise
  <1>. DEFINE T == {i \in 0 .. m : Same(after[i], i)}
  <1>4. 0 \in T
    <2>1. after[0] = f
      BY <1>3 DEF Handles
    <2>2. Same(after[0], 0)
      BY <2>1 DEF FinalizedBy, AnyFinalize
    <2>. QED
      BY <1>2, <2>2
  <1>5. ASSUME NEW i \in 1 .. m, i - 1 \in T
        PROVE  i \in T
    <2>1. PICK a, b, s : a = after[i] /\ b = after[i - 1] /\ s = signals[i]
      OBVIOUS
    <2>2. s \in Signal /\ a \in Flow /\ a = IF s.type = "finalize" THEN OnSignal(b, s) ELSE b
      BY <1>1, <1>2, <1>3, <2>1 DEF Handles
    <2>3. Same(b, i - 1)
      BY <1>5, <2>1
    <2>4. AnyFinalize(signals, i) <=> AnyFinalize(signals, i - 1) \/ s.type = "finalize"
      <3>1. 1 .. i = (1 .. i - 1) \cup {i}
        OBVIOUS
      <3>. QED
        BY <2>1, <3>1 DEF AnyFinalize
    <2>5. CASE s.type = "finalize" /\ b.threw
      <3>1. a = b
        BY <2>2, <2>3, <2>5, ThrewStays DEF FinalizedBy
      <3>2. Same(a, i)
        BY <2>3, <2>5, <3>1 DEF FinalizedBy
      <3>. QED
        BY <2>1, <3>2
    <2>6. CASE s.type = "finalize" /\ ~b.threw
      <3>1. /\ a.status = b.status /\ a.document = b.document /\ a.events = b.events
            /\ a.threw = b.threw /\ a.finalized
        BY <2>2, <2>3, <2>6, FinalizeHandled DEF FinalizedBy
      <3>2. Same(a, i)
        BY <2>2, <2>3, <2>4, <2>6, <3>1 DEF FinalizedBy
      <3>. QED
        BY <2>1, <3>2
    <2>7. CASE s.type # "finalize"
      <3>1. a = b
        BY <2>2, <2>7
      <3>2. Same(a, i)
        BY <2>3, <2>4, <2>7, <3>1 DEF FinalizedBy
      <3>. QED
        BY <2>1, <3>2
    <2>. QED
      BY <2>5, <2>6, <2>7
  <1>6. m \in T
    <2>. HIDE DEF T
    <2>1. 0 .. m \subseteq T
      BY <1>2, <1>4, <1>5, UpTo
    <2>. QED
      BY <1>2, <2>1
  <1>. QED
    BY <1>1, <1>3, <1>6

\* Whichever way a batch is handed over.
LEMMA Delivered ==
    ASSUME FlowInv, flow.status # "stuck", NEW n \in delivered .. Len(history), NEW batch,
           batch = SubSeq(history, delivered + 1, n),
           NEW g, g = InOrder(flow, batch) \/ g = ByHandler(flow, batch)
    PROVE  /\ g \in Flow /\ g.status = flow.status /\ g.document = flow.document
           /\ ~g.threw => /\ Holds(g, n)
                          /\ g.finalized <=> \E i \in 1 .. n : Finalizes(i)
                          /\ flow.finalized => g.events = flow.events
           /\ Orderly => ~g.threw
  <1>1. PICK m : m = n - delivered
    OBVIOUS
  <1>2. /\ delivered \in Nat /\ n \in Nat /\ m \in Nat /\ delivered + m = n /\ FlowTypes
        /\ batch \in Seq(Signal) /\ Len(batch) = m
        /\ \A i \in 1 .. m : batch[i] = history[delivered + i]
    BY <1>1, BatchSignals DEF FlowInv, FlowTypes
  <1>3. flow.finalized <=> \E i \in 1 .. delivered : Finalizes(i)
    BY DEF FlowInv, Collected
  <1>4. 1 .. n = (1 .. delivered) \cup (delivered + 1 .. n)
    BY <1>2
  <1>5. CASE g = InOrder(flow, batch)
    <2>1. After(g, m, {"append", "finalize"})
      BY <1>1, <1>5, BatchHandled DEF InOrder
    <2>. QED
      BY <1>2, <1>3, <1>4, <2>1 DEF After
  <1>6. CASE g = ByHandler(flow, batch)
    <2>1. PICK h : h = Handled(flow, batch, {"append"})
      OBVIOUS
    <2>2. After(h, m, {"append"})
      BY <1>1, <2>1, BatchHandled
    <2>3. h \in Flow /\ g = Handled(h, batch, {"finalize"})
      BY <1>6, <2>1, <2>2 DEF ByHandler, After
    <2>4. /\ g \in Flow /\ g.status = h.status /\ g.document = h.document
          /\ g.events = h.events /\ g.threw = h.threw
          /\ ~h.threw => (g.finalized <=> h.finalized \/ AnyFinalize(batch, Len(batch)))
      BY <1>2, <2>3, FinalizationsHandled DEF FinalizedBy
    <2>5. AnyFinalize(batch, Len(batch)) <=> \E i \in delivered + 1 .. n : Finalizes(i)
      <3>1. ASSUME NEW i \in 1 .. m, batch[i].type = "finalize"
            PROVE  \E j \in delivered + 1 .. n : Finalizes(j)
        <4>. delivered \in Nat /\ n \in Nat /\ m \in Nat /\ delivered + m = n
          BY <1>2
        <4>1. delivered + i \in delivered + 1 .. n
          OBVIOUS
        <4>2. history[delivered + i] = batch[i]
          BY <1>2
        <4>3. Finalizes(delivered + i)
          BY <3>1, <4>2 DEF Finalizes
        <4>. QED
          BY <4>1, <4>3
      <3>2. ASSUME NEW j \in delivered + 1 .. n, Finalizes(j)
            PROVE  \E i \in 1 .. m : batch[i].type = "finalize"
        <4>1. j - delivered \in 1 .. m /\ history[delivered + (j - delivered)] = history[j]
          BY <1>2
        <4>2. batch[j - delivered] = history[j]
          BY <1>2, <4>1
        <4>. QED
          BY <3>2, <4>1, <4>2 DEF Finalizes
      <3>. QED
        BY <1>2, <3>1, <3>2 DEF AnyFinalize
    <2>6. h.status = flow.status /\ h.document = flow.document /\ (Orderly => ~h.threw)
      BY <2>2 DEF After
    <2>7. ~h.threw => /\ Holds(h, n) /\ (flow.finalized => h.events = flow.events)
                      /\ h.finalized <=> flow.finalized
      BY <1>2, <2>2 DEF After
    <2>8. ~h.threw => Holds(g, n)
      BY <2>4, <2>7 DEF Holds
    <2>. QED
      BY <1>3, <1>4, <2>4, <2>5, <2>6, <2>7, <2>8
  <1>. QED
    BY <1>5, <1>6

----------------------------------------------------------------------------
(* The workflow: its steps                                                 *)

LEMMA FlowStarts ==
    ASSUME WorkflowInit
    PROVE  FlowInv
  <1>1. PICK e : e = [i \in 1 .. InitialEvents |-> i - 1]
    OBVIOUS
  <1>2. e \in Seq(Nat) /\ Len(e) = InitialEvents /\ Numbered(e)
    <2>1. InitialEvents \in Nat /\ e \in [1 .. InitialEvents -> Nat]
      BY <1>1, WorkflowConstants
    <2>. QED
      BY <1>1, <2>1 DEF Numbered
  <1>3. flow = [status |-> "new", events |-> e, finalized |-> FALSE, threw |-> FALSE,
                document |-> <<>>]
    BY <1>1 DEF WorkflowInit
  <1>4. /\ flow \in Flow /\ flow.status = "new" /\ ~flow.finalized /\ ~flow.threw
        /\ flow.events = e
    BY <1>2, <1>3 DEF Flow
  <1>5. history = <<>> /\ delivered = 0 /\ history \in Seq(Signal) /\ Len(history) = 0
    BY DEF WorkflowInit
  <1>6. count \in [SignalClients -> Nat]
    BY WorkflowConstants DEF WorkflowInit
  <1>7. Appended(delivered) = {} /\ Cardinality(Appended(delivered)) = 0
    BY <1>5, FS_EmptySet DEF Appended
  <1>8. Holds(flow, delivered)
    BY <1>2, <1>4, <1>7, WorkflowConstants DEF Holds
  <1>9. ~\E i \in 1 .. delivered : Finalizes(i)
    BY <1>5
  <1>. QED
    BY <1>4, <1>5, <1>6, <1>8, <1>9 DEF FlowInv, FlowTypes, Collected, DocumentSettled

LEMMA FlowIdle ==
    ASSUME FlowInv, UNCHANGED <<history, delivered, flow, report>>,
           count' \in [SignalClients -> Nat]
    PROVE  FlowInv'
  <1>1. history' = history /\ delivered' = delivered /\ flow' = flow /\ report' = report
    OBVIOUS
  <1>2. FlowTypes' /\ DocumentSettled'
    BY <1>1 DEF FlowInv, FlowTypes, DocumentSettled
  <1>3. Collected'
    BY <1>1 DEF FlowInv, Collected, Holds, Appended, Finalizes
  <1>4. Orderly' => flow'.status # "stuck"
    BY <1>1 DEF FlowInv, Orderly, Appends
  <1>. QED
    BY <1>2, <1>3, <1>4 DEF FlowInv

\* A signal is recorded, and not handled yet.
LEMMA SignalRecorded ==
    ASSUME FlowInv, flow.status # "done", NEW s \in Signal, history' = Append(history, s),
           UNCHANGED <<delivered, flow, report>>, count' \in [SignalClients -> Nat]
    PROVE  FlowInv'
  <1>1. /\ history \in Seq(Signal) /\ delivered \in 0 .. Len(history) /\ flow \in Flow
        /\ delivered' = delivered /\ flow' = flow /\ report' = report
    BY DEF FlowInv, FlowTypes
  <1>2. /\ history' \in Seq(Signal) /\ Len(history') = Len(history) + 1
        /\ \A i \in 1 .. Len(history) : history'[i] = history[i]
    BY <1>1
  <1>3. FlowTypes'
    BY <1>1, <1>2 DEF FlowTypes
  <1>4. PICK d : d = delivered
    OBVIOUS
  <1>5. \A i \in 1 .. d : history'[i] = history[i]
    BY <1>1, <1>2, <1>4
  <1>6. Appended(d)' = Appended(d) /\ \A i \in 1 .. d : Finalizes(i)' <=> Finalizes(i)
    BY <1>5 DEF Appended, Finalizes
  <1>7. Collected'
    BY <1>1, <1>4, <1>6 DEF FlowInv, Collected, Holds
  <1>8. DocumentSettled'
    BY <1>1 DEF FlowInv, DocumentSettled
  <1>9. Orderly' => Orderly
    <2>1. SUFFICES ASSUME Orderly', NEW i \in Appends(history)
                   PROVE  /\ history[i].sequence = InitialEvents + i - 1
                          /\ \A j \in 1 .. i - 1 : j \in Appends(history)
      BY DEF Orderly
    <2>2. i \in 1 .. Len(history) /\ history[i].type = "append"
      BY <1>1 DEF Appends
    <2>3. i \in DOMAIN history' /\ history'[i] = history[i]
      BY <1>1, <1>2, <2>2
    <2>4. i \in Appends(history')
      BY <2>2, <2>3 DEF Appends
    <2>5. /\ history'[i].sequence = InitialEvents + i - 1
          /\ \A j \in 1 .. i - 1 : j \in Appends(history')
      BY <2>1, <2>4 DEF Orderly
    <2>6. ASSUME NEW j \in 1 .. i - 1
          PROVE  j \in Appends(history)
      <3>1. j \in 1 .. Len(history) /\ j \in DOMAIN history
        BY <1>1, <2>2
      <3>2. history'[j].type = "append" /\ history'[j] = history[j]
        BY <1>2, <2>5, <3>1 DEF Appends
      <3>. QED
        BY <3>1, <3>2 DEF Appends
    <2>. QED
      BY <2>3, <2>5, <2>6
  <1>. QED
    BY <1>1, <1>3, <1>7, <1>8, <1>9 DEF FlowInv

\* What the state is once a batch is handled that ends at the n-th signal.
LEMMA Handed ==
    ASSUME FlowInv, flow.status # "stuck", NEW n \in delivered .. Len(history),
           history' = history, delivered' = n, flow' \in Flow,
           count' \in [SignalClients -> Nat], DocumentSettled',
           flow'.status # "stuck" =>
              /\ ~flow'.threw /\ Holds(flow', n)
              /\ flow'.finalized <=> \E i \in 1 .. n : Finalizes(i),
           Orderly => flow'.status # "stuck"
    PROVE  FlowInv'
  <1>1. n \in 0 .. Len(history) /\ history \in Seq(Signal)
    BY DEF FlowInv, FlowTypes
  <1>2. FlowTypes'
    BY <1>1 DEF FlowTypes
  <1>3. Collected'
    BY DEF Collected, Holds, Appended, Finalizes
  <1>4. Orderly' => Orderly
    BY DEF Orderly, Appends
  <1>. QED
    BY <1>2, <1>3, <1>4 DEF FlowInv

\* An activation: the handlers, then the awaited condition.
LEMMA ActivateKept ==
    ASSUME FlowInv, Activate
    PROVE  FlowInv'
  <1>1. PICK n, batch, g :
           /\ n \in delivered .. Len(history)
           /\ batch = SubSeq(history, delivered + 1, n)
           /\ g = InOrder(flow, batch) \/ g = ByHandler(flow, batch)
           /\ flow' = Continue(g) /\ delivered' = n
    BY DEF Activate
  <1>2. /\ flow.status \in {"new", "collecting", "evaluating"} /\ history' = history
        /\ report' = report /\ count' = count
    BY DEF Activate
  <1>3. /\ g \in Flow /\ g.status = flow.status /\ g.document = flow.document
        /\ ~g.threw => /\ Holds(g, n)
                       /\ g.finalized <=> \E i \in 1 .. n : Finalizes(i)
                       /\ flow.finalized => g.events = flow.events
        /\ Orderly => ~g.threw
    BY <1>1, <1>2, Delivered
  <1>4. /\ flow.finalized => \E i \in 1 .. n : Finalizes(i)
        /\ count' \in [SignalClients -> Nat]
    <2>1. delivered \in Nat /\ n \in Nat /\ delivered =< n
      BY <1>1 DEF FlowInv, FlowTypes
    <2>2. \A i \in 1 .. delivered : i \in 1 .. n
      BY <2>1
    <2>. QED
      BY <1>2, <2>2 DEF FlowInv, FlowTypes, Collected
  <1>5. CASE g.threw
    <2>1. flow' = [g EXCEPT !.status = "stuck"]
      BY <1>1, <1>5 DEF Continue
    <2>2. flow' \in Flow /\ flow'.status = "stuck"
      BY <1>3, <2>1 DEF Flow
    <2>3. DocumentSettled'
      BY <2>2 DEF DocumentSettled
    <2>. QED
      BY <1>1, <1>2, <1>3, <1>4, <1>5, <2>2, <2>3, Handed
  <1>6. CASE ~g.threw /\ g.finalized /\ g.status \in {"new", "collecting"}
    <2>1. flow' = [g EXCEPT !.status = "evaluating", !.document = g.events]
      BY <1>1, <1>6 DEF Continue
    <2>2. /\ flow' \in Flow /\ flow'.status = "evaluating" /\ ~flow'.threw /\ flow'.finalized
          /\ flow'.events = g.events /\ flow'.document = g.events
      BY <1>3, <1>6, <2>1 DEF Flow
    <2>3. DocumentSettled'
      BY <2>2 DEF DocumentSettled
    <2>4. Holds(flow', n)
      BY <1>3, <1>6, <2>2 DEF Holds
    <2>. QED
      BY <1>1, <1>2, <1>3, <1>4, <1>6, <2>2, <2>3, <2>4, Handed
  <1>7. CASE ~g.threw /\ ~g.finalized /\ g.status \in {"new", "collecting"}
    <2>1. flow' = [g EXCEPT !.status = "collecting"]
      <3>1. g.status = "collecting" => g = [g EXCEPT !.status = "collecting"]
        BY <1>3 DEF Flow
      <3>. QED
        BY <1>1, <1>7, <3>1 DEF Continue
    <2>2. /\ flow' \in Flow /\ flow'.status = "collecting" /\ ~flow'.threw /\ ~flow'.finalized
          /\ flow'.events = g.events
      BY <1>3, <1>7, <2>1 DEF Flow
    <2>3. DocumentSettled'
      BY <2>2 DEF DocumentSettled
    <2>4. Holds(flow', n)
      BY <1>3, <1>7, <2>2 DEF Holds
    <2>. QED
      BY <1>1, <1>2, <1>3, <1>4, <1>7, <2>2, <2>3, <2>4, Handed
  <1>8. CASE ~g.threw /\ g.status = "evaluating"
    <2>1. flow' = g
      BY <1>1, <1>8 DEF Continue
    <2>2. flow.finalized /\ flow.document = flow.events
      BY <1>3, <1>8 DEF FlowInv, DocumentSettled
    <2>3. g.finalized /\ g.document = g.events
      BY <1>3, <1>4, <1>8, <2>2
    <2>4. DocumentSettled'
      BY <1>8, <2>1, <2>3 DEF DocumentSettled
    <2>. QED
      BY <1>1, <1>2, <1>3, <1>4, <1>8, <2>1, <2>4, Handed
  <1>. QED
    BY <1>2, <1>3, <1>5, <1>6, <1>7, <1>8

\* The activity answers: signals that came meanwhile are handled first, and an append among
\* them throws, as the run is finalized.
LEMMA EvaluatedKept ==
    ASSUME FlowInv, Evaluated
    PROVE  FlowInv'
  <1>1. PICK n, batch, g : /\ n = Len(history) /\ batch = SubSeq(history, delivered + 1, n)
                           /\ g = InOrder(flow, batch)
    OBVIOUS
  <1>2. /\ flow.status = "evaluating" /\ history' = history /\ count' = count
        /\ delivered' = n
        /\ g.threw => flow' = Continue(g) /\ report' = report
        /\ ~g.threw => flow' = [g EXCEPT !.status = "done"] /\ report' = flow.document
    BY <1>1 DEF Evaluated
  <1>3. /\ n \in delivered .. Len(history) /\ count' \in [SignalClients -> Nat]
        /\ n \in Nat /\ 1 .. delivered \subseteq 1 .. n
    BY <1>1, <1>2 DEF FlowInv, FlowTypes
  <1>4. /\ g \in Flow /\ g.document = flow.document
        /\ ~g.threw => /\ Holds(g, n)
                       /\ g.finalized <=> \E i \in 1 .. n : Finalizes(i)
                       /\ flow.finalized => g.events = flow.events
        /\ Orderly => ~g.threw
    <2>1. flow.status # "stuck" /\ batch = SubSeq(history, delivered + 1, n)
      BY <1>1, <1>2
    <2>2. g = InOrder(flow, batch) \/ g = ByHandler(flow, batch)
      BY <1>1
    <2>. QED
      BY <1>3, <2>1, <2>2, Delivered
  <1>5. CASE g.threw
    <2>1. flow' = [g EXCEPT !.status = "stuck"]
      BY <1>2, <1>5 DEF Continue
    <2>2. flow' \in Flow /\ flow'.status = "stuck"
      BY <1>4, <2>1 DEF Flow
    <2>3. DocumentSettled'
      BY <2>2 DEF DocumentSettled
    <2>. QED
      BY <1>2, <1>3, <1>4, <1>5, <2>2, <2>3, Handed
  <1>6. CASE ~g.threw
    <2>1. flow' = [g EXCEPT !.status = "done"] /\ report' = flow.document
      BY <1>2, <1>6
    <2>2. /\ flow' \in Flow /\ flow'.status = "done" /\ ~flow'.threw
          /\ flow'.finalized = g.finalized /\ flow'.events = g.events
          /\ flow'.document = g.document
      BY <1>4, <1>6, <2>1 DEF Flow
    <2>3. flow.finalized /\ flow.document = flow.events
      BY <1>2 DEF FlowInv, DocumentSettled
    <2>4. g.finalized
      <3>1. \E i \in 1 .. delivered : Finalizes(i)
        BY <1>2, <2>3 DEF FlowInv, Collected
      <3>. QED
        BY <1>3, <1>4, <1>6, <3>1
    <2>5. DocumentSettled'
      BY <1>1, <1>2, <1>4, <1>6, <2>1, <2>2, <2>3, <2>4 DEF DocumentSettled
    <2>6. Holds(flow', n)
      BY <1>4, <1>6, <2>2 DEF Holds
    <2>. QED
      BY <1>2, <1>3, <1>4, <1>6, <2>2, <2>5, <2>6, Handed
  <1>. QED
    BY <1>5, <1>6

\* Every step of the workflow and of its clients.
LEMMA FlowMoves ==
    ASSUME FlowInv, [WorkflowNext]_workflowVars
    PROVE  FlowInv'
  <1>1. count \in [SignalClients -> Nat] /\ flow \in Flow
    BY DEF FlowInv, FlowTypes
  <1>2. ASSUME NEW c \in SignalClients, SendAppend(c)
        PROVE  FlowInv'
    <2>1. count[c] \in Nat /\ count' = [count EXCEPT ![c] = count[c] + 1]
      BY <1>1, <1>2 DEF SendAppend
    <2>2. AppendSignal(count[c]) \in Signal
      BY <2>1 DEF AppendSignal, Signal
    <2>3. count' \in [SignalClients -> Nat]
      BY <1>1, <2>1
    <2>. QED
      BY <1>2, <2>2, <2>3, SignalRecorded DEF SendAppend
  <1>3. ASSUME NEW c \in SignalClients, QueryCount(c)
        PROVE  FlowInv'
    <2>1. Len(flow.events) \in Nat
      BY <1>1 DEF Flow
    <2>2. count' \in [SignalClients -> Nat]
      BY <1>1, <1>3, <2>1 DEF QueryCount
    <2>. QED
      BY <1>3, <2>2, FlowIdle DEF QueryCount
  <1>4. ASSUME SendFinalize
        PROVE  FlowInv'
    <2>1. FinalizeSignal \in Signal
      BY DEF FinalizeSignal, Signal
    <2>. QED
      BY <1>1, <1>4, <2>1, SignalRecorded DEF SendFinalize
  <1>5. ASSUME UNCHANGED workflowVars
        PROVE  FlowInv'
    BY <1>1, <1>5, FlowIdle DEF workflowVars
  <1>. QED
    BY <1>2, <1>3, <1>4, <1>5, ActivateKept, EvaluatedKept DEF WorkflowNext

\* The document of a finished run is all of the history.
LEMMA DocumentReported ==
    ASSUME FlowInv
    PROVE  ReportIsDelivered
  <1>1. SUFFICES ASSUME flow.status = "done"
                 PROVE  report = [i \in 1 .. InitialEvents + Cardinality(Appends(history))
                                     |-> i - 1]
    BY DEF ReportIsDelivered
  <1>2. /\ history \in Seq(Signal) /\ delivered = Len(history) /\ flow \in Flow
        /\ report = flow.events /\ Holds(flow, delivered)
    BY <1>1 DEF FlowInv, FlowTypes, Collected, DocumentSettled
  <1>3. Appends(history) = Appended(delivered)
    BY <1>2 DEF Appends, Appended
  <1>4. PICK e, m : e = flow.events /\ m = InitialEvents + Cardinality(Appends(history))
    OBVIOUS
  <1>5. e \in Seq(Nat) /\ Len(e) = m /\ Numbered(e)
    BY <1>2, <1>3, <1>4 DEF Holds, Flow
  <1>6. e = [i \in 1 .. m |-> i - 1]
    BY <1>5 DEF Numbered
  <1>. QED
    BY <1>2, <1>4, <1>6

\* The report of timelineWorkflow (workflows.ts) leaves out no event that the workflow accepted,
\* for any history of signals and any way Temporal cuts it into batches.
THEOREM WorkflowReports == WorkflowSpec => []ReportIsDelivered
  <1>1. WorkflowInit => FlowInv
    BY FlowStarts
  <1>2. FlowInv /\ [WorkflowNext]_workflowVars => FlowInv'
    BY FlowMoves
  <1>3. FlowInv => ReportIsDelivered
    BY DocumentReported
  <1>. QED
    BY <1>1, <1>2, <1>3, PTL DEF WorkflowSpec

\* A finalized run whose clients kept to the order is reported, once nothing waits for a worker.
THEOREM OrderlyReported == WorkflowSpec => []OrderlyRunsReport
  <1>1. WorkflowInit => FlowInv
    BY FlowStarts
  <1>2. FlowInv /\ [WorkflowNext]_workflowVars => FlowInv'
    BY FlowMoves
  <1>3. FlowInv => OrderlyRunsReport
    <2>1. SUFFICES ASSUME FlowInv, delivered = Len(history),
                          flow.status \notin {"new", "evaluating"}, Orderly,
                          NEW i \in DOMAIN history, history[i].type = "finalize"
                   PROVE  flow.status = "done"
      BY DEF OrderlyRunsReport
    <2>2. flow \in Flow /\ history \in Seq(Signal)
      BY <2>1 DEF FlowInv, FlowTypes
    <2>3. i \in 1 .. delivered /\ Finalizes(i)
      BY <2>1, <2>2 DEF Finalizes
    <2>4. flow.finalized /\ flow.status # "stuck"
      BY <2>1, <2>3 DEF FlowInv, Collected
    <2>. QED
      BY <2>1, <2>2, <2>4 DEF FlowInv, DocumentSettled, Flow
  <1>. QED
    BY <1>1, <1>2, <1>3, PTL DEF WorkflowSpec

----------------------------------------------------------------------------
(* The saves of an archive.  The comparison of a save and its rename are   *)
(* separate steps.  What holds between them: one process at a time is past *)
(* the lock, and only such a process replaces the archive.                 *)

LEMMA SaverFields ==
    ASSUME NEW r \in Saver
    PROVE  /\ \A x \in {"idle", "lock", "compare", "rename", "release"} :
                  [r EXCEPT !.at = x] \in Saver
           /\ \A x \in ArchiveFiles \cup {NoArchive} : [r EXCEPT !.seen = x] \in Saver
           /\ \A x \in BOOLEAN : [r EXCEPT !.saved = x] \in Saver
  BY DEF Saver

LEMMA IdleType ==
    ASSUME NEW seen \in ArchiveFiles \cup {NoArchive}
    PROVE  /\ IdleSaver \in Saver /\ IdleSaver.at = "idle"
           /\ Client(seen) \in Saver /\ Client(seen).at = "idle"
  <1>1. IdleSaver \in Saver /\ IdleSaver.at = "idle"
    BY DEF IdleSaver, Saver
  <1>2. Client(seen) \in Saver
    BY <1>1, SaverFields DEF Client
  <1>3. Client(seen).at = "idle"
    BY <1>1 DEF Client, Saver
  <1>. QED
    BY <1>1, <1>2, <1>3

\* A process past the lock is alone there, and what a guarded save has compared is still what
\* it replaces.
Locked(p) == saver[p].at \in {"compare", "rename", "release"}

Alone ==
    /\ \A p \in Savers : Locked(p) => archiveLock
    /\ \A p, q \in Savers : Locked(p) /\ Locked(q) => p = q

Compared ==
    \A p \in Savers :
        saver[p].at = "rename" /\ saver[p].expected # NoArchive =>
            IsArchive(archive) /\ StateDigest(archive) = saver[p].expected

\* Every step of a process leaves it with a record of the type.
LEMMA ArchiveTypeStep ==
    ASSUME ArchiveTypeOK, NEW p \in Savers, NEW r \in Saver, saver' = [saver EXCEPT ![p] = r]
    PROVE  saver' \in [Savers -> Saver]
  BY DEF ArchiveTypeOK

ArchiveInv == ArchiveTypeOK /\ Alone /\ Compared

LEMMA ArchiveInitial == ArchiveInit => ArchiveInv
  <1>. SUFFICES ASSUME ArchiveInit
                PROVE  ArchiveInv
    OBVIOUS
  <1>1. IdleSaver \in Saver /\ IdleSaver.at = "idle"
    BY IdleType
  <1>2. \A p \in Savers : saver[p] = IdleSaver
    BY DEF ArchiveInit
  <1>3. saver \in [Savers -> Saver]
    BY <1>1 DEF ArchiveInit
  <1>4. 0 \in 0..MaxArchiveFaults
    BY ArchiveConstants
  <1>5. ArchiveTypeOK
    BY <1>3, <1>4 DEF ArchiveInit, ArchiveTypeOK
  <1>6. Alone /\ Compared
    BY <1>1, <1>2 DEF Alone, Compared, Locked
  <1>. QED
    BY <1>5, <1>6 DEF ArchiveInv

\* A process that goes on with r, while the archive, and what it may become, stay.
LEMMA QuietStep ==
    ASSUME ArchiveInv, NEW p \in Savers, NEW r \in Saver, saver' = [saver EXCEPT ![p] = r],
           UNCHANGED <<archive, onDisk>>, offered' \subseteq ArchiveFiles,
           archiveLock' \in BOOLEAN, archiveFaults' \in 0..MaxArchiveFaults,
           \/ r.at \notin {"compare", "rename", "release"} /\ archiveLock' = archiveLock
           \/ ~Locked(p) /\ ~archiveLock /\ archiveLock' /\ r.at = "compare"
           \/ Locked(p) /\ r.at \notin {"compare", "rename", "release"}
           \/ Locked(p) /\ archiveLock' = archiveLock,
           r.at = "rename" /\ r.expected # NoArchive =>
               IsArchive(archive) /\ StateDigest(archive) = r.expected
    PROVE  ArchiveInv'
  <1>1. saver' \in [Savers -> Saver]
    BY ArchiveTypeStep DEF ArchiveInv
  <1>2. \A q \in Savers : saver'[q] = IF q = p THEN r ELSE saver[q]
    BY DEF ArchiveInv, ArchiveTypeOK
  <1>3. ArchiveTypeOK'
    BY <1>1 DEF ArchiveInv, ArchiveTypeOK
  <1>4. Alone'
    BY <1>2 DEF ArchiveInv, Alone, Locked, ArchiveTypeOK
  <1>5. Compared'
    BY <1>2 DEF ArchiveInv, Compared
  <1>. QED
    BY <1>3, <1>4, <1>5 DEF ArchiveInv

LEMMA ArchiveStep ==
    ASSUME ArchiveInv, NEW p \in Savers,
           \/ LoadArchive(p) \/ BeginSave(p) \/ TakeArchiveLock(p)
           \/ CompareArchive(p) \/ RenameArchive(p) \/ ReleaseArchiveLock(p)
           \/ SaveFails(p) \/ ReleaseArchiveFails(p) \/ SaverCrashes(p)
    PROVE  ArchiveInv'
  <1>. USE DEF Locked
  <1>0. /\ saver[p] \in Saver /\ archive \in ArchiveFiles \cup {NoArchive, TornArchive}
        /\ saver[p].seen \in ArchiveFiles \cup {NoArchive}
        /\ saver[p].draft \in ArchiveFiles \cup {NoArchive}
        /\ archiveLock \in BOOLEAN /\ offered \subseteq ArchiveFiles
        /\ archiveFaults \in 0..MaxArchiveFaults
    BY DEF ArchiveInv, ArchiveTypeOK, Saver
  <1>1. CASE LoadArchive(p)
    <2>1. CASE Readable
      <3>1. archive \in ArchiveFiles \cup {NoArchive}
        BY <1>0, <2>1 DEF Readable
      <3>. QED
        BY <1>0, <1>1, <2>1, <3>1, IdleType, QuietStep DEF LoadArchive
    <2>2. CASE ~Readable
      BY <1>0, <1>1, <2>2, QuietStep DEF LoadArchive
    <2>. QED
      BY <2>1, <2>2
  <1>2. CASE BeginSave(p)
    <2> DEFINE seen == saver[p].seen
    <2>1. PICK e \in ArchiveEvents, guarded \in BOOLEAN :
             LET d == IF seen = NoArchive THEN <<e>> ELSE Append(seen, e) IN
             /\ seen = NoArchive => ~guarded
             /\ saver[p].at = "idle"
             /\ saver' = [saver EXCEPT ![p] = [at |-> "lock", seen |-> seen, draft |-> d,
                   expected |-> IF guarded THEN StateDigest(seen) ELSE NoArchive,
                   saved |-> FALSE]]
             /\ offered' = offered \union {d}
             /\ UNCHANGED <<archive, onDisk, archiveLock, archiveFaults>>
      BY <1>2 DEF BeginSave
    <2> DEFINE draft == IF seen = NoArchive THEN <<e>> ELSE Append(seen, e)
    <2>3. draft \in ArchiveFiles
      BY <1>0 DEF ArchiveFiles
        <2> DEFINE r == [at |-> "lock", seen |-> seen, draft |-> draft,
                     expected |-> IF guarded THEN StateDigest(seen) ELSE NoArchive,
                     saved |-> FALSE]
    <2>2. r \in Saver /\ r.at = "lock"
      <3> HIDE DEF draft
      <3>. QED
        BY <1>0, <2>1, <2>3 DEF Saver
    <2>4. /\ saver' = [saver EXCEPT ![p] = r] /\ offered' \subseteq ArchiveFiles
          /\ UNCHANGED <<archive, onDisk, archiveLock, archiveFaults>>
      BY <1>0, <2>1, <2>3
    <2> HIDE DEF r
    <2>. QED
      BY <1>0, <2>2, <2>4, QuietStep
  <1>3. CASE TakeArchiveLock(p)
    <2>1. CASE archiveLock
      BY <1>0, <1>3, <2>1, IdleType, QuietStep DEF TakeArchiveLock
    <2>2. CASE ~archiveLock
      <3> DEFINE r == [saver[p] EXCEPT !.at = "compare"]
      <3>1. r \in Saver /\ r.at = "compare"
        BY <1>0, SaverFields DEF Saver
      <3>. QED
        BY <1>0, <1>3, <2>2, <3>1, QuietStep DEF TakeArchiveLock
    <2>. QED
      BY <2>1, <2>2
  <1>4. CASE CompareArchive(p)
    <2>1. CASE \/ saver[p].expected = NoArchive
               \/ IsArchive(archive) /\ StateDigest(archive) = saver[p].expected
      <3> DEFINE r == [saver[p] EXCEPT !.at = "rename"]
      <3>1. r \in Saver /\ r.at = "rename" /\ r.expected = saver[p].expected
        BY <1>0, SaverFields DEF Saver
      <3>. QED
        BY <1>0, <1>4, <2>1, <3>1, QuietStep DEF CompareArchive
    <2>2. CASE ~(\/ saver[p].expected = NoArchive
                 \/ IsArchive(archive) /\ StateDigest(archive) = saver[p].expected)
      <3> DEFINE r == [saver[p] EXCEPT !.at = "release"]
      <3>1. r \in Saver /\ r.at = "release"
        BY <1>0, SaverFields DEF Saver
      <3>. QED
        BY <1>0, <1>4, <2>2, <3>1, QuietStep DEF CompareArchive
    <2>. QED
      BY <2>1, <2>2
  <1>5. CASE RenameArchive(p)
    <2> DEFINE s == [saver[p] EXCEPT !.at = "release"]
               r == [s EXCEPT !.saved = TRUE]
    <2>1. s \in Saver /\ s.at = "release"
      BY <1>0, SaverFields DEF Saver
    <2>2. r \in Saver /\ r.at = "release"
      <3> HIDE DEF s
      <3>. QED
        BY <2>1, SaverFields DEF Saver
    <2>3. saver' = [saver EXCEPT ![p] = r]
      BY <1>5 DEF RenameArchive, ArchiveInv, ArchiveTypeOK
    <2> HIDE DEF r
    <2>4. \A q \in Savers : saver'[q] = IF q = p THEN r ELSE saver[q]
      BY <2>3 DEF ArchiveInv, ArchiveTypeOK
    <2>5. ArchiveTypeOK'
      BY <1>0, <1>5, <2>2, <2>3 DEF RenameArchive, ArchiveInv, ArchiveTypeOK
    <2>6. Alone'
      BY <1>5, <2>2, <2>4 DEF RenameArchive, ArchiveInv, Alone
    <2>7. Compared'
      BY <1>5, <2>2, <2>4 DEF RenameArchive, ArchiveInv, Alone, Compared
    <2>. QED
      BY <2>5, <2>6, <2>7 DEF ArchiveInv
  <1>6. CASE ReleaseArchiveLock(p)
    BY <1>0, <1>6, IdleType, QuietStep DEF ReleaseArchiveLock
  <1>7. CASE SaveFails(p)
    <2> DEFINE r == [saver[p] EXCEPT !.at = "release"]
    <2>1. r \in Saver /\ r.at = "release"
      BY <1>0, SaverFields DEF Saver
    <2>2. /\ saver' = [saver EXCEPT ![p] = r] /\ Locked(p)
          /\ UNCHANGED <<archive, onDisk, archiveLock, offered>>
      BY <1>7 DEF SaveFails, ArchiveFault
    <2>3. archiveFaults' \in 0..MaxArchiveFaults
      BY <1>0, <1>7, ArchiveConstants DEF SaveFails, ArchiveFault
    <2> HIDE DEF r
    <2>. QED
      BY <1>0, <2>1, <2>2, <2>3, QuietStep
  <1>8. CASE ReleaseArchiveFails(p)
    <2> DEFINE r == Client(saver[p].seen)
    <2>1. r \in Saver /\ r.at = "idle"
      BY <1>0, IdleType
    <2>2. /\ saver' = [saver EXCEPT ![p] = r]
          /\ UNCHANGED <<archive, onDisk, archiveLock, offered>>
      BY <1>8 DEF ReleaseArchiveFails, ArchiveFault
    <2>3. archiveFaults' \in 0..MaxArchiveFaults
      BY <1>0, <1>8, ArchiveConstants DEF ReleaseArchiveFails, ArchiveFault
    <2> HIDE DEF r
    <2>. QED
      BY <1>0, <2>1, <2>2, <2>3, QuietStep
  <1>9. CASE SaverCrashes(p)
    <2>1. IdleSaver \in Saver /\ IdleSaver.at = "idle"
      BY IdleType
    <2>2. /\ saver' = [saver EXCEPT ![p] = IdleSaver]
          /\ UNCHANGED <<archive, onDisk, archiveLock, offered>>
      BY <1>9 DEF SaverCrashes, ArchiveFault
    <2>3. archiveFaults' \in 0..MaxArchiveFaults
      BY <1>0, <1>9, ArchiveConstants DEF SaverCrashes, ArchiveFault
    <2>. QED
      BY <1>0, <2>1, <2>2, <2>3, QuietStep
  <1>. QED
    BY <1>1, <1>2, <1>3, <1>4, <1>5, <1>6, <1>7, <1>8, <1>9

LEMMA ArchiveNextStep ==
    ASSUME ArchiveInv, [ArchiveNext]_archiveVars
    PROVE  ArchiveInv'
  <1>1. ASSUME NEW p \in Savers,
               \/ LoadArchive(p) \/ BeginSave(p) \/ TakeArchiveLock(p)
               \/ CompareArchive(p) \/ RenameArchive(p) \/ ReleaseArchiveLock(p)
               \/ SaveFails(p) \/ ReleaseArchiveFails(p) \/ SaverCrashes(p)
        PROVE  ArchiveInv'
    BY <1>1, ArchiveStep
  <1>2. CASE ArchivePowerLoss
    <2>1. \A p \in Savers : saver'[p] = IdleSaver
      BY <1>2 DEF ArchivePowerLoss
    <2>2. IdleSaver \in Saver /\ IdleSaver.at = "idle"
      BY IdleType
    <2>3. ArchiveTypeOK'
      BY <1>2, <2>2, ArchiveConstants
         DEF ArchivePowerLoss, ArchiveFault, ArchiveInv, ArchiveTypeOK
    <2>4. Alone' /\ Compared'
      BY <2>1, <2>2 DEF Alone, Compared, Locked
    <2>. QED
      BY <2>3, <2>4 DEF ArchiveInv
  <1>3. CASE UNCHANGED archiveVars
    BY <1>3 DEF archiveVars, ArchiveInv, ArchiveTypeOK, Alone, Compared, Locked
  <1>. QED
    BY <1>1, <1>2, <1>3 DEF ArchiveNext

\* Type correctness of the store's file, lock and savers (archive.ts).
THEOREM ArchiveTyped == ArchiveSpec => []ArchiveTypeOK
  <1>1. ArchiveInv => ArchiveTypeOK
    BY DEF ArchiveInv
  <1>. QED
    BY <1>1, ArchiveInitial, ArchiveNextStep, PTL DEF ArchiveSpec

\* A save that expects a state replaces exactly that state (archive.ts, save), for any number
\* of processes that save, fail and crash.
THEOREM GuardedSwap == ArchiveSpec => GuardedSavesSwap
  <1>1. Compared => (\A p \in Savers :
          /\ saver[p].at = "rename" /\ saver'[p].at = "release" /\ archive' # archive
          /\ saver[p].expected # NoArchive
          => IsArchive(archive) /\ StateDigest(archive) = saver[p].expected)
    BY DEF Compared
  <1>2. ArchiveInv => Compared
    BY DEF ArchiveInv
  <1>. QED
    BY <1>1, <1>2, ArchiveInitial, ArchiveNextStep, PTL DEF ArchiveSpec, GuardedSavesSwap
=============================================================================
