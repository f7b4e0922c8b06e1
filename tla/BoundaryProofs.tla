--------------------------- MODULE BoundaryProofs ---------------------------
(***************************************************************************)
(* Proofs about ModelProposal and ProposalBoundary, for every case, every  *)
(* proposal and every number of changes.                                   *)
(***************************************************************************)
EXTENDS ProposalBoundary, ProjectionProofs

----------------------------------------------------------------------------
(* The boundary: the schema and the compiler                               *)

\* A change of the catalogs' kinds, and what revises what.
NewTypes == {"retraction", "coordinate", "constraint"}

Revised(e) == IF e.type = "retraction" THEN {e.assertion} ELSE e.supersedes

\* What an event is made from shows in the event.
LEMMA EventOfFields ==
    ASSUME NEW h, NEW ch, ch.type \in NewTypes
    PROVE  LET e == EventOf(h, ch)
           IN /\ e.type = ch.type
              /\ ch.type = "retraction" => e.assertion = ch.assertion
              /\ ch.type # "retraction" =>
                     /\ e.context = ContextOf(h, ch) /\ e.bounds = ch.bounds
                     /\ e.supersedes = IF ch.assertion = Null THEN {} ELSE {ch.assertion}
              /\ ch.type = "coordinate" => e.point = ch.target.left
              /\ ch.type = "constraint" => e.from = ch.target.left /\ e.to = ch.target.right
  <1>1. CASE ch.type = "retraction"
    BY <1>1 DEF EventOf
  <1>2. CASE ch.type = "coordinate"
    BY <1>2 DEF EventOf
  <1>3. CASE ch.type = "constraint"
    BY <1>3 DEF EventOf
  <1>. QED
    BY <1>1, <1>2, <1>3 DEF NewTypes

\* A set of candidates is listed, each once.
LEMMA Listed ==
    ASSUME NEW S, IsFiniteSet(S)
    PROVE  LET s == SetToSeq(S)
           IN /\ s \in Seq(S) /\ Len(s) = Cardinality(S) /\ Cardinality(S) \in Nat
              /\ \A i, j \in 1..Len(s) : s[i] = s[j] => i = j
              /\ \A x \in S : \E i \in 1..Len(s) : s[i] = x
  <1>. PICK n : n = Cardinality(S)
    OBVIOUS
  <1>. PICK s : s = SetToSeq(S)
    OBVIOUS
  <1>1. n \in Nat /\ ExistsBijection(1..n, S)
    BY FS_CardinalityType
  <1>2. \E f \in [1..n -> S] : IsInjective(f)
    BY <1>1 DEF ExistsBijection, Bijection, Injection
  <1>3. s \in [1..n -> S] /\ IsInjective(s)
    BY <1>2 DEF SetToSeq
  <1>4. IsFiniteSet(1..n) /\ Cardinality(1..n) = n
    BY <1>1, FS_Interval
  <1>5. s \in Surjection(1..n, S)
    BY <1>3, <1>4, FS_Injection DEF Injection
  <1>6. s \in Seq(S) /\ Len(s) = n
    BY <1>1, <1>3
  <1>7. \A i, j \in 1..n : s[i] = s[j] => i = j
    BY <1>3 DEF IsInjective
  <1>8. \A x \in S : \E i \in 1..n : s[i] = x
    BY <1>5 DEF Surjection
  <1>. QED
    BY <1>1, <1>6, <1>7, <1>8

\* The candidate of one change of a proposal.
CandidateOf(h, p, k) == EventOf(h, p.changes[k])

\* A list holds the candidates of a proposal, each once.
Lists(h, p, s) ==
    /\ Len(s) \in Nat /\ Len(s) =< Len(p.changes)
    /\ \A i, j \in 1..Len(s) : s[i] = s[j] => i = j
    /\ \A i \in 1..Len(s) : \E k \in DOMAIN p.changes : s[i] = CandidateOf(h, p, k)
    /\ \A k \in DOMAIN p.changes : \E i \in 1..Len(s) : s[i] = CandidateOf(h, p, k)
    /\ \A Y : (\A k \in DOMAIN p.changes : CandidateOf(h, p, k) \in Y) => s \in Seq(Y)

\* The candidates of a proposal are the events of its changes, each once.
LEMMA CandidatesListed ==
    ASSUME NEW h, NEW p, NEW C, p.changes \in Seq(C)
    PROVE  Lists(h, p, CandidateEvents(h, p))
  <1>. PICK cs : cs = p.changes
    OBVIOUS
  <1>. PICK n : n = Len(cs)
    OBVIOUS
  <1>0. PICK E : E = {EventOf(h, cs[i]) : i \in 1..n}
    OBVIOUS
  <1>1. n \in Nat /\ DOMAIN cs = 1..n
    BY LenProperties
  <1>2. IsFiniteSet(1..n) /\ Cardinality(1..n) = n
    BY <1>1, FS_Interval
  <1>3. IsFiniteSet(E) /\ Cardinality(E) =< n
    <2>. PICK f : f = [i \in 1..n |-> EventOf(h, cs[i])]
      OBVIOUS
    <2>1. f \in Surjection(1..n, E)
      BY <1>0 DEF Surjection
    <2>. QED
      BY <1>2, <2>1, FS_Surjection
  <1>4. CandidateEvents(h, p) = SetToSeq(E)
    BY <1>0, <1>1 DEF CandidateEvents
  <1>7. PICK s : s = CandidateEvents(h, p)
    OBVIOUS
  <1>5. /\ s \in Seq(E) /\ Len(s) = Cardinality(E) /\ Cardinality(E) \in Nat
        /\ \A i, j \in 1..Len(s) : s[i] = s[j] => i = j
        /\ \A x \in E : \E i \in 1..Len(s) : s[i] = x
    <2>1. s = SetToSeq(E) /\ IsFiniteSet(E)
      BY <1>3, <1>4, <1>7
    <2>. QED
      BY <2>1, Listed
  <1>6. \A x : x \in E <=> \E k \in DOMAIN cs : x = EventOf(h, cs[k])
    BY <1>0, <1>1
  <1>8. \A i \in 1..Len(s) : s[i] \in E
    BY <1>5
  <1>9. Len(s) \in Nat /\ Len(s) =< Len(cs)
    BY <1>1, <1>3, <1>5
  <1>13. \A k : CandidateOf(h, p, k) = EventOf(h, cs[k])
    BY DEF CandidateOf
  <1>10. ASSUME NEW Y, \A k \in DOMAIN cs : CandidateOf(h, p, k) \in Y
         PROVE  s \in Seq(Y)
    <2>1. \A i \in 1..Len(s) : s[i] \in Y
      BY <1>6, <1>8, <1>10, <1>13
    <2>. QED
      BY <1>5, <2>1
  <1>11. \A i \in 1..Len(s) : \E k \in DOMAIN cs : s[i] = CandidateOf(h, p, k)
    BY <1>6, <1>8, <1>13
  <1>12. \A k \in DOMAIN cs : \E i \in 1..Len(s) : s[i] = CandidateOf(h, p, k)
    BY <1>5, <1>6, <1>13
  <1>. QED
    BY <1>5, <1>7, <1>9, <1>10, <1>11, <1>12 DEF Lists

\* The events before a place of a run.
LEMMA PrefixEvents ==
    \A X, run : run \in Seq(X) =>
        \A i \in 1..Len(run) :
            \A e : e \in Events(SubSeq(run, 1, i - 1)) <=> \E j \in 1..i - 1 : e = run[j]
  <1>. TAKE X, run
  <1>. HAVE run \in Seq(X)
  <1>. TAKE i \in 1..Len(run)
  <1>. PICK s : s = SubSeq(run, 1, i - 1)
    OBVIOUS
  <1>1. Len(run) \in Nat /\ i - 1 \in 0..Len(run)
    BY LenProperties
  <1>2. DOMAIN s = 1..i - 1 /\ \A j \in 1..i - 1 : s[j] = run[j]
    BY <1>1
  <1>. QED
    BY <1>2 DEF Events

\* The events of two runs behind one another.
LEMMA EventsOfConcat ==
    ASSUME NEW X, NEW base \in Seq(X), NEW list \in Seq(X)
    PROVE  /\ base \o list \in Seq(X)
           /\ Len(base) \in Nat /\ Len(list) \in Nat /\ Len(base \o list) = Len(base) + Len(list)
           /\ \A i \in 1..Len(base) : (base \o list)[i] = base[i]
           /\ \A i \in 1..Len(list) : (base \o list)[Len(base) + i] = list[i]
           /\ Events(base \o list) = Events(base) \cup Events(list)
  <1>. PICK run : run = base \o list
    OBVIOUS
  <1>1. /\ run \in Seq(X) /\ Len(base) \in Nat /\ Len(list) \in Nat
        /\ Len(run) = Len(base) + Len(list)
    BY ConcatProperties, LenProperties
  <1>2. /\ DOMAIN run = 1..Len(base) + Len(list)
        /\ DOMAIN base = 1..Len(base) /\ DOMAIN list = 1..Len(list)
    BY <1>1, LenProperties
  <1>3. /\ \A i \in 1..Len(base) : run[i] = base[i]
        /\ \A i \in 1..Len(list) : run[Len(base) + i] = list[i]
    BY <1>1, ConcatProperties
  <1>4. \A i \in 1..Len(base) + Len(list) :
            i \in 1..Len(base) \/ \E j \in 1..Len(list) : i = Len(base) + j
    <2>. SUFFICES ASSUME NEW i \in 1..Len(base) + Len(list), ~(i \in 1..Len(base))
                  PROVE  \E j \in 1..Len(list) : i = Len(base) + j
      OBVIOUS
    <2>1. i - Len(base) \in 1..Len(list) /\ i = Len(base) + (i - Len(base))
      BY <1>1
    <2>. QED
      BY <2>1
  <1>5. \A i \in 1..Len(list) : Len(base) + i \in 1..Len(base) + Len(list)
    BY <1>1
  <1>6. 1..Len(base) \subseteq 1..Len(base) + Len(list)
    BY <1>1
  <1>7. Events(run) = Events(base) \cup Events(list)
    <2>1. Events(run) = {run[i] : i \in 1..Len(base) + Len(list)}
      BY <1>2 DEF Events
    <2>2. Events(base) = {base[i] : i \in 1..Len(base)}
      BY <1>2 DEF Events
    <2>3. Events(list) = {list[i] : i \in 1..Len(list)}
      BY <1>2 DEF Events
    <2>4. ASSUME NEW i \in 1..Len(base) + Len(list)
          PROVE  run[i] \in Events(base) \cup Events(list)
      BY <1>3, <1>4, <2>2, <2>3
    <2>5. ASSUME NEW i \in 1..Len(base) PROVE base[i] \in Events(run)
      BY <1>3, <1>6, <2>1
    <2>6. ASSUME NEW i \in 1..Len(list) PROVE list[i] \in Events(run)
      <3>1. list[i] = run[Len(base) + i] /\ Len(base) + i \in 1..Len(base) + Len(list)
        BY <1>3, <1>5
      <3>. QED
        BY <2>1, <3>1
    <2>. QED
      BY <2>1, <2>2, <2>3, <2>4, <2>5, <2>6
  <1>. QED
    BY <1>1, <1>3, <1>7

\* A list of elements of one set.
LEMMA ListTyped ==
    \A X, Y, list : list \in Seq(X) /\ (\A i \in 1..Len(list) : list[i] \in Y) => list \in Seq(Y)
  OBVIOUS

\* Two places of a run behind its first n.
LEMMA OrderOrBefore ==
    ASSUME NEW n \in Nat, NEW m \in Nat, NEW i \in 1..m, NEW j \in 1..m
    PROVE  \/ i \in n + 1..m /\ j \in 1..i - 1
           \/ j \in n + 1..m /\ i \in 1..j - 1
           \/ i \in 1..n /\ j \in 1..n
           \/ i = j
  <1>1. CASE i < j
    <2>1. i \in 1..j - 1
      BY <1>1
    <2>2. j \in n + 1..m \/ (i \in 1..n /\ j \in 1..n)
      BY <1>1
    <2>. QED
      BY <2>1, <2>2
  <1>2. CASE j < i
    <2>1. j \in 1..i - 1
      BY <1>2
    <2>2. i \in n + 1..m \/ (i \in 1..n /\ j \in 1..n)
      BY <1>2
    <2>. QED
      BY <2>1, <2>2
  <1>. QED
    BY <1>1, <1>2

\* A coherent run and events that fit it, one after the other, are a coherent run;
\* what they declare is new.
LEMMA CoherentGrows ==
    ASSUME NEW X, NEW base \in Seq(X), NEW list \in Seq(X), Coherent(base),
           \A i \in 1..Len(list) : list[i].type \in NewTypes,
           RunFits(base, base \o list)
    PROVE  /\ Coherent(base \o list)
           /\ \A e \in Events(list) : e.type # "retraction" => e.id \notin TemporalIds(base)
  <1>. PICK run : run = base \o list
    OBVIOUS
  <1>. PICK n : n = Len(base)
    OBVIOUS
  <1>. PICK m : m = Len(run)
    OBVIOUS
  <1>1. /\ run \in Seq(X) /\ n \in Nat /\ m \in Nat /\ m = n + Len(list) /\ Len(list) \in Nat
        /\ \A i \in 1..n : run[i] = base[i]
        /\ \A i \in 1..Len(list) : run[n + i] = list[i]
        /\ Events(run) = Events(base) \cup Events(list)
    BY EventsOfConcat
  <1>2. DOMAIN run = 1..m /\ DOMAIN base = 1..n /\ DOMAIN list = 1..Len(list)
    BY <1>1, LenProperties
  <1>3. /\ Events(run) = {run[i] : i \in 1..m} /\ Events(base) = {run[i] : i \in 1..n}
        /\ Events(list) = {list[i] : i \in 1..Len(list)}
    <2>1. Events(run) = {run[i] : i \in 1..m}
      BY <1>2 DEF Events
    <2>2. Events(base) = {base[i] : i \in 1..n}
      BY <1>2 DEF Events
    <2>3. Events(list) = {list[i] : i \in 1..Len(list)}
      BY <1>2 DEF Events
    <2>. QED
      BY SMTT(40), <1>1, <2>1, <2>2, <2>3
  <1>4. \A i \in n + 1..m : run[i].type \in NewTypes /\ run[i] \in Events(list)
    <2>. TAKE i \in n + 1..m
    <2>1. i - n \in 1..Len(list) /\ n + (i - n) = i
      BY <1>1
    <2>2. run[i] = list[i - n]
      BY <1>1, <2>1
    <2>. QED
      BY <1>3, <2>1, <2>2
  <1>5. \A i \in n + 1..m : EventFits(SubSeq(run, 1, i - 1), run[i])
    BY DEF RunFits
  <1>6. ASSUME NEW i \in n + 1..m
        PROVE  \A e : e \in Events(SubSeq(run, 1, i - 1)) <=> \E j \in 1..i - 1 : e = run[j]
    <2>1. i \in 1..Len(run) /\ run \in Seq(X)
      BY <1>1
    <2>. QED
      BY ZenonT(40), <2>1, PrefixEvents
  <1>7. ASSUME NEW i \in n + 1..m, NEW j \in 1..i - 1,
               run[i].type # "retraction", run[j].type # "retraction"
        PROVE  run[j].id # run[i].id
    <2>1. run[i].id \notin TemporalIds(SubSeq(run, 1, i - 1))
      BY <1>4, <1>5, <1>7 DEF EventFits, NewTypes
    <2>. QED
      BY <1>6, <1>7, <2>1 DEF TemporalIds, Retractions
  <1>8. ASSUME NEW i \in n + 1..m
        PROVE  Revised(run[i]) \subseteq Ids(Assertions(run))
    <2>. PICK before : before = SubSeq(run, 1, i - 1)
      OBVIOUS
    <2>1. Assertions(before) \subseteq Assertions(run)
      <3>1. 1..i - 1 \subseteq 1..m
        BY <1>1
      <3>. QED
        BY <1>3, <1>6, <3>1 DEF Assertions
    <2>2. Revised(run[i]) \subseteq Ids(Assertions(before))
      <3>. PICK e : e = run[i]
        OBVIOUS
      <3>1. EventFits(before, e) /\ e.type \in NewTypes
        BY <1>4, <1>5
      <3>2. CASE e.type = "retraction"
        BY <3>1, <3>2 DEF EventFits, Revised, Ids
      <3>3. CASE e.type \in {"coordinate", "constraint"}
        <4>1. MaySupersede(before, e.type, e.context, e.supersedes) /\ Revised(e) = e.supersedes
          BY <3>1, <3>3 DEF EventFits, Revised
        <4>. QED
          BY <4>1 DEF MaySupersede, Ids
      <3>. QED
        BY <3>1, <3>2, <3>3 DEF NewTypes
    <2>. QED
      BY <2>1, <2>2 DEF Ids
  <1>9. 1..n \subseteq 1..m /\ \A i \in 1..m : i \in 1..n \/ i \in n + 1..m
    BY <1>1
  <1>10. ASSUME NEW i \in 1..m, NEW j \in 1..m, run[i].type # "retraction",
                run[j].type # "retraction", run[i].id = run[j].id
         PROVE  run[i] = run[j]
    <2>1. CASE i \in n + 1..m /\ j \in 1..i - 1
      BY <1>7, <1>10, <2>1
    <2>2. CASE j \in n + 1..m /\ i \in 1..j - 1
      BY <1>7, <1>10, <2>2
    <2>3. CASE i \in 1..n /\ j \in 1..n
      BY <1>3, <1>10, <2>3 DEF Coherent, Retractions
    <2>4. CASE i = j
      BY <2>4
    <2>5. \/ i \in n + 1..m /\ j \in 1..i - 1
          \/ j \in n + 1..m /\ i \in 1..j - 1
          \/ i \in 1..n /\ j \in 1..n
          \/ i = j
      BY <1>1, OrderOrBefore
    <2>. QED
      BY <2>1, <2>2, <2>3, <2>4, <2>5
  <1>11. Retracted(run) \cup Superseded(run) \subseteq Ids(Assertions(run))
    <2>1. Ids(Assertions(base)) \subseteq Ids(Assertions(run))
      BY <1>1 DEF Ids, Assertions
    <2>2. ASSUME NEW i \in 1..m, run[i].type = "retraction"
          PROVE  run[i].assertion \in Ids(Assertions(run))
      <3>1. CASE i \in 1..n
        BY <1>3, <2>1, <2>2, <3>1 DEF Coherent, Retracted, Retractions
      <3>2. CASE i \in n + 1..m
        BY <1>8, <2>2, <3>2 DEF Revised
      <3>. QED
        BY <1>9, <3>1, <3>2
    <2>3. ASSUME NEW i \in 1..m, run[i].type \in Kinds
          PROVE  run[i].supersedes \subseteq Ids(Assertions(run))
      <3>1. CASE i \in 1..n
        <4>1. run[i] \in Assertions(base)
          BY <1>3, <2>3, <3>1 DEF Assertions
        <4>2. run[i].supersedes \subseteq Ids(Assertions(base))
          BY <4>1 DEF Coherent, Superseded
        <4>. QED
          BY <2>1, <4>2
      <3>2. CASE i \in n + 1..m
        BY <1>8, <2>3, <3>2 DEF Revised, Kinds
      <3>. QED
        BY <1>9, <3>1, <3>2
    <2>. QED
      <3>1. Retracted(run) \subseteq Ids(Assertions(run))
        BY <1>3, <2>2 DEF Retracted, Retractions
      <3>2. \A a \in Assertions(run) : a.supersedes \subseteq Ids(Assertions(run))
        BY <1>3, <2>3 DEF Assertions
      <3>. QED
        BY <3>1, <3>2 DEF Superseded
  <1>12. ListOf(run)
    <2>1. \A i \in 1..m : run[i] \in Events(run)
      BY <1>3
    <2>. PICK E : E = Events(run)
      OBVIOUS
    <2>2. run \in Seq(E)
      BY <1>1, <2>1, ListTyped
    <2>. QED
      BY <2>2 DEF ListOf
  <1>13. Coherent(run)
    <2>1. \A x, y \in Events(run) \ Retractions(run) : x.id = y.id => x = y
      BY <1>3, <1>10 DEF Retractions
    <2>. QED
      BY <1>11, <1>12, <2>1 DEF Coherent
  <1>14. ASSUME NEW k \in 1..Len(list), list[k].type # "retraction"
         PROVE  list[k].id \notin TemporalIds(base)
    <2>1. n + k \in n + 1..m /\ 1..n \subseteq 1..(n + k) - 1
      BY <1>1
    <2>2. run[n + k] = list[k]
      BY <1>1
    <2>3. \A j \in 1..n : run[j].type # "retraction" => run[j].id # list[k].id
      BY <1>7, <1>14, <2>1, <2>2
    <2>. QED
      BY <1>3, <2>3 DEF TemporalIds, Retractions
  <1>. QED
    BY <1>3, <1>13, <1>14

----------------------------------------------------------------------------
(* What the schema admits and what compiles                                *)

\* The changes a model may answer with are of the three kinds.
LEMMA ChangeTypes ==
    ASSUME NEW h, NEW ch \in Changes(h)
    PROVE  ch.type \in NewTypes
  BY DEF Changes, NewTypes

\* The hosts of a property: the run of the case, all of its references and more.
LEMMA HostIs ==
    ASSUME NEW h \in Hosts
    PROVE  h.run = events /\ ReferenceScope(events) \subseteq h.references
  BY DEF Hosts, Observation, ObservationAt, HostAt, Trajectory

\* A proposal of one change compiles only if the change resolves.
LEMMA SingleCompiles ==
    ASSUME NEW h, NEW ch, NEW q, Compiles(h, Propose(<<ch>>, q))
    PROVE  WellFormed(ch) /\ Resolved(h, ch)
  <1>. PICK p : p = Propose(<<ch>>, q)
    OBVIOUS
  <1>1. 1 \in DOMAIN p.changes /\ p.changes[1] = ch
    BY DEF Propose
  <1>. QED
    BY <1>1 DEF Compiles

\* The context of a change is that of a point its target names first.
LEMMA ContextOfPoint ==
    ASSUME NEW h, NEW ch, PointWith(h.run, ch.target.left) # {}
    PROVE  \E p \in PointWith(h.run, ch.target.left) : ContextOf(h, ch) = p.context
  BY DEF ContextOf

\* A revision that resolves is one the target's variant of the schema names.
LEMMA FitIsMatch ==
    ASSUME NEW h, NEW a, NEW ch, ch.type \in NewTypes \ {"retraction"},
           ch.target.type = TargetType(ch), PointWith(h.run, ch.target.left) # {},
           RevisionFits(a, ContextOf(h, ch), ch)
    PROVE  MatchesTarget(h.run, a, ch.target)
  <1>1. \E p \in PointWith(h.run, ch.target.left) : a.context = p.context
    BY ContextOfPoint DEF RevisionFits
  <1>2. CASE ch.type = "coordinate"
    BY <1>1, <1>2 DEF RevisionFits, MatchesTarget, TargetType
  <1>3. CASE ch.type = "constraint"
    BY <1>1, <1>3 DEF RevisionFits, MatchesTarget, TargetType
  <1>. QED
    BY <1>2, <1>3 DEF NewTypes

\* The schema hides nothing that compiles but what exceeds its caps:
\* createTemporalModelProposalOutputSchemaV1 and compileTemporalModelProposalV1 agree
\* on it for every run, every catalog, all limits and caps, and every change and
\* query, odd references included.
THEOREM SchemaHidesNothing == BoundarySpec => []SchemaAdmitsCompiled
  <1>1. SchemaAdmitsCompiled
    <2>. SUFFICES ASSUME NEW h \in Hosts, SchemaIssued(h)
                  PROVE  /\ \A ch \in Changes(h) :
                                Compiles(h, Propose(<<ch>>, AnyQuery(h))) =>
                                    IF Len(ch.supports) =< SupportsCap
                                    THEN ChangeInSchema(h, ch)
                                    ELSE /\ Len(ch.supports) =< MaxSupports
                                         /\ ~ChangeInSchema(h, ch)
                         /\ \A q \in Queries(h) :
                                Compiles(h, Propose(<<>>, q)) => QueryInSchema(h, q)
      BY DEF SchemaAdmitsCompiled
    <2>1. ASSUME NEW ch \in Changes(h), Compiles(h, Propose(<<ch>>, AnyQuery(h))),
                 Len(ch.supports) =< SupportsCap
          PROVE  ChangeInSchema(h, ch)
      <3>1. WellFormed(ch) /\ Resolved(h, ch) /\ ch.type \in NewTypes
        BY <2>1, SingleCompiles, ChangeTypes
      <3>2. /\ Len(ch.supports) \in 1..SchemaMaxSupports
            /\ \A s \in ToSet(ch.supports) : s.evidence \in h.current
        <4>1. Len(ch.supports) \in 1..MaxSupports
          BY <3>1 DEF WellFormed
        <4>2. Len(ch.supports) \in 1..SchemaMaxSupports
          BY <2>1, <4>1 DEF SchemaMaxSupports
        <4>. QED
          BY <3>1, <4>2 DEF Resolved, Supported
      <3>3. CASE ch.type = "retraction"
        <4>1. \E a \in ActiveHandles(h) : a.id = ch.assertion
          BY <3>1, <3>3 DEF Resolved, ResolvedAssertions, ActiveHandles
        <4>. QED
          BY <3>2, <3>3, <4>1 DEF ChangeInSchema
      <3>4. CASE ch.type # "retraction"
        <4>1. /\ ch.target \in h.references /\ ch.target.type = TargetType(ch)
              /\ PointWith(h.run, ch.target.left) # {}
              /\ \/ ch.assertion = Null
                 \/ \E a \in ResolvedAssertions(h, ch.assertion) :
                        RevisionFits(a, ContextOf(h, ch), ch)
          BY <3>1, <3>4 DEF Resolved, ReferenceResolves
        <4>2. ASSUME NEW a \in ResolvedAssertions(h, ch.assertion),
                     RevisionFits(a, ContextOf(h, ch), ch)
              PROVE  /\ a \in ActiveHandles(h) /\ a.id = ch.assertion
                     /\ MatchesTarget(h.run, a, ch.target)
          <5>1. a \in ActiveHandles(h) /\ a.id = ch.assertion
            BY DEF ResolvedAssertions, ActiveHandles
          <5>2. MatchesTarget(h.run, a, ch.target)
            BY <3>1, <3>4, <4>1, <4>2, FitIsMatch
          <5>. QED
            BY <5>1, <5>2
        <4>. QED
          BY <3>2, <3>4, <4>1, <4>2 DEF ChangeInSchema
      <3>. QED
        BY <3>3, <3>4
    <2>2. ASSUME NEW q \in Queries(h), Compiles(h, Propose(<<>>, q))
          PROVE  QueryInSchema(h, q)
      <3>. PICK p : p = Propose(<<>>, q)
        OBVIOUS
      <3>1. p.query = q
        BY DEF Propose
      <3>. QED
        BY <2>2, <3>1 DEF Compiles, QueryCompiles, ReferenceResolves, QueryInSchema
    <2>3. ASSUME NEW ch \in Changes(h), Compiles(h, Propose(<<ch>>, AnyQuery(h))),
                 ~(Len(ch.supports) =< SupportsCap)
          PROVE  Len(ch.supports) =< MaxSupports /\ ~ChangeInSchema(h, ch)
      <3>1. WellFormed(ch)
        BY <2>3, SingleCompiles
      <3>2. Len(ch.supports) \in 1..MaxSupports
        BY <3>1 DEF WellFormed
      <3>3. Len(ch.supports) \notin 1..SchemaMaxSupports
        <4>1. MaxSupports \in Nat /\ SupportsCap \in Nat
          BY ProposalConstants
        <4>. QED
          BY <2>3, <3>2, <4>1 DEF SchemaMaxSupports
      <3>4. Len(ch.supports) =< MaxSupports
        <4>1. MaxSupports \in Nat
          BY ProposalConstants
        <4>. QED
          BY <3>2, <4>1
      <3>. QED
        BY <3>3, <3>4 DEF ChangeInSchema
    <2>. QED
      BY <2>1, <2>2, <2>3
  <1>. QED
    BY <1>1, PTL

\* A run under more events is the run.
LEMMA PrefixIsBase ==
    ASSUME NEW X, NEW base \in Seq(X), NEW list \in Seq(X)
    PROVE  SubSeq(base \o list, 1, Len(base)) = base
  <1>. PICK run : run = base \o list
    OBVIOUS
  <1>1. /\ run \in Seq(X) /\ Len(base) \in Nat /\ Len(list) \in Nat
        /\ Len(run) = Len(base) + Len(list) /\ \A i \in 1..Len(base) : run[i] = base[i]
    BY EventsOfConcat
  <1>. PICK s : s = SubSeq(run, 1, Len(base))
    OBVIOUS
  <1>2. s \in Seq(X) /\ Len(s) = Len(base) /\ \A i \in 1..Len(base) : s[i] = run[i]
    BY <1>1
  <1>3. \A i \in 1..Len(base) : s[i] = base[i]
    BY <1>1, <1>2
  <1>. QED
    BY <1>2, <1>3, SeqEqual

\* In a coherent run an identifier is that of one point or of one assertion.
LEMMA OnePoint ==
    ASSUME NEW run, Coherent(run), NEW id, NEW p \in PointWith(run, id),
           NEW q \in PointWith(run, id)
    PROVE  p = q
  BY DEF Coherent, PointWith, Points, Retractions

LEMMA OneAssertion ==
    ASSUME NEW run, Coherent(run), NEW a \in Assertions(run), NEW b \in Assertions(run),
           a.id = b.id
    PROVE  a = b
  BY DEF Coherent, Assertions, Retractions, Kinds

\* What a target's variant of the schema names may be revised, and the event that
\* revises it fits the run, unless its identifier is taken.
LEMMA AdmittedFits ==
    ASSUME NEW h, Coherent(h.run), \A ref \in h.references : ReferenceFits(h.run, ref),
           NEW ch, ch.type \in NewTypes, ChangeInSchema(h, ch), WellFormed(ch), Supported(h, ch),
           ch.type # "retraction" => EventOf(h, ch).id \notin TemporalIds(h.run)
    PROVE  Resolved(h, ch) /\ EventFits(h.run, EventOf(h, ch))
  <1>. PICK e : e = EventOf(h, ch)
    OBVIOUS
  <1>. PICK run : run = h.run
    OBVIOUS
  <1>1. /\ e.type = ch.type
        /\ ch.type = "retraction" => e.assertion = ch.assertion
        /\ ch.type # "retraction" =>
               /\ e.context = ContextOf(h, ch) /\ e.bounds = ch.bounds
               /\ e.supersedes = IF ch.assertion = Null THEN {} ELSE {ch.assertion}
        /\ ch.type = "coordinate" => e.point = ch.target.left
        /\ ch.type = "constraint" => e.from = ch.target.left /\ e.to = ch.target.right
    BY EventOfFields
  <1>2. CASE ch.type = "retraction"
    <2>1. PICK a \in ActiveHandles(h) : a.id = ch.assertion
      BY <1>2 DEF ChangeInSchema
    <2>2. a \in ResolvedAssertions(h, ch.assertion) /\ a \in Assertions(run)
      BY <2>1 DEF ActiveHandles, ResolvedAssertions, Active
    <2>3. Resolved(h, ch)
      BY <1>2, <2>2 DEF Resolved
    <2>4. EventFits(run, e)
      BY <1>1, <1>2, <2>1, <2>2 DEF EventFits
    <2>. QED
      BY <2>3, <2>4
  <1>3. ASSUME ch.type # "retraction"
        PROVE  Resolved(h, ch) /\ EventFits(run, e)
    <2>. PICK c : c = ContextOf(h, ch)
      OBVIOUS
    <2>. PICK left : left = ch.target.left
      OBVIOUS
    <2>1. /\ ch.target \in h.references /\ ch.target.type = TargetType(ch)
          /\ \/ ch.assertion = Null
             \/ \E a \in ActiveHandles(h) :
                    a.id = ch.assertion /\ MatchesTarget(run, a, ch.target)
      BY <1>3 DEF ChangeInSchema
    <2>2. ReferenceFits(run, ch.target)
      BY <2>1
    <2>3. PointWith(run, left) # {}
      BY <1>3, <2>1, <2>2 DEF ReferenceFits, TargetType, NewTypes, Ends
    <2>4. PICK p \in PointWith(run, left) : c = p.context
      BY <2>3, ContextOfPoint
    <2>5. ASSUME NEW a \in ActiveHandles(h), a.id = ch.assertion, MatchesTarget(run, a, ch.target)
          PROVE  /\ a \in ResolvedAssertions(h, ch.assertion) /\ a \in Assertions(run)
                 /\ a.type = ch.type /\ a.context = c /\ RevisionFits(a, c, ch)
      <3>1. a \in ResolvedAssertions(h, ch.assertion) /\ a \in Assertions(run)
        BY <2>5 DEF ActiveHandles, ResolvedAssertions, Active
      <3>2. \E q \in PointWith(run, left) : a.context = q.context
        BY <2>5 DEF MatchesTarget
      <3>3. a.context = c
        BY <2>4, <3>2, OnePoint
      <3>4. a.type = ch.type
        BY <1>3, <2>1, <2>5 DEF MatchesTarget, TargetType, NewTypes
      <3>5. RevisionFits(a, c, ch)
        BY <1>3, <2>1, <2>5, <3>3, <3>4 DEF MatchesTarget, RevisionFits, TargetType, NewTypes
      <3>. QED
        BY <3>1, <3>3, <3>4, <3>5
    <2>6. Resolved(h, ch)
      BY <1>3, <2>1, <2>3, <2>5 DEF Resolved, ReferenceResolves
    <2>7. PointIn(run, left, c)
      BY <2>4 DEF PointIn, PointWith
    <2>8. MaySupersede(run, ch.type, c, e.supersedes)
      BY <1>1, <1>3, <2>1, <2>5 DEF MaySupersede
    <2>9. ValidBounds(e.bounds) /\ e.id \notin TemporalIds(run)
      BY <1>1, <1>3 DEF WellFormed
    <2>10. CASE ch.type = "coordinate"
      <3>1. \A a \in Assertions(run) : a.id \in e.supersedes => a.point = e.point
        <4>. SUFFICES ASSUME NEW a \in Assertions(run), a.id \in e.supersedes
                      PROVE  a.point = e.point
          OBVIOUS
        <4>1. PICK b \in ActiveHandles(h) :
                  b.id = ch.assertion /\ MatchesTarget(run, b, ch.target) /\ a.id = b.id
          BY <1>1, <1>3, <2>1
        <4>2. b \in Assertions(run) /\ RevisionFits(b, c, ch)
          BY <2>5, <4>1
        <4>3. a = b
          BY <4>1, <4>2, OneAssertion
        <4>. QED
          BY <1>1, <2>10, <4>2, <4>3 DEF RevisionFits
      <3>2. EventFits(run, e)
        BY <1>1, <2>7, <2>8, <2>9, <2>10, <3>1 DEF EventFits
      <3>. QED
        BY <2>6, <3>2
    <2>11. CASE ch.type = "constraint"
      <3>. PICK right : right = ch.target.right
        OBVIOUS
      <3>1. PICK l \in PointWith(run, left), r \in PointWith(run, right) :
                l.context = r.context /\ l.axis = r.axis
        BY <2>1, <2>2, <2>11 DEF ReferenceFits, TargetType, Ends
      <3>2. l = p
        BY <2>4, <3>1, OnePoint
      <3>3. PointIn(run, right, c)
        BY <2>4, <3>1, <3>2 DEF PointIn, PointWith
      <3>4. SameAxis(run, left, right)
        <4>. SUFFICES ASSUME NEW x \in Points(run), NEW y \in Points(run), x.id = left, y.id = right
                      PROVE  x.axis = y.axis
          BY DEF SameAxis
        <4>1. x \in PointWith(run, left) /\ y \in PointWith(run, right)
          BY DEF PointWith
        <4>2. x = l /\ y = r
          BY <3>1, <4>1, OnePoint
        <4>. QED
          BY <3>1, <4>2
      <3>5. EventFits(run, e)
        BY <1>1, <2>7, <2>8, <2>9, <2>11, <3>3, <3>4 DEF EventFits
      <3>. QED
        BY <2>6, <3>5
    <2>. QED
      BY <1>3, <2>10, <2>11 DEF NewTypes
  <1>. QED
    BY <1>2, <1>3

\* The candidate of one change, and of none.
LEMMA OneCandidate ==
    ASSUME NEW h, NEW ch, NEW q
    PROVE  \A s : s = CandidateEvents(h, Propose(<<ch>>, q)) =>
               Len(s) = 1 /\ s[1] = EventOf(h, ch) /\ \E Y : s \in Seq(Y)
  <1>1. PICK p : p = Propose(<<ch>>, q)
    OBVIOUS
  <1>2. PICK cs : cs = p.changes
    OBVIOUS
  <1>3. DOMAIN cs = {1} /\ cs[1] = ch
    BY <1>1, <1>2 DEF Propose
  <1>4. PICK e : e = EventOf(h, ch)
    OBVIOUS
  <1>5. PICK S : S = {e}
    OBVIOUS
  <1>6. CandidateEvents(h, p) = SetToSeq(S)
    <2>1. {EventOf(h, cs[i]) : i \in DOMAIN cs} = S
      BY <1>3, <1>4, <1>5
    <2>. QED
      BY <1>2, <2>1 DEF CandidateEvents
  <1>7. IsFiniteSet(S) /\ Cardinality(S) = 1
    BY <1>5, FS_Singleton
  <1>8. PICK s : s = SetToSeq(S)
    OBVIOUS
  <1>9. s \in Seq(S) /\ Len(s) = 1
    BY <1>7, <1>8, Listed
  <1>10. s[1] = e
    BY <1>5, <1>9
  <1>. QED
    BY <1>1, <1>4, <1>6, <1>8, <1>9, <1>10

LEMMA NoCandidate ==
    ASSUME NEW h, NEW q
    PROVE  \A s : s = CandidateEvents(h, Propose(<<>>, q)) => s = <<>>
  <1>. PICK p : p = Propose(<<>>, q)
    OBVIOUS
  <1>1. p.changes = <<>>
    BY DEF Propose
  <1>2. p.changes \in Seq({})
    BY <1>1, EmptySeq
  <1>3. Len(p.changes) = 0 /\ DOMAIN p.changes = {}
    BY <1>1, EmptySeq
  <1>4. PICK s : s = CandidateEvents(h, p)
    OBVIOUS
  <1>5. Lists(h, p, s)
    BY <1>2, <1>4, CandidatesListed
  <1>6. s \in Seq({}) /\ Len(s) = 0
    BY <1>3, <1>5 DEF Lists
  <1>7. s = <<>>
    BY <1>6, EmptySeq
  <1>. QED
    BY <1>4, <1>7

\* The question that asks about nothing but a context is among the queries.
LEMMA AnyQueryIs ==
    ASSUME NEW h \in Hosts
    PROVE  LET q == AnyQuery(h)
           IN q.type = "context" /\ q.cut = Null /\ QueryInSchema(h, q)
  <1>1. PICK c \in Contexts : TRUE
    BY BoundaryConstants
  <1>7. PICK ref : ref = [type |-> "context", left |-> c, right |-> Null]
    OBVIOUS
  <1>2. ref \in ReferenceScope(events)
    <2>1. ref.left # ref.right /\ ReferenceFits(events, ref)
      BY <1>7, BoundaryConstants DEF ReferenceFits
    <2>. QED
      BY <1>7, <2>1 DEF ReferenceScope
  <1>3. h.run = events /\ ref \in h.references
    BY <1>2, HostIs
  <1>6. PICK q : q = [type |-> "context", target |-> ref, cut |-> Null]
    OBVIOUS
  <1>4. q \in Queries(h)
    <2>1. "context" \in QueryTypes
      BY DEF QueryTypes
    <2>2. ref \in Targets(h)
      BY <1>2, <1>3 DEF Targets
    <2>3. Null \in 0..Len(h.run) \cup {Null}
      OBVIOUS
    <2>. QED
      BY <1>6, <2>1, <2>2, <2>3 DEF Queries
  <1>5. q.type = "context" /\ q.cut = Null /\ QueryInSchema(h, q)
    BY <1>3, <1>6, <1>7 DEF QueryInSchema
  <1>. QED
    BY <1>4, <1>5 DEF AnyQuery

\* A query that the schema admits can be put to a run that holds the one the schema
\* was made for, if its cut is a prior one at which its target is declared.
LEMMA AdmittedQuery ==
    ASSUME NEW h, \A ref \in h.references : ReferenceFits(h.run, ref),
           NEW X, h.run \in Seq(X), NEW list \in Seq(X),
           NEW q, q.type \in QueryTypes, QueryInSchema(h, q), q.type = "context" \/ list = <<>>,
           q.cut # Null =>
               q.cut < Len(h.run \o list) /\ h.run # <<>> /\ QueryFits(h.run \o list, q.target, q.cut)
    PROVE  QueryCompiles(h, q, h.run \o list)
  <1>. PICK run : run = h.run \o list
    OBVIOUS
  <1>1. q.target \in h.references /\ q.target.type = q.type /\ (q.cut = Null \/ q.cut \in h.cuts)
    BY DEF QueryInSchema
  <1>2. ReferenceFits(h.run, q.target)
    BY <1>1
  <1>3. QueryFits(run, q.target, Len(run))
    <2>1. CASE q.type = "context"
      BY <1>1, <1>2, <2>1 DEF ReferenceFits, QueryFits
    <2>2. CASE q.type # "context"
      <3>1. run = h.run
        BY <2>2
      <3>2. SubSeq(run, 1, Len(run)) = run
        BY <3>1, SubSeqFull
      <3>. QED
        BY ZenonT(40), <1>1, <1>2, <2>2, <3>1, <3>2 DEF ReferenceFits, QueryFits, QueryTypes
    <2>. QED
      BY <2>1, <2>2
  <1>. QED
    BY <1>1, <1>3 DEF QueryCompiles, ReferenceResolves

\* Applying a proposal appends its candidates, and it compiled.
LEMMA ApplyAppends ==
    ASSUME NEW p, Apply(p)
    PROVE  /\ Observation.run = events /\ Compiles(Observation, p)
           /\ events' = events \o CandidateEvents(Observation, p)
  BY DEF Apply, Becomes, Completed, Staged, Trajectory, Observation, ObservationAt, HostAt

\* What a proposal that compiles appends: events of the kinds a change makes, that
\* fit the run.
LEMMA CompiledFits ==
    ASSUME NEW h, ListOf(h.run), NEW p, NEW C, p.changes \in Seq(C), Compiles(h, p),
           \A i \in DOMAIN p.changes : p.changes[i].type \in NewTypes
    PROVE  \A list : list = CandidateEvents(h, p) =>
               /\ \E X : h.run \in Seq(X) /\ list \in Seq(X)
               /\ \A i \in 1..Len(list) : list[i].type \in NewTypes
               /\ RunFits(h.run, h.run \o list)
  <1>1. PICK list : list = CandidateEvents(h, p)
    OBVIOUS
  <1>2. Lists(h, p, list)
    BY <1>1, CandidatesListed
  <1>3. \E X : h.run \in Seq(X) /\ list \in Seq(X)
    <2>1. PICK Y : Y = {CandidateOf(h, p, k) : k \in DOMAIN p.changes}
      OBVIOUS
    <2>2. list \in Seq(Y)
      BY <1>2, <2>1 DEF Lists
    <2>3. PICK E : h.run \in Seq(E)
      BY DEF ListOf
    <2>4. h.run \in Seq(E \cup Y) /\ list \in Seq(E \cup Y)
      BY <2>2, <2>3
    <2>. QED
      BY <2>4
  <1>4. ASSUME NEW i \in 1..Len(list)
        PROVE  list[i].type \in NewTypes
    <2>1. PICK k \in DOMAIN p.changes : list[i] = CandidateOf(h, p, k)
      BY <1>2 DEF Lists
    <2>. PICK ch : ch = p.changes[k]
      OBVIOUS
    <2>2. ch.type \in NewTypes
      OBVIOUS
    <2>. PICK e : e = EventOf(h, ch)
      OBVIOUS
    <2>3. e.type = ch.type
      BY <2>2 DEF EventOf, NewTypes
    <2>. QED
      BY <2>1, <2>2, <2>3 DEF CandidateOf
  <1>5. RunFits(h.run, h.run \o list)
    BY <1>1 DEF Compiles
  <1>. QED
    BY <1>1, <1>3, <1>4, <1>5

LEMMA ApplyCoheres ==
    ASSUME Coherent(events), NEW p, NEW C, p.changes \in Seq(C), Apply(p),
           \A i \in DOMAIN p.changes : p.changes[i].type \in NewTypes
    PROVE  Coherent(events')
  <1>1. PICK h : h = Observation
    OBVIOUS
  <1>2. PICK list : list = CandidateEvents(h, p)
    OBVIOUS
  <1>3. h.run = events /\ Compiles(h, p) /\ events' = events \o list
    BY <1>1, <1>2, ApplyAppends
  <1>4. ListOf(h.run)
    BY <1>3 DEF Coherent
  <1>5. /\ \E X : h.run \in Seq(X) /\ list \in Seq(X)
        /\ \A i \in 1..Len(list) : list[i].type \in NewTypes
        /\ RunFits(h.run, h.run \o list)
    BY <1>2, <1>3, <1>4, CompiledFits
  <1>6. PICK X : h.run \in Seq(X) /\ list \in Seq(X)
    BY <1>5
  <1>. PICK base : base = h.run
    OBVIOUS
  <1>7. base \in Seq(X) /\ Coherent(base) /\ RunFits(base, base \o list)
    BY <1>3, <1>5, <1>6
  <1>8. Coherent(base \o list)
    BY <1>5, <1>6, <1>7, CoherentGrows
  <1>. QED
    BY <1>3, <1>8

\* The two proposals of the trajectory are lists of changes of the three kinds.
LEMMA ProposedTypes ==
    ASSUME NEW ch1, NEW ch2, ch1.type \in NewTypes, ch2.type \in NewTypes, NEW q
    PROVE  /\ \A p : p = Propose(<<ch1>>, q) =>
                  /\ p.changes \in Seq({ch1, ch2})
                  /\ \A i \in DOMAIN p.changes : p.changes[i].type \in NewTypes
           /\ \A p : p = Propose(<<ch1, ch2>>, q) =>
                  /\ p.changes \in Seq({ch1, ch2})
                  /\ \A i \in DOMAIN p.changes : p.changes[i].type \in NewTypes
  <1>1. \A x, y : <<x>> \in Seq({x, y}) /\ <<x, y>> \in Seq({x, y})
    OBVIOUS
  <1>2. /\ \A i \in DOMAIN <<ch1>> : <<ch1>>[i].type \in NewTypes
        /\ \A i \in DOMAIN <<ch1, ch2>> : <<ch1, ch2>>[i].type \in NewTypes
    OBVIOUS
  <1>3. \A p : /\ p = Propose(<<ch1>>, q) => p.changes = <<ch1>>
               /\ p = Propose(<<ch1, ch2>>, q) => p.changes = <<ch1, ch2>>
    BY DEF Propose
  <1>. QED
    BY <1>1, <1>2, <1>3

\* The run of a case stays coherent.
LEMMA CasesCohere == BoundarySpec => []Coherent(events)
  <1>1. BoundaryInit => Coherent(events)
    BY BoundaryConstants DEF BoundaryInit
  <1>2. Coherent(events) /\ [BoundaryNext]_boundaryVars => Coherent(events)'
    <2>. SUFFICES ASSUME Coherent(events), [BoundaryNext]_boundaryVars
                  PROVE  Coherent(events')
      OBVIOUS
    <2>1. CASE UNCHANGED boundaryVars \/ CompleteCut
      <3>1. events' = events
        BY <2>1 DEF boundaryVars, CompleteCut, Becomes, Completed, Trajectory
      <3>. QED
        BY <3>1
    <2>2. ASSUME NEW ch1, NEW ch2, NEW q, ch1.type \in NewTypes, ch2.type \in NewTypes,
                 Apply(Propose(<<ch1>>, q)) \/ Apply(Propose(<<ch1, ch2>>, q))
          PROVE  Coherent(events')
      <3>1. PICK p : Apply(p) /\ (p = Propose(<<ch1>>, q) \/ p = Propose(<<ch1, ch2>>, q))
        BY <2>2
      <3>2. /\ p.changes \in Seq({ch1, ch2})
            /\ \A i \in DOMAIN p.changes : p.changes[i].type \in NewTypes
        BY <2>2, <3>1, ProposedTypes
      <3>. QED
        BY <3>1, <3>2, ApplyCoheres
    <2>3. ASSUME NEW h, NEW ch \in Sound(h)
          PROVE  ch.type \in NewTypes
      BY ChangeTypes DEF Sound
    <2>4. CASE \E h, q : \E ch1, ch2 \in Sound(h) :
                   Apply(Propose(<<ch1>>, q)) \/ Apply(Propose(<<ch1, ch2>>, q))
      BY <2>2, <2>3, <2>4
    <2>5. CASE BoundaryNext /\ ~CompleteCut
      <3>1. \E h, q : \E ch1, ch2 \in Sound(h) :
                Apply(Propose(<<ch1>>, q)) \/ Apply(Propose(<<ch1, ch2>>, q))
        BY <2>5 DEF BoundaryNext
      <3>. QED
        BY <2>4, <3>1
    <2>. QED
      BY <2>1, <2>5
  <1>. QED
    BY <1>1, <1>2, PTL DEF BoundarySpec

\* A change that the schema admits compiles with the question about a context, if
\* nothing speaks against it that the schema cannot say.
LEMMA AdmittedChange ==
    ASSUME Coherent(events), NEW h \in Hosts, SchemaIssued(h), NEW ch \in Changes(h),
           ChangeInSchema(h, ch), NEW q, q = AnyQuery(h), NEW p, p = Propose(<<ch>>, q),
           ~Unsaid(h, p)
    PROVE  Compiles(h, p)
  <1>1. p.changes = <<ch>> /\ p.query = q
    BY DEF Propose
  <1>2. Len(p.changes) = 1 /\ DOMAIN p.changes = {1} /\ p.changes[1] = ch
    BY <1>1
  <1>3. /\ h.run = events /\ Coherent(h.run) /\ CutsParse(h)
        /\ \A ref \in h.references : ReferenceFits(h.run, ref)
    BY HostIs DEF SchemaIssued
  <1>4. ch.type \in NewTypes
    BY ChangeTypes
  <1>5. q.type = "context" /\ q.cut = Null /\ QueryInSchema(h, q)
    BY AnyQueryIs
  <1>6. /\ WellFormed(ch) /\ Supported(h, ch) /\ Reserved(h, p.changes)
        /\ ch.type # "retraction" => EventOf(h, ch).id \notin TemporalIds(h.run)
        /\ ~(Len(h.run) + Len(p.changes) > MaxEvents)
    <2>1. /\ ~Repeats(ch.supports) /\ Supported(h, ch) /\ Reserved(h, p.changes)
          /\ ch.type # "retraction" => ValidBounds(ch.bounds)
          /\ ch.type # "retraction" => EventOf(h, ch).id \notin TemporalIds(h.run)
          /\ ~(Len(h.run) + Len(p.changes) > MaxEvents)
      BY <1>2 DEF Unsaid
    <2>2. Len(ch.supports) \in 1..SchemaMaxSupports
      BY DEF ChangeInSchema
    <2>3. Len(ch.supports) \in 1..MaxSupports
      BY <2>2, ProposalConstants DEF SchemaMaxSupports
    <2>. QED
      BY <2>1, <2>3 DEF WellFormed
  <1>. PICK e : e = EventOf(h, ch)
    OBVIOUS
  <1>7. Resolved(h, ch) /\ EventFits(h.run, e)
    BY <1>3, <1>4, <1>6, AdmittedFits
  <1>8. PICK list : list = CandidateEvents(h, p)
    OBVIOUS
  <1>9. Len(list) = 1 /\ list[1] = e /\ \E Y : list \in Seq(Y)
    BY <1>8, OneCandidate
  <1>. PICK base : base = h.run
    OBVIOUS
  <1>10. PICK X : base \in Seq(X) /\ list \in Seq(X)
    <2>1. PICK Y : list \in Seq(Y)
      BY <1>9
    <2>2. PICK E : base \in Seq(E)
      BY <1>3 DEF Coherent, ListOf
    <2>3. base \in Seq(E \cup Y) /\ list \in Seq(E \cup Y)
      BY <2>1, <2>2
    <2>. QED
      BY <2>3
  <1>11. PICK run : run = base \o list
    OBVIOUS
  <1>12. /\ run \in Seq(X) /\ Len(base) \in Nat /\ Len(run) = Len(base) + 1
         /\ run[Len(base) + 1] = e
    <2>1. /\ run \in Seq(X) /\ Len(base) \in Nat /\ Len(run) = Len(base) + Len(list)
          /\ \A i \in 1..Len(list) : run[Len(base) + i] = list[i]
      BY <1>10, <1>11, EventsOfConcat
    <2>. QED
      BY <1>9, <2>1
  <1>13. SubSeq(run, 1, Len(base)) = base
    BY <1>10, <1>11, PrefixIsBase
  <1>14. RunFits(base, run)
    <2>1. Len(run) =< MaxEvents
      <3>1. MaxEvents \in Nat
        BY ProjectionConstants
      <3>2. Len(base) \in Nat /\ Len(run) = Len(base) + 1 /\ ~(Len(base) + 1 > MaxEvents)
        BY <1>2, <1>6, <1>12
      <3>. QED
        BY <3>1, <3>2
    <2>2. ASSUME NEW i \in Len(base) + 1..Len(run)
          PROVE  EventFits(SubSeq(run, 1, i - 1), run[i])
      <3>1. i = Len(base) + 1 /\ i - 1 = Len(base)
        BY <1>12, <2>2
      <3>. QED
        BY <1>7, <1>12, <1>13, <3>1
    <2>. QED
      BY <2>1, <2>2 DEF RunFits
  <1>15. QueryCompiles(h, q, run)
    <2>1. q.type \in QueryTypes
      BY <1>5 DEF QueryTypes
    <2>2. h.run \in Seq(X) /\ list \in Seq(X)
      BY <1>10
    <2>3. QueryCompiles(h, q, h.run \o list)
      BY <1>3, <1>5, <2>1, <2>2, AdmittedQuery
    <2>. QED
      BY <1>11, <2>3
  <1>16. Len(p.changes) =< MaxChanges
    <2>1. MaxChanges \in Nat \ {0}
      BY ProposalConstants
    <2>2. Len(p.changes) = 1
      BY <1>2
    <2>3. \A x \in Nat \ {0} : 1 =< x
      OBVIOUS
    <2>. QED
      BY <2>1, <2>2, <2>3
  <1>. QED
    BY <1>1, <1>2, <1>3, <1>6, <1>7, <1>8, <1>11, <1>14, <1>15, <1>16 DEF Compiles

\* So does a query that the schema admits, alone.
LEMMA AdmittedAlone ==
    ASSUME Coherent(events), NEW h \in Hosts, SchemaIssued(h), NEW q \in Queries(h),
           QueryInSchema(h, q), NEW p, p = Propose(<<>>, q), ~Unsaid(h, p)
    PROVE  Compiles(h, p)
  <1>1. p.changes = <<>> /\ p.query = q
    BY DEF Propose
  <1>2. Len(p.changes) = 0 /\ DOMAIN p.changes = {}
    BY <1>1, EmptySeq
  <1>3. /\ h.run = events /\ Coherent(h.run) /\ CutsParse(h)
        /\ \A ref \in h.references : ReferenceFits(h.run, ref)
    BY HostIs DEF SchemaIssued
  <1>4. q.type \in QueryTypes /\ q.cut \in 0..Len(h.run) \cup {Null}
    BY DEF Queries
  <1>5. /\ ~(Len(h.run) + Len(p.changes) > MaxEvents)
        /\ q.cut # Null => /\ ~(q.cut >= Len(h.run) + Len(p.changes))
                           /\ QueryFits(h.run, q.target, q.cut)
    BY <1>1 DEF Unsaid
  <1>6. PICK list : list = CandidateEvents(h, p)
    OBVIOUS
  <1>7. list = <<>>
    BY <1>6, NoCandidate
  <1>8. PICK X : h.run \in Seq(X)
    BY <1>3 DEF Coherent, ListOf
  <1>. PICK base : base = h.run
    OBVIOUS
  <1>9. base \o list = base /\ list \in Seq(X) /\ Len(base) \in Nat
    BY <1>7, <1>8, EmptySeq, ConcatEmptySeq, LenProperties
  <1>10. RunFits(base, base \o list)
    <2>1. Len(base) =< MaxEvents
      <3>1. MaxEvents \in Nat
        BY ProjectionConstants
      <3>2. Len(base) \in Nat /\ ~(Len(base) + 0 > MaxEvents)
        BY <1>2, <1>5, <1>9
      <3>. QED
        BY <3>1, <3>2
    <2>2. Len(base) + 1..Len(base) = {}
      BY <1>9
    <2>. QED
      BY <1>9, <2>1, <2>2 DEF RunFits
  <1>11. QueryCompiles(h, q, h.run \o list)
    <2>1. q.cut # Null =>
              q.cut < Len(base) /\ base # <<>> /\ QueryFits(base, q.target, q.cut)
      <3>. SUFFICES ASSUME q.cut # Null
                    PROVE  q.cut < Len(base) /\ base # <<>> /\ QueryFits(base, q.target, q.cut)
        OBVIOUS
      <3>. PICK n : n = Len(base)
        OBVIOUS
      <3>4. n \in Nat /\ q.cut \in 0..n
        BY <1>4, <1>9
      <3>5. ~(q.cut >= n + 0)
        BY <1>2, <1>5
      <3>1. q.cut \in 0..Len(base) /\ q.cut < Len(base)
        BY <3>4, <3>5
      <3>2. base # <<>>
        BY <3>1, EmptySeq
      <3>. QED
        BY <1>5, <3>1, <3>2
    <2>2. q.cut # Null =>
              /\ q.cut < Len(h.run \o list) /\ h.run # <<>>
              /\ QueryFits(h.run \o list, q.target, q.cut)
      BY <1>9, <2>1
    <2>3. list \in Seq(X)
      BY <1>9
    <2>. QED
      BY <1>3, <1>4, <1>7, <1>8, <2>2, <2>3, AdmittedQuery
  <1>12. Len(p.changes) =< MaxChanges
    <2>1. MaxChanges \in Nat \ {0}
      BY ProposalConstants
    <2>. QED
      BY <1>2, <2>1
  <1>13. Reserved(h, p.changes)
    BY <1>2 DEF Reserved
  <1>. QED
    BY <1>1, <1>2, <1>3, <1>6, <1>10, <1>11, <1>12, <1>13 DEF Compiles

\* What the schema admits compiles, but for what the schema cannot say: for every
\* run a case may reach, every catalog a schema is issued for and every answer of
\* one change or of none.
THEOREM SchemaSuffices == BoundarySpec => []SchemaCompiles
  <1>1. Coherent(events) => SchemaCompiles
    <2>. SUFFICES ASSUME Coherent(events), NEW h \in Hosts, SchemaIssued(h)
                  PROVE  /\ \A ch \in Changes(h) :
                                ChangeInSchema(h, ch) =>
                                    \/ Compiles(h, Propose(<<ch>>, AnyQuery(h)))
                                    \/ Unsaid(h, Propose(<<ch>>, AnyQuery(h)))
                         /\ \A q \in Queries(h) :
                                QueryInSchema(h, q) =>
                                    \/ Compiles(h, Propose(<<>>, q))
                                    \/ Unsaid(h, Propose(<<>>, q))
      BY DEF SchemaCompiles
    <2>1. ASSUME NEW ch \in Changes(h), ChangeInSchema(h, ch)
          PROVE  \/ Compiles(h, Propose(<<ch>>, AnyQuery(h)))
                 \/ Unsaid(h, Propose(<<ch>>, AnyQuery(h)))
      BY <2>1, AdmittedChange
    <2>2. ASSUME NEW q \in Queries(h), QueryInSchema(h, q)
          PROVE  Compiles(h, Propose(<<>>, q)) \/ Unsaid(h, Propose(<<>>, q))
      BY <2>2, AdmittedAlone
    <2>. QED
      BY <2>1, <2>2
  <1>. QED
    BY <1>1, CasesCohere, PTL

----------------------------------------------------------------------------
(* What a proposal does to the active assertions                           *)

\* The events behind a run, in a run that continues it.
LEMMA SuffixIsList ==
    ASSUME NEW X, NEW base \in Seq(X), NEW list \in Seq(X)
    PROVE  \A run : run = base \o list =>
               \A s : s = SubSeq(run, Len(base) + 1, Len(run)) => s = list
  <1>1. PICK run : run = base \o list
    OBVIOUS
  <1>2. /\ run \in Seq(X) /\ Len(base) \in Nat /\ Len(list) \in Nat
        /\ Len(run) = Len(base) + Len(list)
        /\ \A i \in 1..Len(list) : run[Len(base) + i] = list[i]
    BY <1>1, EventsOfConcat
  <1>3. PICK s : s = SubSeq(run, Len(base) + 1, Len(run))
    OBVIOUS
  <1>4. s \in Seq(X) /\ Len(s) = Len(list) /\ \A i \in 1..Len(list) : s[i] = run[Len(base) + i]
    BY <1>2, <1>3
  <1>5. s = list
    BY <1>2, <1>4, SeqEqual
  <1>. QED
    BY <1>1, <1>3, <1>5

\* What is active in a run that continues another is what was and is not revised,
\* and what is new.
ActiveBecomes(base, list, run) ==
    \A x : x \in ActiveIds(run) <=>
        \/ x \in ActiveIds(base) /\ \A i \in 1..Len(list) : x \notin Revised(list[i])
        \/ \E e \in Assertions(list) : x = e.id

\* The active assertions of a coherent run under events that revise active
\* assertions of it and make new ones.
LEMMA ActiveAfter ==
    ASSUME NEW X, NEW base \in Seq(X), NEW list \in Seq(X), Coherent(base),
           \A i \in 1..Len(list) : list[i].type \in NewTypes,
           \A e \in Events(list) : e.type # "retraction" => e.id \notin TemporalIds(base),
           \A i \in 1..Len(list) : Revised(list[i]) \subseteq ActiveIds(base)
    PROVE  ActiveBecomes(base, list, base \o list)
  <1>1. PICK run : run = base \o list
    OBVIOUS
  <1>2. Events(run) = Events(base) \cup Events(list)
    BY <1>1, EventsOfConcat
  <1>3. \A e : e \in Events(list) <=> \E i \in 1..Len(list) : e = list[i]
    BY LenProperties DEF Events
  <1>4. Assertions(run) = Assertions(base) \cup Assertions(list)
    BY <1>2 DEF Assertions
  <1>5. \A x : x \in Retracted(run) \cup Superseded(run) <=>
                   \/ x \in Retracted(base) \cup Superseded(base)
                   \/ \E i \in 1..Len(list) : x \in Revised(list[i])
    <2>1. Retracted(run) = Retracted(base) \cup Retracted(list)
      BY <1>2 DEF Retracted, Retractions
    <2>2. Superseded(run) = Superseded(base) \cup Superseded(list)
      BY <1>4 DEF Superseded
    <2>3. \A x : x \in Retracted(list) <=>
                     \E i \in 1..Len(list) : list[i].type = "retraction" /\ x \in Revised(list[i])
      BY <1>3 DEF Retracted, Retractions, Revised
    <2>4. \A x : x \in Superseded(list) <=>
                     \E i \in 1..Len(list) : list[i].type # "retraction" /\ x \in Revised(list[i])
      <3>1. \A a : a \in Assertions(list) <=>
                       \E i \in 1..Len(list) : a = list[i] /\ list[i].type # "retraction"
        BY <1>3 DEF Assertions, NewTypes, Kinds
      <3>2. \A x : x \in Superseded(list) <=> \E a \in Assertions(list) : x \in a.supersedes
        BY DEF Superseded
      <3>. QED
        BY <3>1, <3>2 DEF Revised
    <2>. QED
      BY <2>1, <2>2, <2>3, <2>4
  <1>6. \A x : x \in ActiveIds(run) <=>
                   \E a \in Assertions(run) : a.id = x /\ x \notin Retracted(run) \cup Superseded(run)
    BY DEF ActiveIds, Active
  <1>7. \A x : x \in ActiveIds(base) <=>
                   \E a \in Assertions(base) : a.id = x /\ x \notin Retracted(base) \cup Superseded(base)
    BY DEF ActiveIds, Active
  <1>8. \A a \in Assertions(base) : a.id \in TemporalIds(base)
    BY DEF Assertions, TemporalIds, Retractions, Kinds
  <1>9. \A x : x \in Retracted(base) \cup Superseded(base) => x \in TemporalIds(base)
    BY <1>8 DEF Coherent, Ids
  <1>10. \A a \in Assertions(list) : a.id \notin TemporalIds(base)
    BY DEF Assertions, Kinds
  <1>11. ASSUME NEW x \in ActiveIds(run)
         PROVE  \/ x \in ActiveIds(base) /\ \A i \in 1..Len(list) : x \notin Revised(list[i])
                \/ \E e \in Assertions(list) : x = e.id
    BY <1>4, <1>5, <1>6, <1>7, <1>11
  <1>12. ASSUME NEW x \in ActiveIds(base), \A i \in 1..Len(list) : x \notin Revised(list[i])
         PROVE  x \in ActiveIds(run)
    BY <1>4, <1>5, <1>6, <1>7, <1>12
  <1>13. ASSUME NEW e \in Assertions(list)
         PROVE  e.id \in ActiveIds(run)
    <2>1. e.id \notin TemporalIds(base)
      BY <1>10
    <2>2. \A i \in 1..Len(list) : e.id \notin Revised(list[i])
      BY <1>7, <1>8, <2>1
    <2>. QED
      BY <1>4, <1>5, <1>6, <1>9, <2>1, <2>2
  <1>. QED
    BY <1>1, <1>11, <1>12, <1>13 DEF ActiveBecomes

\* A change that resolves revises an active assertion, or none.
LEMMA ResolvedRevises ==
    ASSUME NEW h, NEW ch, ch.type \in NewTypes, Resolved(h, ch), NEW e, e = EventOf(h, ch)
    PROVE  Revised(e) \subseteq ActiveIds(h.run)
           /\ Revised(e) \subseteq {ch.assertion}
           /\ (ch.type # "retraction" /\ ch.assertion = Null => Revised(e) = {})
  <1>1. /\ e.type = ch.type
        /\ ch.type = "retraction" => e.assertion = ch.assertion
        /\ ch.type # "retraction" =>
               e.supersedes = IF ch.assertion = Null THEN {} ELSE {ch.assertion}
    BY EventOfFields
  <1>2. \A a \in ResolvedAssertions(h, ch.assertion) :
            a.id = ch.assertion /\ ch.assertion \in ActiveIds(h.run)
    BY DEF ResolvedAssertions, ActiveIds
  <1>3. CASE ch.type = "retraction"
    BY <1>1, <1>2, <1>3 DEF Resolved, Revised
  <1>4. CASE ch.type # "retraction"
    BY <1>1, <1>2, <1>4 DEF Resolved, Revised
  <1>. QED
    BY <1>3, <1>4

\* Events count, once, behind a run.
Counts(base, new, run) ==
    /\ ActiveIds(run) =
          (ActiveIds(base) \ UNION {Revised(new[i]) : i \in DOMAIN new})
          \cup {e.id : e \in Assertions(new)}
    /\ \A i \in DOMAIN new : Revised(new[i]) \subseteq ActiveIds(base)
    /\ \A i, j \in DOMAIN new : i # j => Revised(new[i]) \cap Revised(new[j]) = {}

\* So do the candidates of a proposal that compiles.
LEMMA CompiledCounts ==
    ASSUME NEW h, Coherent(h.run), NEW p, NEW C, p.changes \in Seq(C), Compiles(h, p),
           \A i \in DOMAIN p.changes : p.changes[i].type \in NewTypes
    PROVE  \A list : list = CandidateEvents(h, p) => Counts(h.run, list, h.run \o list)
  <1>1. PICK list : list = CandidateEvents(h, p)
    OBVIOUS
  <1>2. Lists(h, p, list)
    BY <1>1, CandidatesListed
  <1>0. PICK base : base = h.run
    OBVIOUS
  <1>3. ListOf(h.run)
    BY DEF Coherent
  <1>4. /\ \E X : h.run \in Seq(X) /\ list \in Seq(X)
        /\ \A i \in 1..Len(list) : list[i].type \in NewTypes
        /\ RunFits(h.run, h.run \o list)
    BY <1>1, <1>3, CompiledFits
  <1>5. PICK X : base \in Seq(X) /\ list \in Seq(X)
    BY <1>0, <1>4
  <1>6. Coherent(base) /\ RunFits(base, base \o list) /\ DOMAIN list = 1..Len(list)
    BY <1>0, <1>4, <1>5, LenProperties
  <1>7. \A e \in Events(list) : e.type # "retraction" => e.id \notin TemporalIds(base)
    BY <1>4, <1>5, <1>6, CoherentGrows
  <1>8. ASSUME NEW k \in DOMAIN p.changes, NEW e, e = CandidateOf(h, p, k)
        PROVE  /\ Revised(e) \subseteq ActiveIds(base)
               /\ Revised(e) \subseteq {p.changes[k].assertion}
               /\ p.changes[k].assertion = Null =>
                      Revised(e) = {} \/ p.changes[k].type = "retraction"
    <2>. PICK ch : ch = p.changes[k]
      OBVIOUS
    <2>1. ch.type \in NewTypes /\ Resolved(h, ch) /\ e = EventOf(h, ch)
      BY <1>8 DEF Compiles, CandidateOf
    <2>. QED
      BY <1>0, <2>1, ResolvedRevises
  <1>9. ASSUME NEW i \in 1..Len(list)
        PROVE  Revised(list[i]) \subseteq ActiveIds(base)
    <2>1. PICK k \in DOMAIN p.changes : list[i] = CandidateOf(h, p, k)
      BY <1>2 DEF Lists
    <2>. QED
      BY <1>8, <2>1
  <1>14. PICK run : run = base \o list
    OBVIOUS
  <1>10. ActiveBecomes(base, list, run)
    BY <1>4, <1>5, <1>6, <1>7, <1>9, <1>14, ActiveAfter
  <1>11. ActiveIds(run) =
             (ActiveIds(base) \ UNION {Revised(list[i]) : i \in DOMAIN list})
             \cup {e.id : e \in Assertions(list)}
    <2>. PICK after : after = ActiveIds(run)
      OBVIOUS
    <2>1. PICK U : U = UNION {Revised(list[i]) : i \in 1..Len(list)}
      OBVIOUS
    <2>2. PICK made : made = {e.id : e \in Assertions(list)}
      OBVIOUS
    <2>3. \A x : x \in U <=> \E i \in 1..Len(list) : x \in Revised(list[i])
      BY <2>1
    <2>4. \A x : x \in made <=> \E e \in Assertions(list) : x = e.id
      BY <2>2
    <2>5. after = (ActiveIds(base) \ U) \cup made
      BY <1>10, <2>3, <2>4 DEF ActiveBecomes
    <2>. QED
      BY <1>6, <2>1, <2>2, <2>5
  <1>12. ASSUME NEW i \in 1..Len(list), NEW j \in 1..Len(list), i # j,
                NEW x, x \in Revised(list[i]), x \in Revised(list[j])
         PROVE  FALSE
    <2>1. PICK k \in DOMAIN p.changes : list[i] = CandidateOf(h, p, k)
      BY <1>2 DEF Lists
    <2>2. PICK l \in DOMAIN p.changes : list[j] = CandidateOf(h, p, l)
      BY <1>2 DEF Lists
    <2>3. list[i] # list[j]
      BY <1>2, <1>12 DEF Lists
    <2>4. k # l
      BY <2>1, <2>2, <2>3
    <2>5. p.changes[k].assertion = x /\ p.changes[l].assertion = x
      BY <1>8, <1>12, <2>1, <2>2
    <2>6. x = Null
      BY <2>4, <2>5 DEF Compiles, Reserved
    <2>7. p.changes[k].type = "retraction" /\ p.changes[l].type = "retraction"
      BY <1>8, <1>12, <2>1, <2>2, <2>5, <2>6
    <2>8. /\ CandidateOf(h, p, k) = [type |-> "retraction", assertion |-> Null]
          /\ CandidateOf(h, p, l) = [type |-> "retraction", assertion |-> Null]
      <3>1. \A ch : ch.type = "retraction" /\ ch.assertion = Null =>
                        EventOf(h, ch) = [type |-> "retraction", assertion |-> Null]
        BY DEF EventOf
      <3>. QED
        BY <2>5, <2>6, <2>7, <3>1 DEF CandidateOf
    <2>. QED
      BY <2>1, <2>2, <2>3, <2>8
  <1>13. Counts(base, list, run)
    <2>1. \A i \in DOMAIN list : Revised(list[i]) \subseteq ActiveIds(base)
      BY <1>6, <1>9
    <2>2. \A i, j \in DOMAIN list : i # j => Revised(list[i]) \cap Revised(list[j]) = {}
      BY <1>6, <1>12
    <2>. QED
      BY <1>11, <2>1, <2>2 DEF Counts
  <1>. QED
    BY <1>0, <1>1, <1>13, <1>14

\* A step that changes the run appends what counts.
LEMMA StepCounts ==
    ASSUME Coherent(events), NEW p, NEW C, p.changes \in Seq(C), Apply(p),
           \A i \in DOMAIN p.changes : p.changes[i].type \in NewTypes
    PROVE  Counts(events, SubSeq(events', Len(events) + 1, Len(events')), events')
  <1>1. PICK h : h = Observation
    OBVIOUS
  <1>2. PICK list : list = CandidateEvents(h, p)
    OBVIOUS
  <1>3. h.run = events /\ Compiles(h, p) /\ events' = events \o list
    BY <1>1, <1>2, ApplyAppends
  <1>4. Coherent(h.run) /\ ListOf(h.run)
    BY <1>3 DEF Coherent
  <1>5. Counts(h.run, list, h.run \o list)
    BY <1>2, <1>3, <1>4, CompiledCounts
  <1>6. \E X : h.run \in Seq(X) /\ list \in Seq(X)
    BY <1>2, <1>3, <1>4, CompiledFits
  <1>0. PICK base : base = h.run
    OBVIOUS
  <1>7. PICK X : base \in Seq(X) /\ list \in Seq(X)
    BY <1>0, <1>6
  <1>8. PICK run : run = base \o list
    OBVIOUS
  <1>9. SubSeq(run, Len(base) + 1, Len(run)) = list
    BY <1>7, <1>8, SuffixIsList
  <1>. QED
    BY <1>0, <1>3, <1>5, <1>8, <1>9

\* Every change counts, once: whatever the cases, the catalogs and the proposals, a
\* proposal that is applied takes out of the active assertions exactly what it
\* revises, each of them active and revised by one change, and adds what it makes.
THEOREM ChangesCount == BoundarySpec => EveryChangeCounts
  <1> DEFINE new == SubSeq(events', Len(events) + 1, Len(events'))
             Body ==
                 events' # events =>
                    LET made == {e.id : e \in Assertions(new)}
                        revised(e) == IF e.type = "retraction" THEN {e.assertion} ELSE e.supersedes
                    IN /\ ActiveIds(events') =
                              (ActiveIds(events) \ UNION {revised(new[i]) : i \in DOMAIN new})
                              \cup made
                       /\ \A i \in DOMAIN new : revised(new[i]) \subseteq ActiveIds(events)
                       /\ \A i, j \in DOMAIN new :
                              i # j => revised(new[i]) \cap revised(new[j]) = {}
  <1>1. Coherent(events) /\ BoundaryNext => Body
    <2>. SUFFICES ASSUME Coherent(events), BoundaryNext, events' # events
                  PROVE  Body
      OBVIOUS
    <2>1. ~CompleteCut
      BY DEF CompleteCut, Becomes, Completed, Trajectory
    <2>2. PICK h, q : \E ch1, ch2 \in Sound(h) :
              Apply(Propose(<<ch1>>, q)) \/ Apply(Propose(<<ch1, ch2>>, q))
      BY <2>1 DEF BoundaryNext
    <2>3. PICK ch1 \in Sound(h), ch2 \in Sound(h) :
              Apply(Propose(<<ch1>>, q)) \/ Apply(Propose(<<ch1, ch2>>, q))
      BY <2>2
    <2>4. ch1.type \in NewTypes /\ ch2.type \in NewTypes
      BY ChangeTypes DEF Sound
    <2>5. PICK p : Apply(p) /\ (p = Propose(<<ch1>>, q) \/ p = Propose(<<ch1, ch2>>, q))
      BY <2>3
    <2>6. /\ p.changes \in Seq({ch1, ch2})
          /\ \A i \in DOMAIN p.changes : p.changes[i].type \in NewTypes
      BY <2>4, <2>5, ProposedTypes
    <2>7. Counts(events, new, events')
      BY <2>5, <2>6, StepCounts
    <2>. QED
      BY <2>7 DEF Counts, Revised
  <1>2. Coherent(events) /\ [BoundaryNext]_boundaryVars => [Body]_boundaryVars
    BY <1>1
  <1>3. BoundarySpec => [][Body]_boundaryVars
    <2>. HIDE DEF Body
    <2>. QED
      BY <1>2, CasesCohere, PTL DEF BoundarySpec
  <1>. QED
    BY <1>3, PTL DEF EveryChangeCounts

=============================================================================
