-------------------------- MODULE McpStoreRefinement --------------------------
(***************************************************************************)
(* The store as an implementation of RunLog: a run is what a reader of its *)
(* file sees, without the writer of the envelope; its stable part is what  *)
(* every file holds that a power loss may leave.                           *)
(***************************************************************************)
EXTENDS McpStore

View(e) ==
    IF e = NoRun THEN NoRun
    ELSE [contract |-> e.contract, events |-> e.events, admissions |-> e.admissions]

\* A run is not the absence of one.
ASSUME NoRunIsNoView ==
    NoRun \notin [contract : Contracts, events : Seq(Drafts), admissions : Seq(Record)]

\* The file that all of a set extend.
Shortest(S) == CHOOSE e \in S : \A g \in S : Extends(e, g)

\* The shortest file that a power loss may leave.
Oldest(r) == Shortest(survivors[r])

Log == INSTANCE RunLog WITH
    log <- [r \in Runs |-> View(file[r])],
    stable <- [r \in Runs |-> View(Oldest(r))]

\* The store implements the abstract log: every admission is one atomic growth at the tip it
\* was decided on, and what a directory sync made stable is never lost.
ImplementsRunLog == Log!Spec

===============================================================================
