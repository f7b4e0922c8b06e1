------------------------------ MODULE MCPilot ------------------------------
(***************************************************************************)
(* The real-model pilot: a phase, the publication of a completed attempt   *)
(* and that of a failed one, which meet only in the ledger that ended.     *)
(* Each is explored by itself: "part" says which of them moves.            *)
(***************************************************************************)
EXTENDS PilotPhase, MCPublication

VARIABLE part

pilotVars == <<part, vars, publicationVars, failedVars>>

PilotInit ==
    /\ part \in {"phase", "publication", "export"}
    /\ Init /\ PublicationInit /\ FailedInit

InPhase(step) == part = "phase" /\ step /\ UNCHANGED <<part, publicationVars, failedVars>>

InPublication(step) == part = "publication" /\ step /\ UNCHANGED <<part, vars, failedVars>>

PilotNext ==
    \/ InPhase(Next) \/ InPublication(PublicationNext)
    \/ part = "export" /\ FailedNext /\ UNCHANGED <<part, vars, publicationVars>>

\* A resume that began goes on, and is run again where it ended.
PilotSpec ==
    /\ PilotInit /\ [][PilotNext]_pilotVars
    /\ \A p \in Processes : WF_pilotVars(InPhase(Resume(p)))
    /\ \A p \in Publishers : WF_pilotVars(InPublication(Publish(p)))
=============================================================================
