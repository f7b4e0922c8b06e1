--------------------------- MODULE MCPublication ---------------------------
(***************************************************************************)
(* The two publications of the pilot, on small instances: the last process *)
(* publishes another attempt than the others, to the same output path.     *)
(***************************************************************************)
EXTENDS PilotPublication, FailedPublication

CONSTANTS attempt1, attempt2, p3

Several(processes) == [p \in processes |-> IF p = p3 THEN attempt2 ELSE attempt1]

MCAttemptOf == Several(Publishers)

MCFailedAttempt == Several(Exporters)

\* The failed export alone.
ExportSpec == PublicationInit /\ FailedInit /\ [][FailedNext /\ UNCHANGED publicationVars]_failedVars
=============================================================================
