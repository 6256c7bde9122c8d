--------------------------- MODULE MCTelemetryPath ---------------------------
(* Instances of TelemetryPath for TLC.                                     *)
EXTENDS TelemetryPath, TLC

CONSTANTS p1, d1

NoneEnrolled == [p \in {} |-> d1]
NoOldRecords == [r \in {} |-> p1]
=============================================================================
