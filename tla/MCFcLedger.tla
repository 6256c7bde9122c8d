----------------------------- MODULE MCFcLedger -----------------------------
(* Instances of FcLedgerFabric, and through it FcLedger, for TLC.          *)
EXTENDS FcLedgerFabric, TLC

CONSTANTS p1, p2, d1, d2, a1, a2, a3, c1

\* p1 was created before lastFc keys were bound, with one record.
EnrolledBefore   == p1 :> d1
RecordsBefore    == c1 :> [passport |-> p1, fc |-> 1]

IdSymmetry == Permutations(AutoIds)
=============================================================================
