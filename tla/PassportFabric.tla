--------------------------- MODULE PassportFabric ---------------------------
(***************************************************************************)
(* The passport and credential calls on Hyperledger Fabric: simulated      *)
(* against the world state of an endorser, committed later, dropped by     *)
(* validation once a key they have read is written.  A transaction may     *)
(* also commit with nothing in between (Submit), so one pending            *)
(* transaction already meets every other call.                             *)
(*                                                                         *)
(* Fabric itself is outside the repository; this is what the chaincode     *)
(* relies on.                                                              *)
(***************************************************************************)
EXTENDS Credentials

CONSTANT MaxPending    \* bound: transactions endorsed and not committed

ASSUME PendingAssumption == MaxPending \in Nat

VARIABLE pending

fabric == <<world, newest, committed, pending>>

FabricTypeOK ==
  /\ TypeOK
  /\ Cardinality(pending) <= MaxPending
  /\ \A t \in pending : t.reads \subseteq Keys /\ t.key \in Keys

FabricInit == Init /\ pending = {}

-----------------------------------------------------------------------------
\* Transaction u has not read key k, which has just been written.
StillValid(u, k) == k \notin u.reads

Committed(t) ==
  /\ Apply(t)
  /\ pending' = {u \in pending \ {t} : StillValid(u, t.key)}

Endorse ==
  /\ Cardinality(pending) < MaxPending
  /\ \E t \in Calls : pending' = pending \cup {t}
  /\ UNCHANGED ledger

Submit(calls) == \E t \in calls : Committed(t)

Commit == \E t \in pending : Committed(t)

FabricNext ==
  \/ Endorse
  \/ Commit
  \/ Submit(RegisterRawMaterial)
  \/ Submit(CreateBatteryPassport)
  \/ Submit(SetPassportExtendedAttributes)
  \/ Submit(BindBMSIdentifier)
  \/ Submit(BindToVehicle)
  \/ Submit(RequestMaintenance)
  \/ Submit(AddMaintenanceLog)
  \/ Submit(AddAccidentLog)
  \/ Submit(RequestAnalysis)
  \/ Submit(SubmitAnalysisResult)
  \/ Submit(SetRecycleAvailability)
  \/ Submit(ExtractMaterials)
  \/ Submit(DisposeBattery)
  \/ Submit(CorrectPassportData)
  \/ Submit(LinkRawMaterials)
  \/ Submit(IssueCredential)
  \/ Submit(RevokeCredential)
  \/ Submit(LogCredentialVerification)
  \/ Submit(UpdateRegulatoryVerification)
  \/ Submit(VerifyPhysicalHistory)
  \/ Submit(RecordSourceVerification)
  \/ Submit(RequestCredentialIssuance)
  \/ Submit(ApproveCredentialIssuance)
  \/ Submit(RejectCredentialIssuance)

FabricSpec == FabricInit /\ [][FabricNext]_fabric

-----------------------------------------------------------------------------
(* Properties.                                                             *)

\* Whatever was endorsed against an older state, every commit is a call the
\* chaincode would make in the state it commits to: access rights, statuses and
\* free keys are still what the call found.
Serializable == Spec
=============================================================================
