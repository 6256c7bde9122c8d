----------------------------- MODULE Credentials -----------------------------
(***************************************************************************)
(* Credentials, requests for them, and verifications, the calls of         *)
(* src/chaincode/passport-contract/vc_tx.go, on the documents and keys of  *)
(* PassportLifecycle.  A credential type matters by who may issue it, so a *)
(* type is its issuer (credTypeIssuers).  The regulator has access to      *)
(* every passport, may request, decide and revoke: where it is one of the  *)
(* callers allowed, nothing is left of the check.                          *)
(*                                                                         *)
(* Next is the chaincode with every call taking effect at once;            *)
(* PassportFabric puts endorsement and validation in between.              *)
(***************************************************************************)
EXTENDS PassportLifecycle

CONSTANT Issuers    \* MSPs that issue credentials

ASSUME IssuersAssumption ==
  Issuers \subseteq {"Manufacturer", "Service", "Regulator"}

Credential == [doc: {"verifiableCredential"}, passport: Keys, issuer: Issuers,
               status: {"ACTIVE", "REVOKED"}]

Request == [doc: {"credentialRequest"}, passport: Keys,
            status: {"PENDING", "APPROVED", "REJECTED"}]

Verification == [doc: {"vcVerification"}, credential: Keys]

SourceVerification == [doc: {"sourceVerification"}, passport: Keys]

TypeOK ==
  /\ world \in [Keys -> {Nil, RawMaterial} \cup Passport \cup Credential
                  \cup Request \cup Verification \cup SourceVerification]
  /\ newest \in [Keys -> [Checks -> Verdicts \cup {Unchecked}]]
  /\ committed \in [Keys -> Nat]

NewCredential(p, m) ==
  [doc |-> "verifiableCredential", passport |-> p, issuer |-> m, status |-> "ACTIVE"]

-----------------------------------------------------------------------------
(* Mutations: what the named definition would be with a bug in its lines.  *)

IssueOverAnything(m) ==                               \* of IssuedBy
  {Create(k, NewCredential(p, m), {p}) :
     k \in Keys, p \in {q \in Passports : CanAccess(m, q)}}

IssueUnread(m) ==                                     \* of IssuedBy
  {Create(k, NewCredential(p, m), {}) :
     k \in Free, p \in {q \in Passports : CanAccess(m, q)}}

AnyEvidence(p) == OfKind("verifiableCredential")      \* of EvidenceFor

ApproveDecided ==                                     \* of ApproveCredentialIssuance
  {Tx({r}, r, [world[r] EXCEPT !.status = "APPROVED"], NoEvent) :
     r \in OfKind("credentialRequest")}

RejectedAsRevoked ==                                  \* of RejectCredentialIssuance
  {Tx({r}, r, [world[r] EXCEPT !.status = "REVOKED"], NoEvent) :
     r \in {q \in OfKind("credentialRequest") : world[q].status = "PENDING"}}

FirstVerdictStays(p, v, es) ==                        \* of Judged
  [world[p] EXCEPT !.verdict["regulatory"] = IF @ = Unchecked THEN v ELSE @,
                   !.evidence = es]

-----------------------------------------------------------------------------
(* The operations.                                                         *)

IssuedBy(m) ==
  {Create(k, NewCredential(p, m), {p}) :
     k \in Free, p \in {q \in Passports : CanAccess(m, q)}}

IssueCredential == UNION {IssuedBy(m) : m \in Issuers}

RevokeCredential ==
  {Tx({c}, c, [world[c] EXCEPT !.status = "REVOKED"], NoEvent) :
     c \in {d \in OfKind("verifiableCredential") : world[d].status = "ACTIVE"}}

\* The result is the caller's; what VerifyCredentialStatus answered is not asked.
LogCredentialVerification ==
  {Create(k, [doc |-> "vcVerification", credential |-> c], {c}) :
     k \in Free, c \in OfKind("verifiableCredential")}

\* Evidence is checked to be a credential of the passport, not to be active.
EvidenceFor(p) ==
  {c \in OfKind("verifiableCredential") : world[c].passport = p}

Judged(p, v, es) ==
  [world[p] EXCEPT !.verdict["regulatory"] = v, !.evidence = es]

Regulated(p) ==
  {Tx({p} \cup es, p, Edited(Judged(p, v, es)), Event(p, "regulatory", v)) :
     es \in SUBSET EvidenceFor(p), v \in Verdicts}

UpdateRegulatoryVerification == UNION {Regulated(p) : p \in Loaded}

\* The verdict follows from the signals; any set of known signals is accepted.
VerifyPhysicalHistory ==
  {Tx({p}, p, Edited([world[p] EXCEPT !.verdict["physical"] = v]),
      Event(p, "physical", v)) : p \in Loaded, v \in Verdicts}

RecordSourceVerification ==
  {Create(k, [doc |-> "sourceVerification", passport |-> p], {p}) :
     k \in Free, p \in Passports}

RequestCredentialIssuance ==
  {Create(k, [doc |-> "credentialRequest", passport |-> p,
              status |-> "PENDING"], {p}) :
     k \in Free, p \in Passports}

Pending ==
  {r \in OfKind("credentialRequest") : world[r].status = "PENDING"}

ApproveCredentialIssuance ==
  {Tx({r}, r, [world[r] EXCEPT !.status = "APPROVED"], NoEvent) : r \in Pending}

RejectCredentialIssuance ==
  {Tx({r}, r, [world[r] EXCEPT !.status = "REJECTED"], NoEvent) : r \in Pending}

-----------------------------------------------------------------------------
\* Every transaction the chaincode would make now.
Calls ==
  RegisterRawMaterial \cup CreateBatteryPassport
  \cup SetPassportExtendedAttributes \cup BindBMSIdentifier \cup BindToVehicle
  \cup RequestMaintenance \cup AddMaintenanceLog \cup AddAccidentLog
  \cup RequestAnalysis \cup SubmitAnalysisResult \cup SetRecycleAvailability
  \cup ExtractMaterials \cup DisposeBattery \cup CorrectPassportData
  \cup LinkRawMaterials
  \cup IssueCredential \cup RevokeCredential \cup LogCredentialVerification
  \cup UpdateRegulatoryVerification \cup VerifyPhysicalHistory
  \cup RecordSourceVerification \cup RequestCredentialIssuance
  \cup ApproveCredentialIssuance \cup RejectCredentialIssuance

Next == \E t \in Calls : Apply(t)

Spec == Init /\ [][Next]_ledger

-----------------------------------------------------------------------------
(* Properties.                                                             *)

\* Every reference leads to a document of its kind: credentials, requests and
\* source verifications to their passport, verifications to their credential,
\* a passport to its materials and to evidence issued for that very passport.
\* Keys share one namespace and are checked at different times.
ReferencesHold ==
  \A k \in Keys :
    /\ world[k].doc \in {"verifiableCredential", "credentialRequest",
                         "sourceVerification"} => world[k].passport \in Passports
    /\ world[k].doc = "vcVerification" =>
         world[k].credential \in OfKind("verifiableCredential")
    /\ k \in Passports =>
         /\ world[k].materials \subseteq OfKind("rawMaterial")
         /\ \A c \in world[k].evidence :
              /\ world[c].doc = "verifiableCredential"
              /\ world[c].passport = k

\* A passport holds every update ever committed to it: its logs and fields lose
\* none to a transaction that started from an older copy.
NoUpdateLost == \A p \in Passports : world[p].edits = committed[p]

\* The verification state of a passport is that of its newest verification
\* event, not of an older one (vc_tx.go 297-315, 386-407).  Events are stored
\* under keys of their own, the state in the passport that others rewrite.
VerdictsAgree == \A p \in Passports : world[p].verdict = newest[p]

\* A passport that has left MANUFACTURED is bound to a vehicle: the branch of
\* BindToVehicle for an active passport without a VIN is never needed.
UsedOnlyBound ==
  \A p \in Passports : world[p].status # "MANUFACTURED" =>
    world[p].vin /\ world[p].bound

\* The service organisation writes to the maintenance log only where the vehicle
\* manufacturer called it in (passport_tx.go 455-457).
ServiceCalledIn ==
  \A p \in Passports : "Service" \in world[p].logged =>
    "EVManufacturer" \in world[p].logged

\* The arrows of the state machine of wiki/blockchain/chaincode-security-fixes.md.
Arrows ==
  ({"MANUFACTURED", "MAINTENANCE", "ANALYSIS"} \X {"ACTIVE"})
  \cup ({"ACTIVE"} \X {"MAINTENANCE"})
  \cup ({"ACTIVE", "MAINTENANCE"} \X {"ANALYSIS"})
  \cup ({"ACTIVE", "ANALYSIS"} \X {"RECYCLING"})
  \cup ({"ACTIVE", "MAINTENANCE", "ANALYSIS", "RECYCLING"} \X {"DISPOSED"})

\* A passport changes its status along the documented arrows and no other,
\* however old the copy a call started from: MANUFACTURED leads to ACTIVE only,
\* nothing leads back to it, and nothing out of DISPOSED.
LifeFollowsArrows ==
  [][\A p \in Passports : world'[p].status # world[p].status =>
       <<world[p].status, world'[p].status>> \in Arrows]_ledger

\* Decisions are final, whoever raced for them: a request is approved or
\* rejected once, a credential stays revoked, a bound BMS stays bound.
DecisionsStay ==
  [][\A k \in Keys :
       /\ world[k].doc = "credentialRequest" =>
            world[k].status \in {"PENDING", world'[k].status}
       /\ world[k].doc = "verifiableCredential" =>
            world[k].status \in {"ACTIVE", world'[k].status}
       /\ k \in Passports => world[k].bms \in {NoBms, world'[k].bms}]_ledger

\* No document is replaced by one of another kind, passport or issuer, although
\* all kinds share one namespace and only the creating call looks for a clash.
NeverReplaced ==
  [][\A k \in Keys : world[k] # Nil =>
       /\ world'[k].doc = world[k].doc
       /\ world[k].doc = "verifiableCredential" =>
            /\ world'[k].passport = world[k].passport
            /\ world'[k].issuer = world[k].issuer]_ledger
=============================================================================
