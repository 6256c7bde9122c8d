------------------------ MODULE PassportFabricProofs ------------------------
(***************************************************************************)
(* The passport and credential calls on Fabric make the same histories as  *)
(* the calls taken one at a time, so that what CredentialsProofs shows of  *)
(* Credentials!Spec holds of FabricSpec.                                   *)
(*                                                                         *)
(* The argument is about read sets: whether the chaincode makes a          *)
(* transaction depends on the documents under the keys it has read only    *)
(* (Unaffected, call by call), and validation drops it once one of them is *)
(* written.  A call that read too little would fail here.                  *)
(***************************************************************************)
EXTENDS PassportFabric, CredentialsProofs, FiniteSetTheorems

\* Every document the transaction has read is what it was.
Unread(t) == \A k \in t.reads : world'[k] = world[k]

-----------------------------------------------------------------------------
(* The sets the operations range over, document by document.               *)

\* What is asked of one document does not depend on the others.
LEMMA SameAnswers ==
  ASSUME NEW k, world'[k] = world[k]
  PROVE  /\ k \in Loaded => k \in Loaded'
         /\ \A S : k \in In(S) => k \in In(S)'
         /\ \A d : k \in OfKind(d) => k \in OfKind(d)'
         /\ k \in Passports => k \in Passports'
         /\ k \in Free => k \in Free'
         /\ k \in Pending => k \in Pending'
         /\ \A m : CanAccess(m, k)' = CanAccess(m, k)
BY DEF Loaded, In, OfKind, Passports, Free, Pending, CanAccess

-----------------------------------------------------------------------------
(* A transaction whose reads are untouched would be made again.            *)

\* The calls that change one passport and read nothing else.
LEMMA SameUpdates ==
  ASSUME NEW t, Unread(t),
         \/ t \in SetPassportExtendedAttributes \cup BindToVehicle
         \/ t \in RequestMaintenance \cup AddMaintenanceLog \cup AddAccidentLog
         \/ t \in RequestAnalysis \cup SubmitAnalysisResult
         \/ t \in SetRecycleAvailability \cup ExtractMaterials \cup DisposeBattery
  PROVE  t \in Calls'
<1>1. CASE t \in SetPassportExtendedAttributes
  <2> DEFINE doc(d) == d
             S == Loaded
  <2>1. /\ SetPassportExtendedAttributes = {Update(q, doc(world[q])) : q \in S}
        /\ SetPassportExtendedAttributes' = {Update(q, doc(world'[q])) : q \in S'}
    BY DEF SetPassportExtendedAttributes
  <2>2. \A q \in S : world'[q] = world[q] => q \in S'
    BY SameAnswers
  <2> HIDE DEF doc, S
  <2>3. PICK p \in S : t = Update(p, doc(world[p]))
    BY <1>1, <2>1
  <2>4. world'[p] = world[p]
    BY <2>3 DEF Update, Tx, Unread
  <2> QED BY <2>1, <2>2, <2>3, <2>4 DEF Calls
<1>2. CASE t \in BindToVehicle
  <2> DEFINE doc(d) == [d EXCEPT !.vin = TRUE, !.bound = TRUE,
                              !.status = "ACTIVE"]
             S == {q \in In({"MANUFACTURED", "ACTIVE"}) :
                    ~(world[q].status = "ACTIVE" /\ world[q].vin)}
  <2>1. /\ BindToVehicle = {Update(q, doc(world[q])) : q \in S}
        /\ BindToVehicle' = {Update(q, doc(world'[q])) : q \in S'}
    BY DEF BindToVehicle
  <2>2. \A q \in S : world'[q] = world[q] => q \in S'
    BY SameAnswers
  <2> HIDE DEF doc, S
  <2>3. PICK p \in S : t = Update(p, doc(world[p]))
    BY <1>2, <2>1
  <2>4. world'[p] = world[p]
    BY <2>3 DEF Update, Tx, Unread
  <2> QED BY <2>1, <2>2, <2>3, <2>4 DEF Calls
<1>3. CASE t \in RequestMaintenance
  <2> DEFINE doc(d) == [d EXCEPT !.logged = @ \cup {"EVManufacturer"},
                              !.status = "MAINTENANCE"]
             S == {q \in In({"ACTIVE"}) : world[q].bound}
  <2>1. /\ RequestMaintenance = {Update(q, doc(world[q])) : q \in S}
        /\ RequestMaintenance' = {Update(q, doc(world'[q])) : q \in S'}
    BY DEF RequestMaintenance
  <2>2. \A q \in S : world'[q] = world[q] => q \in S'
    BY SameAnswers
  <2> HIDE DEF doc, S
  <2>3. PICK p \in S : t = Update(p, doc(world[p]))
    BY <1>3, <2>1
  <2>4. world'[p] = world[p]
    BY <2>3 DEF Update, Tx, Unread
  <2> QED BY <2>1, <2>2, <2>3, <2>4 DEF Calls
<1>4. CASE t \in AddMaintenanceLog
  <2> DEFINE doc(d) == [d EXCEPT !.logged = @ \cup {"Service"}, !.status = "ACTIVE"]
             S == {q \in In({"MAINTENANCE", "ACTIVE"}) : CanAccess("Service", q)}
  <2>1. /\ AddMaintenanceLog = {Update(q, doc(world[q])) : q \in S}
        /\ AddMaintenanceLog' = {Update(q, doc(world'[q])) : q \in S'}
    BY DEF AddMaintenanceLog
  <2>2. \A q \in S : world'[q] = world[q] => q \in S'
    BY SameAnswers
  <2> HIDE DEF doc, S
  <2>3. PICK p \in S : t = Update(p, doc(world[p]))
    BY <1>4, <2>1
  <2>4. world'[p] = world[p]
    BY <2>3 DEF Update, Tx, Unread
  <2> QED BY <2>1, <2>2, <2>3, <2>4 DEF Calls
<1>5. CASE t \in AddAccidentLog
  <2> DEFINE doc(d) == d
             S == {q \in Loaded : world[q].bound \/ CanAccess("Service", q)}
  <2>1. /\ AddAccidentLog = {Update(q, doc(world[q])) : q \in S}
        /\ AddAccidentLog' = {Update(q, doc(world'[q])) : q \in S'}
    BY DEF AddAccidentLog
  <2>2. \A q \in S : world'[q] = world[q] => q \in S'
    BY SameAnswers
  <2> HIDE DEF doc, S
  <2>3. PICK p \in S : t = Update(p, doc(world[p]))
    BY <1>5, <2>1
  <2>4. world'[p] = world[p]
    BY <2>3 DEF Update, Tx, Unread
  <2> QED BY <2>1, <2>2, <2>3, <2>4 DEF Calls
<1>6. CASE t \in RequestAnalysis
  <2> DEFINE doc(d) == [d EXCEPT !.status = "ANALYSIS"]
             S == {q \in In({"ACTIVE", "MAINTENANCE"}) : world[q].bound}
  <2>1. /\ RequestAnalysis = {Update(q, doc(world[q])) : q \in S}
        /\ RequestAnalysis' = {Update(q, doc(world'[q])) : q \in S'}
    BY DEF RequestAnalysis
  <2>2. \A q \in S : world'[q] = world[q] => q \in S'
    BY SameAnswers
  <2> HIDE DEF doc, S
  <2>3. PICK p \in S : t = Update(p, doc(world[p]))
    BY <1>6, <2>1
  <2>4. world'[p] = world[p]
    BY <2>3 DEF Update, Tx, Unread
  <2> QED BY <2>1, <2>2, <2>3, <2>4 DEF Calls
<1>7. CASE t \in SubmitAnalysisResult
  <2> DEFINE doc(d) == [d EXCEPT !.status = "ACTIVE"]
             S == In({"ANALYSIS"})
  <2>1. /\ SubmitAnalysisResult = {Update(q, doc(world[q])) : q \in S}
        /\ SubmitAnalysisResult' = {Update(q, doc(world'[q])) : q \in S'}
    BY DEF SubmitAnalysisResult
  <2>2. \A q \in S : world'[q] = world[q] => q \in S'
    BY SameAnswers
  <2> HIDE DEF doc, S
  <2>3. PICK p \in S : t = Update(p, doc(world[p]))
    BY <1>7, <2>1
  <2>4. world'[p] = world[p]
    BY <2>3 DEF Update, Tx, Unread
  <2> QED BY <2>1, <2>2, <2>3, <2>4 DEF Calls
<1>8. CASE t \in SetRecycleAvailability
  <2> DEFINE doc(d) == d
             S == In(Statuses \ {"DISPOSED"})
  <2>1. /\ SetRecycleAvailability = {Update(q, doc(world[q])) : q \in S}
        /\ SetRecycleAvailability' = {Update(q, doc(world'[q])) : q \in S'}
    BY DEF SetRecycleAvailability
  <2>2. \A q \in S : world'[q] = world[q] => q \in S'
    BY SameAnswers
  <2> HIDE DEF doc, S
  <2>3. PICK p \in S : t = Update(p, doc(world[p]))
    BY <1>8, <2>1
  <2>4. world'[p] = world[p]
    BY <2>3 DEF Update, Tx, Unread
  <2> QED BY <2>1, <2>2, <2>3, <2>4 DEF Calls
<1>9. CASE t \in ExtractMaterials
  <2> DEFINE doc(d) == [d EXCEPT !.status = "RECYCLING"]
             S == In({"ACTIVE", "ANALYSIS"})
  <2>1. /\ ExtractMaterials = {Update(q, doc(world[q])) : q \in S}
        /\ ExtractMaterials' = {Update(q, doc(world'[q])) : q \in S'}
    BY DEF ExtractMaterials
  <2>2. \A q \in S : world'[q] = world[q] => q \in S'
    BY SameAnswers
  <2> HIDE DEF doc, S
  <2>3. PICK p \in S : t = Update(p, doc(world[p]))
    BY <1>9, <2>1
  <2>4. world'[p] = world[p]
    BY <2>3 DEF Update, Tx, Unread
  <2> QED BY <2>1, <2>2, <2>3, <2>4 DEF Calls
<1>10. CASE t \in DisposeBattery
  <2> DEFINE doc(d) == [d EXCEPT !.status = "DISPOSED"]
             S == In(Statuses \ {"DISPOSED", "MANUFACTURED"})
  <2>1. /\ DisposeBattery = {Update(q, doc(world[q])) : q \in S}
        /\ DisposeBattery' = {Update(q, doc(world'[q])) : q \in S'}
    BY DEF DisposeBattery
  <2>2. \A q \in S : world'[q] = world[q] => q \in S'
    BY SameAnswers
  <2> HIDE DEF doc, S
  <2>3. PICK p \in S : t = Update(p, doc(world[p]))
    BY <1>10, <2>1
  <2>4. world'[p] = world[p]
    BY <2>3 DEF Update, Tx, Unread
  <2> QED BY <2>1, <2>2, <2>3, <2>4 DEF Calls
<1> QED BY <1>1, <1>2, <1>3, <1>4, <1>5, <1>6, <1>7, <1>8, <1>9, <1>10

\* The calls that change one passport in a way the caller chooses.
LEMMA SameChoices ==
  ASSUME NEW t, Unread(t),
         t \in BindBMSIdentifier \cup CorrectPassportData \cup VerifyPhysicalHistory
  PROVE  t \in Calls'
<1>1. CASE t \in BindBMSIdentifier
  <2> DEFINE doc(d, b) == [d EXCEPT !.bms = b]
             ids(d) == IF d.bms = NoBms THEN BmsIds ELSE {d.bms}
             B(p) == {Update(p, doc(world[p], b)) : b \in ids(world[p])}
  <2>1. /\ BindBMSIdentifier = UNION {B(p) : p \in Loaded}
        /\ BindBMSIdentifier' = UNION {B(p)' : p \in Loaded'}
    BY DEF BindBMSIdentifier
  <2>2. PICK p \in Loaded : t \in B(p)
    BY <1>1, <2>1
  <2> HIDE DEF doc, ids
  <2>3. world'[p] = world[p]
    BY <2>2 DEF Update, Tx, Unread
  <2>4. t \in B(p)'
    BY <2>2, <2>3
  <2> QED BY <2>1, <2>3, <2>4, SameAnswers DEF Calls
<1>2. CASE t \in CorrectPassportData
  <2> DEFINE doc(d, vinField) == [d EXCEPT !.vin = @ \/ vinField]
  <2>1. /\ CorrectPassportData =
             {Update(p, doc(world[p], v)) : p \in Loaded, v \in BOOLEAN}
        /\ CorrectPassportData' =
             {Update(p, doc(world'[p], v)) : p \in Loaded', v \in BOOLEAN}
    BY DEF CorrectPassportData
  <2> HIDE DEF doc
  <2>2. PICK p \in Loaded, v \in BOOLEAN : t = Update(p, doc(world[p], v))
    BY <1>2, <2>1
  <2>3. world'[p] = world[p]
    BY <2>2 DEF Update, Tx, Unread
  <2> QED BY <2>1, <2>2, <2>3, SameAnswers DEF Calls
<1>3. CASE t \in VerifyPhysicalHistory
  <2> DEFINE made(p, d, v) ==
               Tx({p}, p, Edited([d EXCEPT !.verdict["physical"] = v]),
                  Event(p, "physical", v))
  <2>1. /\ VerifyPhysicalHistory =
             {made(p, world[p], v) : p \in Loaded, v \in Verdicts}
        /\ VerifyPhysicalHistory' =
             {made(p, world'[p], v) : p \in Loaded', v \in Verdicts}
    BY DEF VerifyPhysicalHistory
  <2>2. \A p, d, v : made(p, d, v).reads = {p}
    BY DEF Tx
  <2> HIDE DEF made
  <2>3. PICK p \in Loaded, v \in Verdicts : t = made(p, world[p], v)
    BY <1>3, <2>1
  <2>4. world'[p] = world[p]
    BY <2>2, <2>3 DEF Unread
  <2> QED BY <2>1, <2>3, <2>4, SameAnswers DEF Calls
<1> QED BY <1>1, <1>2, <1>3

\* The calls that put references to documents they have read into a passport.
LEMMA SameLinks ==
  ASSUME NEW t, Unread(t), t \in LinkRawMaterials \cup UpdateRegulatoryVerification
  PROVE  t \in Calls'
<1>1. CASE t \in LinkRawMaterials
  <2> DEFINE linked(p, d, ms) ==
               Tx({p} \cup ms, p, Edited([d EXCEPT !.materials = @ \cup ms]), NoEvent)
             Choices(p) == {ns \in SUBSET OfKind("rawMaterial") :
                              ~(ns \subseteq world[p].materials)}
             L(p) == {linked(p, world[p], ms) : ms \in Choices(p)}
  <2>1. /\ LinkRawMaterials = UNION {L(p) : p \in Loaded}
        /\ LinkRawMaterials' = UNION {L(p)' : p \in Loaded'}
    BY DEF LinkRawMaterials
  <2>2. \A p, d, ms : linked(p, d, ms).reads = {p} \cup ms
    BY DEF Tx
  <2> HIDE DEF linked
  <2>3. PICK p \in Loaded : t \in L(p)
    BY <1>1, <2>1
  <2>4. PICK ms \in Choices(p) : t = linked(p, world[p], ms)
    BY <2>3
  <2>5. world'[p] = world[p] /\ \A m \in ms : world'[m] = world[m]
    BY <2>2, <2>4 DEF Unread
  <2>6. ms \in Choices(p)'
    BY <2>4, <2>5, SameAnswers
  <2>7. t \in L(p)'
    BY <2>4, <2>5, <2>6
  <2> QED BY <2>1, <2>5, <2>7, SameAnswers DEF Calls
<1>2. CASE t \in UpdateRegulatoryVerification
  <2> DEFINE judged(p, d, es, v) ==
               Tx({p} \cup es, p,
                  Edited([d EXCEPT !.verdict["regulatory"] = v, !.evidence = es]),
                  Event(p, "regulatory", v))
             Choices(p) == SUBSET EvidenceFor(p)
  <2>1. \A p : /\ Regulated(p) = {judged(p, world[p], es, v) :
                                    es \in Choices(p), v \in Verdicts}
               /\ Regulated(p)' = {judged(p, world'[p], es, v) :
                                     es \in Choices(p)', v \in Verdicts}
    BY DEF Regulated, Judged
  <2>2. \A p, d, es, v : judged(p, d, es, v).reads = {p} \cup es
    BY DEF Tx
  <2>3. PICK p \in Loaded : t \in Regulated(p)
    BY <1>2 DEF UpdateRegulatoryVerification
  <2>4. \A es \in Choices(p) :
          (\A c \in es : world'[c] = world[c]) => es \in Choices(p)'
    BY SameAnswers DEF EvidenceFor
  <2> HIDE DEF judged, Choices
  <2>5. PICK es \in Choices(p), v \in Verdicts : t = judged(p, world[p], es, v)
    BY <2>1, <2>3
  <2>6. world'[p] = world[p] /\ \A c \in es : world'[c] = world[c]
    BY <2>2, <2>5 DEF Unread
  <2>7. t \in Regulated(p)'
    BY <2>1, <2>4, <2>5, <2>6
  <2>8. t \in UpdateRegulatoryVerification'
    BY <2>6, <2>7, SameAnswers DEF UpdateRegulatoryVerification
  <2> QED BY <2>8 DEF Calls
<1> QED BY <1>1, <1>2

\* The calls that create a document.
LEMMA SameCreations ==
  ASSUME NEW t, Unread(t),
         \/ t \in RegisterRawMaterial \cup CreateBatteryPassport \cup IssueCredential
         \/ t \in LogCredentialVerification \cup RecordSourceVerification
         \/ t \in RequestCredentialIssuance
  PROVE  t \in Calls'
<1>1. CASE t \in RegisterRawMaterial
  <2>1. PICK k \in Free : t = Create(k, RawMaterial, {})
    BY <1>1 DEF RegisterRawMaterial
  <2>2. k \in Free'
    BY <2>1, SameAnswers DEF Create, Tx, Unread
  <2>3. t \in RegisterRawMaterial'
    BY <2>1, <2>2 DEF RegisterRawMaterial
  <2> QED BY <2>3 DEF Calls
<1>2. CASE t \in CreateBatteryPassport
  <2> DEFINE new == [doc |-> "batteryPassport", status |-> "MANUFACTURED",
                     vin |-> FALSE, bound |-> FALSE, logged |-> {}, bms |-> NoBms,
                     materials |-> {}, evidence |-> {}, verdict |-> NoVerdict,
                     edits |-> 0]
  <2>1. /\ CreateBatteryPassport = {Create(k, new, {}) : k \in Free}
        /\ CreateBatteryPassport' = {Create(k, new, {}) : k \in Free'}
    BY DEF CreateBatteryPassport
  <2> HIDE DEF new
  <2>2. PICK k \in Free : t = Create(k, new, {})
    BY <1>2, <2>1
  <2>3. k \in Free'
    BY <2>2, SameAnswers DEF Create, Tx, Unread
  <2> QED BY <2>1, <2>2, <2>3 DEF Calls
<1>3. CASE t \in IssueCredential
  <2>1. PICK m \in Issuers : t \in IssuedBy(m)
    BY <1>3 DEF IssueCredential
  <2>2. PICK k \in Free, p \in {q \in Passports : CanAccess(m, q)} :
          t = Create(k, NewCredential(p, m), {p})
    BY <2>1 DEF IssuedBy
  <2>3. world'[k] = world[k] /\ world'[p] = world[p]
    BY <2>2 DEF Create, Tx, Unread
  <2>4. k \in Free' /\ p \in Passports' /\ CanAccess(m, p)'
    BY <2>3, SameAnswers
  <2>5. t \in IssuedBy(m)'
    BY <2>2, <2>4 DEF IssuedBy
  <2>6. t \in IssueCredential'
    BY <2>5 DEF IssueCredential
  <2> QED BY <2>6 DEF Calls
<1>4. CASE t \in LogCredentialVerification
  <2> DEFINE made(k, c) ==
               Create(k, [doc |-> "vcVerification", credential |-> c], {c})
  <2>1. /\ LogCredentialVerification =
             {made(k, c) : k \in Free, c \in OfKind("verifiableCredential")}
        /\ LogCredentialVerification' =
             {made(k, c) : k \in Free', c \in OfKind("verifiableCredential")'}
    BY DEF LogCredentialVerification
  <2>2. \A k, c : made(k, c).reads = {k, c}
    BY DEF Create, Tx
  <2> HIDE DEF made
  <2>3. PICK k \in Free, c \in OfKind("verifiableCredential") : t = made(k, c)
    BY <1>4, <2>1
  <2>4. k \in Free' /\ c \in OfKind("verifiableCredential")'
    BY <2>2, <2>3, SameAnswers DEF Unread
  <2> QED BY <2>1, <2>3, <2>4 DEF Calls
<1>5. CASE t \in RecordSourceVerification
  <2> DEFINE made(k, p) ==
               Create(k, [doc |-> "sourceVerification", passport |-> p], {p})
  <2>1. /\ RecordSourceVerification =
             {made(k, p) : k \in Free, p \in Passports}
        /\ RecordSourceVerification' =
             {made(k, p) : k \in Free', p \in Passports'}
    BY DEF RecordSourceVerification
  <2>2. \A k, p : made(k, p).reads = {k, p}
    BY DEF Create, Tx
  <2> HIDE DEF made
  <2>3. PICK k \in Free, p \in Passports : t = made(k, p)
    BY <1>5, <2>1
  <2>4. k \in Free' /\ p \in Passports'
    BY <2>2, <2>3, SameAnswers DEF Unread
  <2> QED BY <2>1, <2>3, <2>4 DEF Calls
<1>6. CASE t \in RequestCredentialIssuance
  <2> DEFINE made(k, p) ==
               Create(k, [doc |-> "credentialRequest", passport |-> p,
                      status |-> "PENDING"], {p})
  <2>1. /\ RequestCredentialIssuance =
             {made(k, p) : k \in Free, p \in Passports}
        /\ RequestCredentialIssuance' =
             {made(k, p) : k \in Free', p \in Passports'}
    BY DEF RequestCredentialIssuance
  <2>2. \A k, p : made(k, p).reads = {k, p}
    BY DEF Create, Tx
  <2> HIDE DEF made
  <2>3. PICK k \in Free, p \in Passports : t = made(k, p)
    BY <1>6, <2>1
  <2>4. k \in Free' /\ p \in Passports'
    BY <2>2, <2>3, SameAnswers DEF Unread
  <2> QED BY <2>1, <2>3, <2>4 DEF Calls
<1> QED BY <1>1, <1>2, <1>3, <1>4, <1>5, <1>6

\* The calls that decide a credential or a request.
LEMMA SameDecisions ==
  ASSUME NEW t, Unread(t),
         t \in RevokeCredential \cup ApproveCredentialIssuance
                \cup RejectCredentialIssuance
  PROVE  t \in Calls'
<1>1. CASE t \in RevokeCredential
  <2> DEFINE made(k, d) == Tx({k}, k, [d EXCEPT !.status = "REVOKED"], NoEvent)
             S == {d \in OfKind("verifiableCredential") : world[d].status = "ACTIVE"}
  <2>1. /\ RevokeCredential = {made(k, world[k]) : k \in S}
        /\ RevokeCredential' = {made(k, world'[k]) : k \in S'}
    BY DEF RevokeCredential
  <2>2. /\ \A k, d : made(k, d).reads = {k}
        /\ \A k \in S : world'[k] = world[k] => k \in S'
    BY SameAnswers DEF Tx
  <2> HIDE DEF made, S
  <2>3. PICK k \in S : t = made(k, world[k])
    BY <1>1, <2>1
  <2>4. world'[k] = world[k]
    BY <2>2, <2>3 DEF Unread
  <2> QED BY <2>1, <2>2, <2>3, <2>4 DEF Calls
<1>2. CASE t \in ApproveCredentialIssuance
  <2> DEFINE made(k, d) == Tx({k}, k, [d EXCEPT !.status = "APPROVED"], NoEvent)
             S == Pending
  <2>1. /\ ApproveCredentialIssuance = {made(k, world[k]) : k \in S}
        /\ ApproveCredentialIssuance' = {made(k, world'[k]) : k \in S'}
    BY DEF ApproveCredentialIssuance
  <2>2. /\ \A k, d : made(k, d).reads = {k}
        /\ \A k \in S : world'[k] = world[k] => k \in S'
    BY SameAnswers DEF Tx
  <2> HIDE DEF made, S
  <2>3. PICK k \in S : t = made(k, world[k])
    BY <1>2, <2>1
  <2>4. world'[k] = world[k]
    BY <2>2, <2>3 DEF Unread
  <2> QED BY <2>1, <2>2, <2>3, <2>4 DEF Calls
<1>3. CASE t \in RejectCredentialIssuance
  <2> DEFINE made(k, d) == Tx({k}, k, [d EXCEPT !.status = "REJECTED"], NoEvent)
             S == Pending
  <2>1. /\ RejectCredentialIssuance = {made(k, world[k]) : k \in S}
        /\ RejectCredentialIssuance' = {made(k, world'[k]) : k \in S'}
    BY DEF RejectCredentialIssuance
  <2>2. /\ \A k, d : made(k, d).reads = {k}
        /\ \A k \in S : world'[k] = world[k] => k \in S'
    BY SameAnswers DEF Tx
  <2> HIDE DEF made, S
  <2>3. PICK k \in S : t = made(k, world[k])
    BY <1>3, <2>1
  <2>4. world'[k] = world[k]
    BY <2>2, <2>3 DEF Unread
  <2> QED BY <2>1, <2>2, <2>3, <2>4 DEF Calls
<1> QED BY <1>1, <1>2, <1>3

\* Whether a transaction would be made depends on what it has read only.
LEMMA Unaffected ==
  ASSUME NEW t \in Calls, Unread(t)
  PROVE  t \in Calls'
BY SameUpdates, SameChoices, SameLinks, SameCreations, SameDecisions DEF Calls

-----------------------------------------------------------------------------
(* Fabric adds no behaviour.                                               *)

\* Every pending transaction is one the chaincode would make now.
Current == pending \subseteq Calls

\* What is committed at once is a call of the present state.
LEMMA Submitted ==
  ASSUME NEW S, Submit(S), S \subseteq Calls
  PROVE  \E t \in Calls : Committed(t)
BY DEF Submit

\* Every step of Fabric endorses a call or commits one.
LEMMA Steps ==
  ASSUME TypeOK, Current, FabricNext
  PROVE  Endorse \/ \E t \in Calls : Committed(t)
<1>1. CASE Commit
  BY <1>1 DEF Commit, Current
<1>2. ASSUME NEW S \in {RegisterRawMaterial, CreateBatteryPassport,
         SetPassportExtendedAttributes, BindBMSIdentifier, BindToVehicle,
         RequestMaintenance, AddMaintenanceLog, AddAccidentLog, RequestAnalysis,
         SubmitAnalysisResult, SetRecycleAvailability, ExtractMaterials,
         DisposeBattery, CorrectPassportData, LinkRawMaterials, IssueCredential,
         RevokeCredential, LogCredentialVerification,
         UpdateRegulatoryVerification, VerifyPhysicalHistory,
         RecordSourceVerification, RequestCredentialIssuance,
         ApproveCredentialIssuance, RejectCredentialIssuance}
      PROVE  S \subseteq Calls
  BY <1>2 DEF Calls
<1> QED BY <1>1, <1>2, Submitted DEF FabricNext

\* A commit leaves only current transactions pending.
LEMMA CommitKeepsCurrent ==
  ASSUME TypeOK, Current, NEW t \in Calls, Committed(t)
  PROVE  Current'
<1> SUFFICES ASSUME NEW u \in pending'
             PROVE  u \in Calls'
  BY DEF Current
<1>1. u \in Calls /\ t.key \notin u.reads
  BY DEF Committed, StillValid, Current
<1>2. Apply(t) /\ world \in [Keys -> Docs]
  BY DEF Committed, TypeOK, Docs
<1>3. world' = [world EXCEPT ![t.key] = t.doc]
  BY <1>2 DEF Apply
<1>4. \A k \in u.reads : world'[k] = world[k]
  BY <1>1, <1>2, <1>3
<1> QED BY <1>1, <1>4, Unaffected DEF Unread

\* The pending transactions stay current.
LEMMA CurrentAlways == FabricSpec => [](TypeOK /\ Current)
<1>1. FabricInit => TypeOK /\ Current
  BY DEF FabricInit, Init, TypeOK, NoVerdict, Current
<1>2. TypeOK /\ Current /\ [FabricNext]_fabric => (TypeOK /\ Current)'
  <2> SUFFICES ASSUME TypeOK, Current, [FabricNext]_fabric
               PROVE  TypeOK' /\ Current'
    OBVIOUS
  <2>1. ASSUME UNCHANGED ledger
        PROVE  TypeOK' /\ Calls \subseteq Calls'
    BY <2>1, TypeStep, Unaffected DEF ledger, Unread
  <2>2. CASE UNCHANGED fabric \/ Endorse
    BY <2>1, <2>2 DEF fabric, ledger, Endorse, Current
  <2>3. ASSUME NEW t \in Calls, Committed(t)
        PROVE  TypeOK' /\ Current'
    BY <2>3, TypeStep, CommitKeepsCurrent DEF Committed, Next
  <2> QED BY <2>2, <2>3, Steps
<1> QED BY <1>1, <1>2, PTL DEF FabricSpec

\* Fabric implements the calls taken one at a time.
THEOREM Serializes == FabricSpec => Serializable
<1>1. FabricInit => Init
  BY DEF FabricInit
<1>2. TypeOK /\ Current /\ [FabricNext]_fabric => [Next]_ledger
  <2> SUFFICES ASSUME TypeOK, Current, FabricNext
               PROVE  Next \/ UNCHANGED ledger
    BY DEF fabric, ledger
  <2> QED BY Steps DEF Endorse, Committed, Next
<1> QED BY <1>1, <1>2, CurrentAlways, PTL DEF FabricSpec, Serializable, Spec

\* Finitely many transactions are pending, within the bound.
Bounded == IsFiniteSet(pending) /\ Cardinality(pending) <= MaxPending

\* Every reachable state of the chaincode on Fabric keeps to its types.
THEOREM FabricTypeCorrect == FabricSpec => []FabricTypeOK
<1>1. FabricInit => Bounded
  BY FS_EmptySet, PendingAssumption DEF FabricInit, Bounded
<1>2. Bounded /\ [FabricNext]_fabric => Bounded'
  <2> SUFFICES ASSUME Bounded, [FabricNext]_fabric
               PROVE  Bounded'
    OBVIOUS
  <2>1. CASE UNCHANGED fabric
    BY <2>1 DEF fabric, Bounded
  <2>2. CASE Endorse
    <3>1. PICK t : pending' = pending \cup {t}
      BY <2>2 DEF Endorse
    <3>2. /\ IsFiniteSet(pending')
          /\ Cardinality(pending') \in {Cardinality(pending), Cardinality(pending) + 1}
      BY <3>1, FS_AddElement DEF Bounded
    <3>3. Cardinality(pending) \in Nat /\ Cardinality(pending) < MaxPending
      BY <2>2, FS_CardinalityType DEF Endorse, Bounded
    <3> QED BY <3>2, <3>3, PendingAssumption DEF Bounded
  <2>3. ASSUME NEW t, Committed(t)
        PROVE  Bounded'
    <3>1. pending' \subseteq pending
      BY <2>3 DEF Committed
    <3>2. IsFiniteSet(pending') /\ Cardinality(pending') <= Cardinality(pending)
      BY <3>1, FS_Subset DEF Bounded
    <3>3. Cardinality(pending) \in Nat /\ Cardinality(pending') \in Nat
      BY <3>2, FS_CardinalityType DEF Bounded
    <3> QED BY <3>2, <3>3, PendingAssumption DEF Bounded
  <2> QED BY <2>1, <2>2, <2>3 DEF FabricNext, Commit, Submit
<1>3. TypeOK /\ Current /\ Bounded => FabricTypeOK
  <2> SUFFICES ASSUME TypeOK, Current, NEW t \in pending
               PROVE  t.reads \subseteq Keys /\ t.key \in Keys
    BY DEF Bounded, FabricTypeOK
  <2> QED BY Written DEF Current
<1> QED BY <1>1, <1>2, <1>3, CurrentAlways, PTL DEF FabricSpec

\* On Fabric, no update is lost to a transaction endorsed on an older copy.
THEOREM FabricKeepsUpdates == FabricSpec => []NoUpdateLost
BY Serializes, UpdatesAreKept, PTL DEF Serializable

\* On Fabric, verdicts and events agree.
THEOREM FabricVerdicts == FabricSpec => []VerdictsAgree
BY Serializes, VerdictsFollowEvents, PTL DEF Serializable

\* On Fabric, every reference leads to a document of its kind.
THEOREM FabricReferences == FabricSpec => []ReferencesHold
BY Serializes, References, PTL DEF Serializable

\* On Fabric, a passport in use is bound to a vehicle.
THEOREM FabricUsedOnlyBound == FabricSpec => []UsedOnlyBound
BY Serializes, OnlyBoundIsUsed, PTL DEF Serializable

\* On Fabric, the service organisation writes only where it was called in.
THEOREM FabricServiceCalledIn == FabricSpec => []ServiceCalledIn
BY Serializes, OnlyWhereCalled, PTL DEF Serializable

\* On Fabric, the status of a passport follows the documented arrows.
THEOREM FabricLifeKeepsToArrows == FabricSpec => LifeFollowsArrows
BY Serializes, LifeKeepsToArrows, PTL DEF Serializable

\* On Fabric, decisions are final.
THEOREM FabricDecisions == FabricSpec => DecisionsStay
BY Serializes, DecisionsAreFinal, PTL DEF Serializable

\* On Fabric, no document is replaced.
THEOREM FabricNothingReplaced == FabricSpec => NeverReplaced
BY Serializes, NothingReplaced, PTL DEF Serializable
=============================================================================
