-------------------------- MODULE CredentialsProofs --------------------------
(***************************************************************************)
(* Theorems about the passport and credential calls taken one at a time,   *)
(* Credentials!Spec.                                                       *)
(*                                                                         *)
(* Every call is of one of three kinds: it creates a document under a free *)
(* key, it changes a passport within certain rules, or it decides a        *)
(* credential or a request.  CallKinds shows this call by call; the        *)
(* theorems rest on the kinds alone.                                       *)
(***************************************************************************)
EXTENDS Credentials, TLAPS

Docs == {Nil, RawMaterial} \cup Passport \cup Credential
          \cup Request \cup Verification \cup SourceVerification

\* Where each status may lead in one update.
MayBecome(old, new) ==
  \/ new = old
  \/ old = "MANUFACTURED" /\ new = "ACTIVE"
  \/ old = "ACTIVE" /\ new \in {"MAINTENANCE", "ANALYSIS", "RECYCLING", "DISPOSED"}
  \/ old = "MAINTENANCE" /\ new \in {"ACTIVE", "ANALYSIS", "DISPOSED"}
  \/ old = "ANALYSIS" /\ new \in {"ACTIVE", "RECYCLING", "DISPOSED"}
  \/ old = "RECYCLING" /\ new = "DISPOSED"

\* What an update of passport p may make of it.
Keeps(old, new, p) ==
  /\ MayBecome(old.status, new.status)
  /\ old.vin = TRUE => new.vin = TRUE
  /\ old.bound = TRUE => new.bound = TRUE
  /\ old.status = "MANUFACTURED" /\ new.status # "MANUFACTURED" =>
       new.vin = TRUE /\ new.bound = TRUE
  /\ old.logged \subseteq new.logged
  /\ new.status = "MAINTENANCE" /\ old.status # "MAINTENANCE" =>
       "EVManufacturer" \in new.logged
  /\ "Service" \in new.logged \ old.logged => old.status = "MAINTENANCE"
  /\ old.bms \in {NoBms, new.bms}
  /\ new.materials \subseteq old.materials \cup OfKind("rawMaterial")
  /\ new.evidence = old.evidence \/ new.evidence \subseteq EvidenceFor(p)

\* The event stored with the update is about what it does to the verdicts.
Reported(old, new, p, event) ==
  \/ event = NoEvent /\ new.verdict = old.verdict
  \/ \E c \in Checks, v \in Verdicts :
       /\ event = Event(p, c, v)
       /\ new.verdict = [old.verdict EXCEPT ![c] = v]

PassportUpdate(t) ==
  /\ t.reads \subseteq Keys
  /\ t.key \in Passports
  /\ t.doc \in Passport
  /\ t.doc.edits = world[t.key].edits + 1
  /\ Keeps(world[t.key], t.doc, t.key)
  /\ Reported(world[t.key], t.doc, t.key, t.event)

NewPassport(doc) ==
  /\ doc \in Passport
  /\ doc.status = "MANUFACTURED"
  /\ doc.logged = {} /\ doc.materials = {} /\ doc.evidence = {}
  /\ doc.verdict = NoVerdict
  /\ doc.edits = 0

NewDocument(doc) ==
  \/ doc = RawMaterial
  \/ NewPassport(doc)
  \/ doc \in Credential \cup Request \cup SourceVerification
       /\ doc.passport \in Passports
  \/ doc \in Verification
       /\ doc.credential \in OfKind("verifiableCredential")

Creation(t) ==
  /\ t.reads \subseteq Keys
  /\ t.key \in Free
  /\ t.event = NoEvent
  /\ NewDocument(t.doc)

Decision(t) ==
  /\ t.reads \subseteq Keys
  /\ t.event = NoEvent
  /\ \/ /\ t.key \in OfKind("verifiableCredential")
        /\ world[t.key].status = "ACTIVE"
        /\ t.doc \in Credential
        /\ t.doc.passport = world[t.key].passport
        /\ t.doc.issuer = world[t.key].issuer
     \/ /\ t.key \in OfKind("credentialRequest")
        /\ world[t.key].status = "PENDING"
        /\ t.doc \in Request
        /\ t.doc.passport = world[t.key].passport

-----------------------------------------------------------------------------
(* What a document is, by its docType.                                     *)

\* The docType tells what kind of record a document is.
LEMMA DocKinds ==
  ASSUME TypeOK, NEW k \in Keys
  PROVE  /\ world[k] \in Docs
         /\ k \in Passports => world[k] \in Passport
         /\ k \in OfKind("verifiableCredential") => world[k] \in Credential
         /\ k \in OfKind("credentialRequest") => world[k] \in Request
<1>1. world[k] \in Docs
  BY DEF TypeOK, Docs
<1>2. k \in Passports => world[k] \in Passport
  BY <1>1 DEF Docs, Passports, OfKind, Nil, RawMaterial, Credential, Request,
     Verification, SourceVerification
<1>3. k \in OfKind("verifiableCredential") => world[k] \in Credential
  BY <1>1 DEF Docs, Passport, OfKind, Nil, RawMaterial, Request,
     Verification, SourceVerification
<1>4. k \in OfKind("credentialRequest") => world[k] \in Request
  BY <1>1 DEF Docs, Passport, OfKind, Nil, RawMaterial, Credential,
     Verification, SourceVerification
<1> QED BY <1>1, <1>2, <1>3, <1>4

\* A passport that could be loaded is a passport document.
LEMMA LoadedPassport ==
  ASSUME TypeOK, NEW p \in Loaded
  PROVE  p \in Keys /\ p \in Passports /\ world[p] \in Passport
BY DocKinds DEF Loaded, Passports, OfKind

-----------------------------------------------------------------------------
(* The calls, by kind.                                                     *)

\* A changed document that keeps the rules makes an update of its passport.
LEMMA UpdateOK ==
  ASSUME TypeOK, NEW p \in Passports, NEW doc \in Passport,
         doc.edits = world[p].edits, Keeps(world[p], doc, p),
         NEW reads, reads \subseteq Keys, NEW event, Reported(world[p], doc, p, event)
  PROVE  PassportUpdate(Tx(reads, p, Edited(doc), event))
<1> DEFINE t == Tx(reads, p, Edited(doc), event)
<1>1. t.key = p /\ t.doc = Edited(doc) /\ t.event = event /\ t.reads = reads
  BY DEF Tx
<1>2. /\ Edited(doc) \in Passport
      /\ Edited(doc).edits = world[p].edits + 1
      /\ Edited(doc).status = doc.status
      /\ Edited(doc).vin = doc.vin
      /\ Edited(doc).bound = doc.bound
      /\ Edited(doc).logged = doc.logged
      /\ Edited(doc).bms = doc.bms
      /\ Edited(doc).materials = doc.materials
      /\ Edited(doc).evidence = doc.evidence
      /\ Edited(doc).verdict = doc.verdict
  BY DEF Edited, Passport
<1>3. Keeps(world[p], Edited(doc), p)
  BY <1>2 DEF Keeps
<1>4. Reported(world[p], Edited(doc), p, event)
  BY <1>2 DEF Reported
<1> HIDE DEF t
<1>5. PassportUpdate(t)
  BY <1>1, <1>2, <1>3, <1>4 DEF PassportUpdate
<1> QED BY <1>5 DEF t

\* The calls that change a passport without an event or a reference.
LEMMA PlainUpdates ==
  ASSUME TypeOK, NEW t,
         \/ t \in SetPassportExtendedAttributes \cup BindBMSIdentifier
         \/ t \in BindToVehicle \cup RequestMaintenance \cup AddMaintenanceLog
         \/ t \in AddAccidentLog \cup RequestAnalysis \cup SubmitAnalysisResult
         \/ t \in SetRecycleAvailability \cup ExtractMaterials
         \/ t \in DisposeBattery \cup CorrectPassportData
  PROVE  PassportUpdate(t)
<1>1. CASE t \in SetPassportExtendedAttributes
  <2>1. PICK p \in Loaded : t = Update(p, world[p])
    BY <1>1 DEF SetPassportExtendedAttributes, In
  <2>2. p \in Keys /\ p \in Passports /\ world[p] \in Passport
    BY LoadedPassport
  <2>3. Keeps(world[p], world[p], p) /\ Reported(world[p], world[p], p, NoEvent)
    BY <2>2 DEF Keeps, MayBecome, Reported, Passport
  <2> QED BY <2>1, <2>2, <2>3, UpdateOK DEF Update
<1>2. CASE t \in BindToVehicle
  <2> DEFINE doc(p) == [world[p] EXCEPT !.vin = TRUE, !.bound = TRUE, !.status = "ACTIVE"]
  <2>1. PICK p \in Loaded :
          /\ t = Update(p, doc(p))
          /\ world[p].status \in {"MANUFACTURED", "ACTIVE"}
    BY <1>2 DEF BindToVehicle, In
  <2>2. p \in Keys /\ p \in Passports /\ world[p] \in Passport
    BY LoadedPassport
  <2>3. /\ doc(p) \in Passport /\ doc(p).edits = world[p].edits
        /\ Keeps(world[p], doc(p), p)
        /\ Reported(world[p], doc(p), p, NoEvent)
    BY <2>1, <2>2 DEF Passport, Statuses, Msps, Keeps, MayBecome, Reported
  <2> HIDE DEF doc
  <2> QED BY <2>1, <2>2, <2>3, UpdateOK DEF Update
<1>3. CASE t \in RequestMaintenance
  <2> DEFINE doc(p) == [world[p] EXCEPT !.logged = @ \cup {"EVManufacturer"},
                                !.status = "MAINTENANCE"]
  <2>1. PICK p \in Loaded :
          /\ t = Update(p, doc(p))
          /\ world[p].status = "ACTIVE"
    BY <1>3 DEF RequestMaintenance, In
  <2>2. p \in Keys /\ p \in Passports /\ world[p] \in Passport
    BY LoadedPassport
  <2>3. /\ doc(p) \in Passport /\ doc(p).edits = world[p].edits
        /\ Keeps(world[p], doc(p), p)
        /\ Reported(world[p], doc(p), p, NoEvent)
    BY <2>1, <2>2 DEF Passport, Statuses, Msps, Keeps, MayBecome, Reported
  <2> HIDE DEF doc
  <2> QED BY <2>1, <2>2, <2>3, UpdateOK DEF Update
<1>4. CASE t \in AddMaintenanceLog
  <2> DEFINE doc(p) == [world[p] EXCEPT !.logged = @ \cup {"Service"},
                                        !.status = "ACTIVE"]
  <2>1. PICK p \in Loaded :
          /\ t = Update(p, doc(p))
          /\ world[p].status \in {"MAINTENANCE", "ACTIVE"}
          /\ world[p].status = "MAINTENANCE" \/ "Service" \in world[p].logged
    BY <1>4 DEF AddMaintenanceLog, In, CanAccess
  <2>2. p \in Keys /\ p \in Passports /\ world[p] \in Passport
    BY LoadedPassport
  <2>3. /\ doc(p) \in Passport /\ doc(p).edits = world[p].edits
        /\ Keeps(world[p], doc(p), p)
        /\ Reported(world[p], doc(p), p, NoEvent)
    BY <2>1, <2>2 DEF Passport, Statuses, Msps, Keeps, MayBecome, Reported
  <2> HIDE DEF doc
  <2> QED BY <2>1, <2>2, <2>3, UpdateOK DEF Update
<1>5. CASE t \in AddAccidentLog
  <2>1. PICK p \in Loaded : t = Update(p, world[p])
    BY <1>5 DEF AddAccidentLog, In
  <2>2. p \in Keys /\ p \in Passports /\ world[p] \in Passport
    BY LoadedPassport
  <2>3. Keeps(world[p], world[p], p) /\ Reported(world[p], world[p], p, NoEvent)
    BY <2>2 DEF Keeps, MayBecome, Reported, Passport
  <2> QED BY <2>1, <2>2, <2>3, UpdateOK DEF Update
<1>6. CASE t \in RequestAnalysis
  <2> DEFINE doc(p) == [world[p] EXCEPT !.status = "ANALYSIS"]
  <2>1. PICK p \in Loaded :
          /\ t = Update(p, doc(p))
          /\ world[p].status \in {"ACTIVE", "MAINTENANCE"}
    BY <1>6 DEF RequestAnalysis, In
  <2>2. p \in Keys /\ p \in Passports /\ world[p] \in Passport
    BY LoadedPassport
  <2>3. /\ doc(p) \in Passport /\ doc(p).edits = world[p].edits
        /\ Keeps(world[p], doc(p), p)
        /\ Reported(world[p], doc(p), p, NoEvent)
    BY <2>1, <2>2 DEF Passport, Statuses, Msps, Keeps, MayBecome, Reported
  <2> HIDE DEF doc
  <2> QED BY <2>1, <2>2, <2>3, UpdateOK DEF Update
<1>7. CASE t \in SubmitAnalysisResult
  <2> DEFINE doc(p) == [world[p] EXCEPT !.status = "ACTIVE"]
  <2>1. PICK p \in Loaded :
          /\ t = Update(p, doc(p))
          /\ world[p].status = "ANALYSIS"
    BY <1>7 DEF SubmitAnalysisResult, In
  <2>2. p \in Keys /\ p \in Passports /\ world[p] \in Passport
    BY LoadedPassport
  <2>3. /\ doc(p) \in Passport /\ doc(p).edits = world[p].edits
        /\ Keeps(world[p], doc(p), p)
        /\ Reported(world[p], doc(p), p, NoEvent)
    BY <2>1, <2>2 DEF Passport, Statuses, Msps, Keeps, MayBecome, Reported
  <2> HIDE DEF doc
  <2> QED BY <2>1, <2>2, <2>3, UpdateOK DEF Update
<1>8. CASE t \in SetRecycleAvailability
  <2>1. PICK p \in Loaded : t = Update(p, world[p])
    BY <1>8 DEF SetRecycleAvailability, In
  <2>2. p \in Keys /\ p \in Passports /\ world[p] \in Passport
    BY LoadedPassport
  <2>3. Keeps(world[p], world[p], p) /\ Reported(world[p], world[p], p, NoEvent)
    BY <2>2 DEF Keeps, MayBecome, Reported, Passport
  <2> QED BY <2>1, <2>2, <2>3, UpdateOK DEF Update
<1>9. CASE t \in ExtractMaterials
  <2> DEFINE doc(p) == [world[p] EXCEPT !.status = "RECYCLING"]
  <2>1. PICK p \in Loaded :
          /\ t = Update(p, doc(p))
          /\ world[p].status \in {"ACTIVE", "ANALYSIS"}
    BY <1>9 DEF ExtractMaterials, In
  <2>2. p \in Keys /\ p \in Passports /\ world[p] \in Passport
    BY LoadedPassport
  <2>3. /\ doc(p) \in Passport /\ doc(p).edits = world[p].edits
        /\ Keeps(world[p], doc(p), p)
        /\ Reported(world[p], doc(p), p, NoEvent)
    BY <2>1, <2>2 DEF Passport, Statuses, Msps, Keeps, MayBecome, Reported
  <2> HIDE DEF doc
  <2> QED BY <2>1, <2>2, <2>3, UpdateOK DEF Update
<1>10. CASE t \in DisposeBattery
  <2> DEFINE doc(p) == [world[p] EXCEPT !.status = "DISPOSED"]
  <2>1. PICK p \in Loaded :
          /\ t = Update(p, doc(p))
          /\ world[p].status \in Statuses \ {"DISPOSED", "MANUFACTURED"}
    BY <1>10 DEF DisposeBattery, In
  <2>2. p \in Keys /\ p \in Passports /\ world[p] \in Passport
    BY LoadedPassport
  <2>3. /\ doc(p) \in Passport /\ doc(p).edits = world[p].edits
        /\ Keeps(world[p], doc(p), p)
        /\ Reported(world[p], doc(p), p, NoEvent)
    BY <2>1, <2>2 DEF Passport, Statuses, Msps, Keeps, MayBecome, Reported
  <2> HIDE DEF doc
  <2> QED BY <2>1, <2>2, <2>3, UpdateOK DEF Update
<1>11. CASE t \in BindBMSIdentifier
  <2> DEFINE doc(p, b) == [world[p] EXCEPT !.bms = b]
  <2>1. PICK p \in Loaded, b \in BmsIds \cup {NoBms} :
          /\ t = Update(p, doc(p, b))
          /\ world[p].bms \in {NoBms, b}
    <3>1. PICK q \in Loaded :
            t \in {Update(q, doc(q, b)) :
                     b \in IF world[q].bms = NoBms THEN BmsIds ELSE {world[q].bms}}
      BY <1>11 DEF BindBMSIdentifier
    <3>2. world[q].bms \in BmsIds \cup {NoBms}
      BY LoadedPassport DEF Passport
    <3> HIDE DEF doc
    <3> QED BY <3>1, <3>2
  <2>2. p \in Keys /\ p \in Passports /\ world[p] \in Passport
    BY LoadedPassport
  <2>3. /\ doc(p, b) \in Passport /\ doc(p, b).edits = world[p].edits
        /\ Keeps(world[p], doc(p, b), p)
        /\ Reported(world[p], doc(p, b), p, NoEvent)
    BY <2>1, <2>2 DEF Passport, Keeps, MayBecome, Reported
  <2> HIDE DEF doc
  <2> QED BY <2>1, <2>2, <2>3, UpdateOK DEF Update
<1>12. CASE t \in CorrectPassportData
  <2> DEFINE doc(p, vinField) == [world[p] EXCEPT !.vin = @ \/ vinField]
  <2>1. PICK p \in Loaded, vinField \in BOOLEAN : t = Update(p, doc(p, vinField))
    BY <1>12 DEF CorrectPassportData
  <2>2. p \in Keys /\ p \in Passports /\ world[p] \in Passport
    BY LoadedPassport
  <2>3. doc(p, vinField) \in {world[p], [world[p] EXCEPT !.vin = TRUE]}
    BY <2>2 DEF Passport
  <2>4. /\ doc(p, vinField) \in Passport
        /\ doc(p, vinField).edits = world[p].edits
        /\ Keeps(world[p], doc(p, vinField), p)
        /\ Reported(world[p], doc(p, vinField), p, NoEvent)
    <3> HIDE DEF doc
    <3> QED BY <2>2, <2>3 DEF Passport, Keeps, MayBecome, Reported
  <2> HIDE DEF doc
  <2> QED BY <2>1, <2>2, <2>4, UpdateOK DEF Update
<1> QED BY <1>1, <1>2, <1>3, <1>4, <1>5, <1>6, <1>7, <1>8, <1>9, <1>10, <1>11, <1>12

\* The calls that change a passport by references to other documents.
LEMMA LinkingUpdates ==
  ASSUME TypeOK, NEW t,
         t \in LinkRawMaterials \cup UpdateRegulatoryVerification
                \cup VerifyPhysicalHistory
  PROVE  PassportUpdate(t)
<1>1. CASE t \in LinkRawMaterials
  <2> DEFINE doc(p, ms) == [world[p] EXCEPT !.materials = @ \cup ms]
  <2>1. PICK p \in Loaded, ms \in SUBSET OfKind("rawMaterial") :
          t = Tx({p} \cup ms, p, Edited(doc(p, ms)), NoEvent)
    BY <1>1 DEF LinkRawMaterials
  <2>2. p \in Keys /\ p \in Passports /\ world[p] \in Passport /\ ms \subseteq Keys
    BY LoadedPassport DEF OfKind
  <2>3. /\ doc(p, ms) \in Passport /\ doc(p, ms).edits = world[p].edits
        /\ Keeps(world[p], doc(p, ms), p)
        /\ Reported(world[p], doc(p, ms), p, NoEvent)
    BY <2>1, <2>2 DEF Passport, Keeps, MayBecome, Reported
  <2> HIDE DEF doc
  <2> QED BY <2>1, <2>2, <2>3, UpdateOK
<1>2. CASE t \in UpdateRegulatoryVerification
  <2>1. PICK p \in Loaded : t \in Regulated(p)
    BY <1>2 DEF UpdateRegulatoryVerification
  <2>2. PICK es \in SUBSET EvidenceFor(p), v \in Verdicts :
          t = Tx({p} \cup es, p, Edited(Judged(p, v, es)), Event(p, "regulatory", v))
    <3> DEFINE S == SUBSET EvidenceFor(p)
    <3>1. t \in {Tx({p} \cup es, p, Edited(Judged(p, v, es)),
                    Event(p, "regulatory", v)) : es \in S, v \in Verdicts}
      BY <2>1 DEF Regulated
    <3> HIDE DEF S
    <3>2. PICK es \in S, v \in Verdicts :
            t = Tx({p} \cup es, p, Edited(Judged(p, v, es)), Event(p, "regulatory", v))
      BY <3>1
    <3> QED BY <3>2 DEF S
  <2>3. p \in Keys /\ p \in Passports /\ world[p] \in Passport /\ es \subseteq Keys
    BY LoadedPassport DEF OfKind, EvidenceFor
  <2>4. /\ Judged(p, v, es) \in Passport
        /\ Judged(p, v, es).edits = world[p].edits
        /\ Keeps(world[p], Judged(p, v, es), p)
    BY <2>2, <2>3 DEF Judged, Passport, Keeps, MayBecome, Checks
  <2>5. Reported(world[p], Judged(p, v, es), p, Event(p, "regulatory", v))
    BY <2>2, <2>3 DEF Judged, Passport, Reported, Checks
  <2> QED BY <2>2, <2>3, <2>4, <2>5, UpdateOK
<1>3. CASE t \in VerifyPhysicalHistory
  <2> DEFINE doc(p, v) == [world[p] EXCEPT !.verdict["physical"] = v]
  <2>1. PICK p \in Loaded, v \in Verdicts :
          t = Tx({p}, p, Edited(doc(p, v)), Event(p, "physical", v))
    BY <1>3 DEF VerifyPhysicalHistory
  <2>2. p \in Keys /\ p \in Passports /\ world[p] \in Passport
    BY LoadedPassport
  <2>3. /\ doc(p, v) \in Passport /\ doc(p, v).edits = world[p].edits
        /\ Keeps(world[p], doc(p, v), p)
    BY <2>1, <2>2 DEF Passport, Keeps, MayBecome, Checks
  <2>4. Reported(world[p], doc(p, v), p, Event(p, "physical", v))
    BY <2>1, <2>2 DEF Passport, Reported, Checks
  <2> HIDE DEF doc
  <2> QED BY <2>1, <2>2, <2>3, <2>4, UpdateOK
<1> QED BY <1>1, <1>2, <1>3

\* A new document under a free key makes a creation.
LEMMA CreationOK ==
  ASSUME NEW k \in Free, NEW reads, reads \subseteq Keys,
         NEW doc, NewDocument(doc)
  PROVE  Creation(Create(k, doc, reads))
BY DEF Create, Tx, Creation, Free

\* The calls that store a new document.
LEMMA Creations ==
  ASSUME TypeOK, NEW t,
         \/ t \in RegisterRawMaterial \cup CreateBatteryPassport \cup IssueCredential
         \/ t \in LogCredentialVerification \cup RecordSourceVerification
         \/ t \in RequestCredentialIssuance
  PROVE  Creation(t)
<1> Passports \subseteq Keys /\ OfKind("verifiableCredential") \subseteq Keys
  BY DEF Passports, OfKind
<1>1. CASE t \in RegisterRawMaterial
  BY <1>1, CreationOK DEF RegisterRawMaterial, NewDocument
<1>2. CASE t \in CreateBatteryPassport
  <2> DEFINE doc == [doc |-> "batteryPassport", status |-> "MANUFACTURED",
                     vin |-> FALSE, bound |-> FALSE, logged |-> {}, bms |-> NoBms,
                     materials |-> {}, evidence |-> {}, verdict |-> NoVerdict,
                     edits |-> 0]
  <2>1. PICK k \in Free : t = Create(k, doc, {})
    BY <1>2 DEF CreateBatteryPassport
  <2>2. NewPassport(doc)
    BY DEF NewPassport, Passport, Statuses, NoVerdict
  <2> HIDE DEF doc
  <2> QED BY <2>1, <2>2, CreationOK DEF NewDocument
<1>3. CASE t \in IssueCredential
  <2>1. PICK m \in Issuers : t \in IssuedBy(m)
    BY <1>3 DEF IssueCredential
  <2>2. PICK k \in Free, p \in Passports : t = Create(k, NewCredential(p, m), {p})
    BY <2>1 DEF IssuedBy
  <2>3. NewDocument(NewCredential(p, m))
    BY <2>1, <2>2 DEF NewDocument, NewCredential, Credential
  <2> QED BY <2>2, <2>3, CreationOK
<1>4. CASE t \in LogCredentialVerification
  <2> DEFINE doc(c) == [doc |-> "vcVerification", credential |-> c]
  <2>1. PICK k \in Free, c \in OfKind("verifiableCredential") :
          t = Create(k, doc(c), {c})
    <3> DEFINE made(k, c) == Create(k, doc(c), {c})
    <3>1. LogCredentialVerification = {made(k, c) :
             k \in Free, c \in OfKind("verifiableCredential")}
      BY DEF LogCredentialVerification
    <3> HIDE DEF made, doc
    <3>2. PICK k \in Free, c \in OfKind("verifiableCredential") : t = made(k, c)
      BY <1>4, <3>1
    <3> QED BY <3>2 DEF made
  <2>2. NewDocument(doc(c))
    BY <2>1 DEF NewDocument, Verification
  <2> HIDE DEF doc
  <2> QED BY <2>1, <2>2, CreationOK
<1>5. CASE t \in RecordSourceVerification
  <2> DEFINE doc(p) == [doc |-> "sourceVerification", passport |-> p]
  <2>1. PICK k \in Free, p \in Passports : t = Create(k, doc(p), {p})
    <3> DEFINE made(k, p) == Create(k, doc(p), {p})
    <3>1. RecordSourceVerification = {made(k, p) : k \in Free, p \in Passports}
      BY DEF RecordSourceVerification
    <3> HIDE DEF made, doc
    <3>2. PICK k \in Free, p \in Passports : t = made(k, p)
      BY <1>5, <3>1
    <3> QED BY <3>2 DEF made
  <2>2. NewDocument(doc(p))
    BY <2>1 DEF NewDocument, SourceVerification
  <2> HIDE DEF doc
  <2> QED BY <2>1, <2>2, CreationOK
<1>6. CASE t \in RequestCredentialIssuance
  <2> DEFINE doc(p) == [doc |-> "credentialRequest", passport |-> p,
                        status |-> "PENDING"]
  <2>1. PICK k \in Free, p \in Passports : t = Create(k, doc(p), {p})
    <3> DEFINE made(k, p) == Create(k, doc(p), {p})
    <3>1. RequestCredentialIssuance = {made(k, p) : k \in Free, p \in Passports}
      BY DEF RequestCredentialIssuance
    <3> HIDE DEF made, doc
    <3>2. PICK k \in Free, p \in Passports : t = made(k, p)
      BY <1>6, <3>1
    <3> QED BY <3>2 DEF made
  <2>2. NewDocument(doc(p))
    BY <2>1 DEF NewDocument, Request
  <2> HIDE DEF doc
  <2> QED BY <2>1, <2>2, CreationOK
<1> QED BY <1>1, <1>2, <1>3, <1>4, <1>5, <1>6

\* The calls that decide a credential or a request.
LEMMA Decisions ==
  ASSUME TypeOK, NEW t,
         t \in RevokeCredential \cup ApproveCredentialIssuance
                \cup RejectCredentialIssuance
  PROVE  Decision(t)
<1>1. CASE t \in RevokeCredential
  <2>1. PICK c \in OfKind("verifiableCredential") :
          /\ world[c].status = "ACTIVE"
          /\ t = Tx({c}, c, [world[c] EXCEPT !.status = "REVOKED"], NoEvent)
    BY <1>1 DEF RevokeCredential
  <2>2. c \in Keys /\ world[c] \in Credential
    BY DocKinds DEF OfKind
  <2> QED BY <2>1, <2>2 DEF Tx, Decision, Credential
<1>2. CASE t \in ApproveCredentialIssuance \cup RejectCredentialIssuance
  <2>1. PICK r \in OfKind("credentialRequest"), s \in {"APPROVED", "REJECTED"} :
          /\ world[r].status = "PENDING"
          /\ t = Tx({r}, r, [world[r] EXCEPT !.status = s], NoEvent)
    BY <1>2 DEF ApproveCredentialIssuance, RejectCredentialIssuance, Pending
  <2>2. r \in Keys /\ world[r] \in Request
    BY DocKinds DEF OfKind
  <2> QED BY <2>1, <2>2 DEF Tx, Decision, Request
<1> QED BY <1>1, <1>2

\* Every call is of one of the three kinds.
LEMMA CallKinds ==
  ASSUME TypeOK, NEW t \in Calls
  PROVE  Creation(t) \/ PassportUpdate(t) \/ Decision(t)
BY PlainUpdates, LinkingUpdates, Creations, Decisions DEF Calls

-----------------------------------------------------------------------------
(* What one call does to the documents.                                    *)

\* A call writes one document, under a key of the right kind or a free one.
LEMMA Written ==
  ASSUME TypeOK, NEW t \in Calls
  PROVE  /\ t.key \in Keys /\ t.reads \subseteq Keys
         /\ t.doc \in Docs
         /\ t.doc # Nil
         /\ world[t.key] # Nil => t.doc.doc = world[t.key].doc
<1>0. t.reads \subseteq Keys
  BY CallKinds DEF Creation, PassportUpdate, Decision
<1>1. CASE Creation(t)
  <2>1. t.key \in Keys /\ world[t.key] = Nil
    BY <1>1 DEF Creation, Free
  <2>2. t.doc \in Docs
    BY <1>1 DEF Creation, NewDocument, NewPassport, Docs
  <2>3. t.doc # Nil
    BY <1>1 DEF Creation, NewDocument, NewPassport, Nil, RawMaterial,
       Passport, Credential, Request, Verification, SourceVerification
  <2> QED BY <1>0, <2>1, <2>2, <2>3
<1>2. CASE PassportUpdate(t)
  <2>1. t.key \in Keys /\ world[t.key].doc = "batteryPassport"
    BY <1>2 DEF PassportUpdate, Passports, OfKind
  <2>2. t.doc \in Docs /\ t.doc.doc = "batteryPassport"
    BY <1>2 DEF PassportUpdate, Passport, Docs
  <2> QED BY <1>0, <2>1, <2>2 DEF Nil
<1>3. CASE Decision(t)
  <2>1. CASE t.key \in OfKind("verifiableCredential") /\ t.doc \in Credential
    BY <1>0, <2>1 DEF OfKind, Credential, Docs, Nil
  <2>2. CASE t.key \in OfKind("credentialRequest") /\ t.doc \in Request
    BY <1>0, <2>2 DEF OfKind, Request, Docs, Nil
  <2> QED BY <1>3, <2>1, <2>2 DEF Decision
<1> QED BY <1>1, <1>2, <1>3, CallKinds

\* The world state after a call: one document is new.
LEMMA Stored ==
  ASSUME TypeOK, NEW t \in Calls, Apply(t)
  PROVE  /\ world'[t.key] = t.doc
         /\ \A k \in Keys : k # t.key => world'[k] = world[k]
BY Written DEF Apply, TypeOK

\* A document keeps its kind; with Stored, no key is taken twice.
LEMMA KindsStay ==
  ASSUME TypeOK, NEW t \in Calls, Apply(t), NEW k \in Keys, world[k] # Nil
  PROVE  world'[k].doc = world[k].doc
BY Written, Stored

\* A passport after a call is untouched, new, or updated within the rules.
LEMMA PassportStep ==
  ASSUME TypeOK, NEW t \in Calls, Apply(t), NEW p \in Passports'
  PROVE  \/ p # t.key /\ p \in Passports /\ world'[p] = world[p]
         \/ p = t.key /\ p \notin Passports /\ NewPassport(t.doc) /\ Creation(t)
         \/ p = t.key /\ p \in Passports /\ PassportUpdate(t)
<1>1. p \in Keys /\ world'[p].doc = "batteryPassport"
  BY DEF Passports, OfKind
<1>2. CASE p # t.key
  BY <1>1, <1>2, Stored DEF Passports, OfKind
<1>3. CASE p = t.key
  <2>1. t.doc.doc = "batteryPassport"
    BY <1>1, <1>3, Stored
  <2>2. CASE Creation(t)
    <3>1. p \notin Passports
      BY <2>2, <1>3 DEF Creation, Free, Passports, OfKind, Nil
    <3>2. NewPassport(t.doc)
      BY <2>1, <2>2 DEF Creation, NewDocument, RawMaterial, Credential,
         Request, Verification, SourceVerification
    <3> QED BY <3>1, <3>2, <2>2, <1>3
  <2>3. CASE PassportUpdate(t)
    BY <2>3, <1>3 DEF PassportUpdate
  <2>4. ~Decision(t)
    BY <2>1 DEF Decision, Credential, Request
  <2> QED BY <2>2, <2>3, <2>4, CallKinds
<1> QED BY <1>2, <1>3

\* A credential that exists keeps its passport and its issuer.
LEMMA CredentialsStay ==
  ASSUME TypeOK, NEW t \in Calls, Apply(t), NEW c \in OfKind("verifiableCredential")
  PROVE  /\ c \in OfKind("verifiableCredential")'
         /\ world'[c].passport = world[c].passport
         /\ world'[c].issuer = world[c].issuer
         /\ world[c].status \in {"ACTIVE", world'[c].status}
<1>1. c \in Keys /\ world[c].doc = "verifiableCredential" /\ world[c] # Nil
  BY DEF OfKind, Nil
<1>2. c \in OfKind("verifiableCredential")'
  BY <1>1, KindsStay DEF OfKind
<1>3. CASE c # t.key
  BY <1>1, <1>2, <1>3, Stored
<1>4. CASE c = t.key
  <2>1. ~Creation(t)
    BY <1>1, <1>4 DEF Creation, Free
  <2>2. ~PassportUpdate(t)
    BY <1>1, <1>4 DEF PassportUpdate, Passports, OfKind
  <2>3. Decision(t)
    BY <2>1, <2>2, CallKinds
  <2>4. c \notin OfKind("credentialRequest")
    BY <1>1 DEF OfKind
  <2> QED BY <1>2, <1>4, <2>3, <2>4, Stored DEF Decision
<1> QED BY <1>3, <1>4

\* A request that exists is about the same passport, decided or not.
LEMMA RequestsStay ==
  ASSUME TypeOK, NEW t \in Calls, Apply(t), NEW r \in OfKind("credentialRequest")
  PROVE  /\ world'[r].passport = world[r].passport
         /\ world[r].status \in {"PENDING", world'[r].status}
<1>1. r \in Keys /\ world[r].doc = "credentialRequest" /\ world[r] # Nil
  BY DEF OfKind, Nil
<1>2. CASE r # t.key
  BY <1>1, <1>2, Stored
<1>3. CASE r = t.key
  <2>1. ~Creation(t)
    BY <1>1, <1>3 DEF Creation, Free
  <2>2. ~PassportUpdate(t)
    BY <1>1, <1>3 DEF PassportUpdate, Passports, OfKind
  <2>3. Decision(t)
    BY <2>1, <2>2, CallKinds
  <2>4. r \notin OfKind("verifiableCredential")
    BY <1>1 DEF OfKind
  <2> QED BY <1>3, <2>3, <2>4, Stored DEF Decision
<1> QED BY <1>2, <1>3

-----------------------------------------------------------------------------
(* Type correctness.                                                       *)

\* An event names the passport that is updated with it.
LEMMA Events ==
  ASSUME TypeOK, NEW t \in Calls, t.event # NoEvent
  PROVE  /\ PassportUpdate(t)
         /\ \E c \in Checks, v \in Verdicts :
              /\ t.event = Event(t.key, c, v)
              /\ t.doc.verdict = [world[t.key].verdict EXCEPT ![c] = v]
BY CallKinds DEF Creation, Decision, PassportUpdate, Reported

\* Init and every call keep to the types.
LEMMA TypeStep ==
  ASSUME TypeOK, [Next]_ledger
  PROVE  TypeOK'
<1>1. CASE UNCHANGED ledger
  BY <1>1 DEF ledger, TypeOK
<1>2. ASSUME NEW t \in Calls, Apply(t)
      PROVE  TypeOK'
  <2>1. world' \in [Keys -> Docs]
    BY <1>2, Written DEF Apply, TypeOK, Docs
  <2>2. newest' \in [Keys -> [Checks -> Verdicts \cup {Unchecked}]]
    <3>1. CASE t.event = NoEvent
      BY <1>2, <3>1 DEF Apply, TypeOK
    <3>2. CASE t.event # NoEvent
      <4>1. PICK c \in Checks, v \in Verdicts : t.event = Event(t.key, c, v)
        BY <1>2, <3>2, Events
      <4>2. newest' = [newest EXCEPT ![t.key][c] = v]
        BY <1>2, <3>2, <4>1 DEF Apply, Event
      <4> QED BY <4>2, <1>2, Written DEF TypeOK
    <3> QED BY <3>1, <3>2
  <2>3. committed' \in [Keys -> Nat]
    <3>1. committed \in [Keys -> Nat]
      BY DEF TypeOK
    <3>2. committed' \in {committed, [committed EXCEPT ![t.key] = @ + 1]}
      BY <1>2 DEF Apply
    <3> QED BY <3>1, <3>2
  <2> QED BY <2>1, <2>2, <2>3 DEF TypeOK, Docs
<1> QED BY <1>1, <1>2 DEF Next

\* Every reachable state keeps to its types.
THEOREM TypeCorrect == Spec => []TypeOK
<1>1. Init => TypeOK
  BY DEF Init, TypeOK, NoVerdict
<1> QED BY <1>1, TypeStep, PTL DEF Spec

-----------------------------------------------------------------------------
(* What never changes back.                                                *)

\* No document is replaced by one of another kind, passport or issuer.
THEOREM NothingReplaced == Spec => NeverReplaced
<1> DEFINE Kept == \A k \in Keys : world[k] # Nil =>
       /\ world'[k].doc = world[k].doc
       /\ world[k].doc = "verifiableCredential" =>
            /\ world'[k].passport = world[k].passport
            /\ world'[k].issuer = world[k].issuer
<1>1. TypeOK /\ [Next]_ledger => [Kept]_ledger
  <2> SUFFICES ASSUME TypeOK, NEW t \in Calls, Apply(t), NEW k \in Keys,
                      world[k] # Nil
               PROVE  /\ world'[k].doc = world[k].doc
                      /\ world[k].doc = "verifiableCredential" =>
                           /\ world'[k].passport = world[k].passport
                           /\ world'[k].issuer = world[k].issuer
    BY DEF Next
  <2> QED BY KindsStay, CredentialsStay DEF OfKind
<1> QED BY <1>1, TypeCorrect, PTL DEF Spec, NeverReplaced

\* A request is decided once, a credential stays revoked, a bound BMS bound.
THEOREM DecisionsAreFinal == Spec => DecisionsStay
<1> DEFINE Final == \A k \in Keys :
       /\ world[k].doc = "credentialRequest" =>
            world[k].status \in {"PENDING", world'[k].status}
       /\ world[k].doc = "verifiableCredential" =>
            world[k].status \in {"ACTIVE", world'[k].status}
       /\ k \in Passports => world[k].bms \in {NoBms, world'[k].bms}
<1>1. TypeOK /\ [Next]_ledger => [Final]_ledger
  <2> SUFFICES ASSUME TypeOK, NEW t \in Calls, Apply(t), NEW k \in Keys
               PROVE  /\ world[k].doc = "credentialRequest" =>
                           world[k].status \in {"PENDING", world'[k].status}
                      /\ world[k].doc = "verifiableCredential" =>
                           world[k].status \in {"ACTIVE", world'[k].status}
                      /\ k \in Passports =>
                           world[k].bms \in {NoBms, world'[k].bms}
    BY DEF Next
  <2>1. k \in Passports => world[k].bms \in {NoBms, world'[k].bms}
    <3> HAVE k \in Passports
    <3>1. k \in Passports'
      BY KindsStay DEF Passports, OfKind, Nil
    <3> QED BY <3>1, PassportStep, Stored DEF PassportUpdate, Keeps
  <2> QED BY <2>1, CredentialsStay, RequestsStay DEF OfKind
<1> QED BY <1>1, TypeCorrect, PTL DEF Spec, DecisionsStay

\* A passport changes its status along the documented arrows and no other.
THEOREM LifeKeepsToArrows == Spec => LifeFollowsArrows
<1> DEFINE Arrow(before, after) == after # before => <<before, after>> \in Arrows
<1>1. TypeOK /\ [Next]_ledger =>
        [\A p \in Passports : Arrow(world[p].status, world'[p].status)]_ledger
  <2> SUFFICES ASSUME TypeOK, NEW t \in Calls, Apply(t), NEW p \in Passports
               PROVE  Arrow(world[p].status, world'[p].status)
    BY DEF Next
  <2>1. p \in Passports'
    BY KindsStay DEF Passports, OfKind, Nil
  <2>2. MayBecome(world[p].status, world'[p].status)
    <3>1. CASE world'[p] = world[p]
      BY <3>1 DEF MayBecome
    <3>2. CASE p = t.key /\ PassportUpdate(t)
      BY <3>2, Stored DEF PassportUpdate, Keeps
    <3> QED BY <2>1, <3>1, <3>2, PassportStep
  <2> QED BY <2>2 DEF MayBecome, Arrows
<1> QED BY <1>1, TypeCorrect, PTL DEF Spec, LifeFollowsArrows

-----------------------------------------------------------------------------
(* What every state of the ledger keeps to.                                *)

\* Every reference leads to a document of its kind.
THEOREM References == Spec => []ReferencesHold
<1>1. Init => ReferencesHold
  BY DEF Init, ReferencesHold, Nil, Passports, OfKind
<1>2. TypeOK /\ ReferencesHold /\ [Next]_ledger => ReferencesHold'
  <2>1. CASE UNCHANGED ledger
    BY <2>1 DEF ledger, ReferencesHold, Passports, OfKind
  <2>2. ASSUME TypeOK, ReferencesHold, NEW t \in Calls, Apply(t)
        PROVE  ReferencesHold'
    <3>1. /\ Passports \subseteq Passports'
          /\ \A d : d # "nil" => OfKind(d) \subseteq OfKind(d)'
      BY <2>2, KindsStay DEF Passports, OfKind, Nil
    <3> SUFFICES ASSUME NEW k \in Keys
                 PROVE  /\ world'[k].doc \in {"verifiableCredential",
                                              "credentialRequest",
                                              "sourceVerification"} =>
                             world'[k].passport \in Passports'
                        /\ world'[k].doc = "vcVerification" =>
                             world'[k].credential \in OfKind("verifiableCredential")'
                        /\ k \in Passports' =>
                             /\ world'[k].materials \subseteq OfKind("rawMaterial")'
                             /\ \A c \in world'[k].evidence :
                                  /\ world'[c].doc = "verifiableCredential"
                                  /\ world'[c].passport = k
      BY DEF ReferencesHold
    <3>2. k \in Passports' =>
            /\ world'[k].materials \subseteq OfKind("rawMaterial")'
            /\ \A c \in world'[k].evidence :
                 /\ world'[c].doc = "verifiableCredential"
                 /\ world'[c].passport = k
      <4> SUFFICES ASSUME k \in Passports'
                   PROVE  /\ world'[k].materials \subseteq OfKind("rawMaterial")
                          /\ world'[k].evidence \subseteq EvidenceFor(k)
        <5>1. \A c \in EvidenceFor(k) :
                world'[c].doc = "verifiableCredential" /\ world'[c].passport = k
          BY <2>2, CredentialsStay DEF EvidenceFor, OfKind
        <5> QED BY <5>1, <3>1
      <4>1. k \in Passports =>
              /\ world[k].materials \subseteq OfKind("rawMaterial")
              /\ world[k].evidence \subseteq EvidenceFor(k)
        <5> HAVE k \in Passports
        <5>1. world[k].evidence \subseteq Keys
          BY <2>2, DocKinds DEF Passport
        <5> QED BY <2>2, <5>1 DEF ReferencesHold, EvidenceFor, OfKind
      <4> QED BY <2>2, <4>1, PassportStep, Stored DEF PassportUpdate, Keeps,
              NewPassport
    <3>3. CASE world[k] # Nil /\ k # t.key
      BY <2>2, <3>1, <3>2, <3>3, Stored DEF ReferencesHold
    <3>4. CASE world[k] = Nil /\ k # t.key
      BY <2>2, <3>1, <3>2, <3>4, Stored DEF Nil
    <3>5. CASE k = t.key
      <4>1. world'[k] = t.doc
        BY <2>2, <3>5, Stored
      <4>2. CASE Creation(t)
        BY <3>1, <3>2, <4>1, <4>2 DEF Creation, NewDocument, NewPassport,
           RawMaterial, Passport, Credential, Request, Verification, SourceVerification
      <4>3. CASE PassportUpdate(t)
        BY <3>2, <4>1, <4>3 DEF PassportUpdate, Passport
      <4>4. CASE Decision(t)
        BY <2>2, <3>1, <3>2, <3>5, <4>1, <4>4 DEF Decision, Credential, Request,
           ReferencesHold, OfKind
      <4> QED BY <2>2, <4>2, <4>3, <4>4, CallKinds
    <3> QED BY <3>3, <3>4, <3>5
  <2> QED BY <2>1, <2>2 DEF Next
<1> QED BY <1>1, <1>2, TypeCorrect, PTL DEF Spec

\* Why UsedOnlyBound and ServiceCalledIn hold: whoever made a passport active
\* bound it, and whoever sent it to maintenance was the vehicle manufacturer.
Used ==
  \A p \in Passports :
    /\ world[p].status # "MANUFACTURED" =>
         world[p].vin = TRUE /\ world[p].bound = TRUE
    /\ world[p].status = "MAINTENANCE" => "EVManufacturer" \in world[p].logged
    /\ "Service" \in world[p].logged => "EVManufacturer" \in world[p].logged

\* Used is inductive.
LEMMA UsedAlways == Spec => []Used
<1>1. Init => Used
  BY DEF Init, Used, Nil, Passports, OfKind
<1>2. TypeOK /\ Used /\ [Next]_ledger => Used'
  <2>1. CASE UNCHANGED ledger
    BY <2>1 DEF ledger, Used, Passports, OfKind
  <2>2. ASSUME TypeOK, Used, NEW t \in Calls, Apply(t), NEW p \in Passports'
        PROVE  /\ world'[p].status # "MANUFACTURED" =>
                    world'[p].vin = TRUE /\ world'[p].bound = TRUE
               /\ world'[p].status = "MAINTENANCE" =>
                    "EVManufacturer" \in world'[p].logged
               /\ "Service" \in world'[p].logged =>
                    "EVManufacturer" \in world'[p].logged
    <3>1. CASE p # t.key /\ p \in Passports /\ world'[p] = world[p]
      BY <2>2, <3>1 DEF Used
    <3>2. CASE p = t.key /\ NewPassport(t.doc)
      BY <2>2, <3>2, Stored, Written DEF NewPassport
    <3>3. CASE p = t.key /\ p \in Passports /\ PassportUpdate(t)
      <4>1. Keeps(world[p], world'[p], p)
        BY <2>2, <3>3, Stored, Written DEF PassportUpdate
      <4> QED BY <2>2, <3>3, <4>1 DEF Used, Keeps, MayBecome
    <3> QED BY <2>2, <3>1, <3>2, <3>3, PassportStep
  <2> QED BY <2>1, <2>2 DEF Next, Used
<1> QED BY <1>1, <1>2, TypeCorrect, PTL DEF Spec

\* A passport that has left MANUFACTURED is bound to a vehicle.
THEOREM OnlyBoundIsUsed == Spec => []UsedOnlyBound
<1>1. Used => UsedOnlyBound
  BY DEF Used, UsedOnlyBound
<1> QED BY <1>1, UsedAlways, PTL

\* The service organisation writes only where it was called in.
THEOREM OnlyWhereCalled == Spec => []ServiceCalledIn
<1>1. Used => ServiceCalledIn
  BY DEF Used, ServiceCalledIn
<1> QED BY <1>1, UsedAlways, PTL

\* NoUpdateLost and VerdictsAgree, with what holds before a passport exists:
\* no update is counted for its key and no event is stored.
Complete ==
  \A k \in Keys :
    /\ k \in Passports => world[k].edits = committed[k]
                          /\ world[k].verdict = newest[k]
    /\ k \notin Passports => committed[k] = 0 /\ newest[k] = NoVerdict

\* Complete is inductive.
LEMMA CompleteAlways == Spec => []Complete
<1>1. Init => Complete
  BY DEF Init, Complete, Nil, Passports, OfKind
<1>2. TypeOK /\ Complete /\ [Next]_ledger => Complete'
  <2>1. CASE UNCHANGED ledger
    BY <2>1 DEF ledger, Complete, Passports, OfKind
  <2>2. ASSUME TypeOK, Complete, NEW t \in Calls, Apply(t), NEW k \in Keys
        PROVE  /\ k \in Passports' => world'[k].edits = committed'[k]
                                      /\ world'[k].verdict = newest'[k]
               /\ k \notin Passports' => committed'[k] = 0 /\ newest'[k] = NoVerdict
    <3>1. /\ committed'[k] = IF k = t.key /\ t.doc.doc = "batteryPassport"
                                  /\ world[k] # Nil
                             THEN committed[k] + 1 ELSE committed[k]
          /\ t.event = NoEvent => newest' = newest
      BY <2>2 DEF Apply, TypeOK
    <3>2. k # t.key => newest'[k] = newest[k]
      <4> HAVE k # t.key
      <4>1. CASE t.event # NoEvent
        <5>1. PICK c \in Checks, v \in Verdicts : t.event = Event(t.key, c, v)
          BY <2>2, <4>1, Events
        <5>2. newest' = [newest EXCEPT ![t.key][c] = v]
          BY <2>2, <4>1, <5>1 DEF Apply, Event
        <5> QED BY <2>2, <5>2 DEF TypeOK
      <4> QED BY <3>1, <4>1
    <3>3. CASE k # t.key
      BY <2>2, <3>1, <3>2, <3>3, Stored DEF Complete, Passports, OfKind
    <3>4. CASE k = t.key /\ Creation(t)
      <4>1. world[k] = Nil /\ k \notin Passports /\ newest' = newest
        BY <3>1, <3>4 DEF Creation, Free, Passports, OfKind, Nil
      <4>2. k \in Passports' => NewPassport(world'[k])
        BY <2>2, <3>4, <4>1, PassportStep, Stored, Written
      <4> QED BY <2>2, <3>1, <4>1, <4>2 DEF Complete, NewPassport
    <3>5. CASE k = t.key /\ PassportUpdate(t)
      <4>1. /\ k \in Passports /\ world[k] # Nil
            /\ world'[k] = t.doc /\ t.doc.doc = "batteryPassport"
            /\ k \in Passports'
        BY <2>2, <3>5, Stored DEF PassportUpdate, Passports, OfKind, Nil, Passport
      <4>2. world'[k].edits = committed'[k]
        BY <2>2, <3>1, <3>5, <4>1 DEF Complete, PassportUpdate
      <4>3. world'[k].verdict = newest'[k]
        <5>1. CASE t.event = NoEvent
          <6>1. \A c \in Checks, v \in Verdicts : Event(k, c, v).check # NoEvent.check
            BY DEF Event, NoEvent, Checks
          <6>2. Reported(world[k], t.doc, k, t.event)
            BY <3>5 DEF PassportUpdate
          <6>3. t.doc.verdict = world[k].verdict
            BY <5>1, <6>1, <6>2 DEF Reported
          <6> QED BY <2>2, <3>1, <4>1, <5>1, <6>3 DEF Complete
        <5>2. CASE t.event # NoEvent
          <6>1. PICK c \in Checks, v \in Verdicts :
                  /\ t.event = Event(k, c, v)
                  /\ t.doc.verdict = [world[k].verdict EXCEPT ![c] = v]
            BY <2>2, <3>5, <5>2, Events
          <6>2. newest' = [newest EXCEPT ![k][c] = v]
            BY <2>2, <5>2, <6>1 DEF Apply, Event
          <6> QED BY <2>2, <4>1, <6>1, <6>2 DEF Complete, TypeOK
        <5> QED BY <5>1, <5>2
      <4> QED BY <4>1, <4>2, <4>3
    <3>6. CASE k = t.key /\ Decision(t)
      <4>1. t.doc.doc # "batteryPassport" /\ t.event = NoEvent
        BY <3>6 DEF Decision, Credential, Request
      <4>2. k \notin Passports /\ k \notin Passports'
        BY <2>2, <3>6, <4>1, Stored, Written DEF Decision, Passports, OfKind
      <4> QED BY <2>2, <3>1, <4>1, <4>2 DEF Complete
    <3> QED BY <2>2, <3>3, <3>4, <3>5, <3>6, CallKinds
  <2> QED BY <2>1, <2>2 DEF Next, Complete
<1> QED BY <1>1, <1>2, TypeCorrect, PTL DEF Spec

\* A passport holds every update ever committed to it.
THEOREM UpdatesAreKept == Spec => []NoUpdateLost
<1>1. Complete => NoUpdateLost
  BY DEF Complete, NoUpdateLost, Passports, OfKind
<1> QED BY <1>1, CompleteAlways, PTL

\* The verification state of a passport is that of its newest event.
THEOREM VerdictsFollowEvents == Spec => []VerdictsAgree
<1>1. Complete => VerdictsAgree
  BY DEF Complete, VerdictsAgree, Passports, OfKind
<1> QED BY <1>1, CompleteAlways, PTL
=============================================================================
