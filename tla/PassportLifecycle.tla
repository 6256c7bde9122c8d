------------------------- MODULE PassportLifecycle -------------------------
(***************************************************************************)
(* The life of a battery passport in the passport chaincode,               *)
(* src/chaincode/passport-contract/passport_tx.go: created, bound to a     *)
(* vehicle, maintained, analysed, recycled, disposed of.                   *)
(*                                                                         *)
(* An operation is the set of transactions it would make in the current    *)
(* world state: its checks select the members, and each member holds the   *)
(* keys it read and the documents it writes.  A call that returns an error *)
(* makes no transaction.  Credentials adds the operations of vc_tx.go,     *)
(* which share the documents and the keys.                                 *)
(*                                                                         *)
(* Clients choose their keys freely from one namespace.  Every update also *)
(* writes fields nobody else reads (dates, logs, attributes, analysis      *)
(* results): "edits" stands for all of them, and counts the updates this   *)
(* copy of the document has seen.  CreatorMSP is always the manufacturer,  *)
(* the only one that may create, so a check against it never fails.        *)
(***************************************************************************)
EXTENDS Integers, FiniteSets

CONSTANTS
  Keys,          \* ids of passports, materials, credentials, requests, ...
  BmsIds,        \* pairs of bmsManagementId and bmsBindingId
  NoBms,         \* no BMS bound
  Verdicts,      \* outcomes of a verification
  Unchecked,     \* no verification yet
  MaxEdits       \* bound: updates of the passport under each key

ASSUME LifecycleAssumption ==
  /\ NoBms \notin BmsIds
  /\ Unchecked \notin Verdicts
  /\ MaxEdits \in [Keys -> Nat]

Statuses == {"MANUFACTURED", "ACTIVE", "MAINTENANCE", "ANALYSIS",
             "RECYCLING", "DISPOSED"}

Msps == {"Manufacturer", "EVManufacturer", "Service", "Regulator"}

\* The two kinds of verification a passport holds.
Checks == {"regulatory", "physical"}

VARIABLES
  world,         \* the document under every key
  newest,        \* the newest verification event stored for every passport
  committed      \* history: the updates committed for every passport

ledger == <<world, newest, committed>>

Nil         == [doc |-> "nil"]
RawMaterial == [doc |-> "rawMaterial"]

Passport == [doc: {"batteryPassport"}, status: Statuses, vin: BOOLEAN,
             bound: BOOLEAN, logged: SUBSET Msps, bms: BmsIds \cup {NoBms},
             materials: SUBSET Keys, evidence: SUBSET Keys,
             verdict: [Checks -> Verdicts \cup {Unchecked}], edits: Nat]

NoVerdict == [c \in Checks |-> Unchecked]

Init ==
  /\ world = [k \in Keys |-> Nil]
  /\ newest = [k \in Keys |-> NoVerdict]
  /\ committed = [k \in Keys |-> 0]

OfKind(d) == {k \in Keys : world[k].doc = d}
Free      == {k \in Keys : world[k] = Nil}
Passports == OfKind("batteryPassport")

-----------------------------------------------------------------------------
(* Transactions.                                                           *)

\* Event: the verification event a transaction stores under a key of its own.
NoEvent == [check |-> "none"]
Event(p, c, v) == [passport |-> p, check |-> c, verdict |-> v]

Tx(reads, k, doc, event) ==
  [reads |-> reads, key |-> k, doc |-> doc, event |-> event]

\* A new document, once its key is known to be free.
Create(k, doc, reads) == Tx({k} \cup reads, k, doc, NoEvent)

\* A passport that was loaded, changed and put back.
Edited(doc) == [doc EXCEPT !.edits = @ + 1]
Update(p, doc) == Tx({p}, p, Edited(doc), NoEvent)

\* Passports that can be loaded, within the bound.
Loaded == {p \in Passports : world[p].edits < MaxEdits[p]}
In(statuses) == {p \in Loaded : world[p].status \in statuses}

\* The write of a transaction takes effect.
Apply(t) ==
  /\ world' = [world EXCEPT ![t.key] = t.doc]
  /\ newest' = IF t.event = NoEvent THEN newest
               ELSE [newest EXCEPT ![t.event.passport][t.event.check] =
                                     t.event.verdict]
  /\ committed' = IF t.doc.doc = "batteryPassport" /\ world[t.key] # Nil
                  THEN [committed EXCEPT ![t.key] = @ + 1]
                  ELSE committed

\* checkPassportAccess
CanAccess(m, p) ==
  \/ m \in {"Manufacturer", "Regulator"}
  \/ /\ m = "EVManufacturer"
     /\ \/ world[p].vin /\ world[p].bound
        \/ world[p].status = "MANUFACTURED"
  \/ /\ m = "Service"
     /\ \/ world[p].status \in {"MAINTENANCE", "ANALYSIS"}
        \/ "Service" \in world[p].logged

-----------------------------------------------------------------------------
(* Mutations: what the named definition would be with a bug in its lines.  *)

MaintenanceByAnyone ==                                \* of AddMaintenanceLog
  {Update(p, [world[p] EXCEPT !.logged = @ \cup {"Service"},
                              !.status = "ACTIVE"]) :
     p \in In({"MAINTENANCE", "ACTIVE"})}

MaintenanceAnyTime ==                                 \* of AddMaintenanceLog
  {Update(p, [world[p] EXCEPT !.logged = @ \cup {"Service"},
                              !.status = "ACTIVE"]) :
     p \in {q \in Loaded : CanAccess("Service", q)}}

DisposeUnused ==                                      \* of DisposeBattery
  {Update(p, [world[p] EXCEPT !.status = "DISPOSED"]) :
     p \in In(Statuses \ {"DISPOSED"})}

BlindCorrection ==                                    \* of CorrectPassportData
  {Tx({}, p, Edited([world[p] EXCEPT !.vin = @ \/ vinField]), NoEvent) :
     p \in Loaded, vinField \in BOOLEAN}

-----------------------------------------------------------------------------
(* The operations.                                                         *)

RegisterRawMaterial == {Create(k, RawMaterial, {}) : k \in Free}

CreateBatteryPassport ==
  {Create(k, [doc |-> "batteryPassport", status |-> "MANUFACTURED",
              vin |-> FALSE, bound |-> FALSE, logged |-> {}, bms |-> NoBms,
              materials |-> {}, evidence |-> {}, verdict |-> NoVerdict,
              edits |-> 0], {}) : k \in Free}

SetPassportExtendedAttributes == {Update(p, world[p]) : p \in Loaded}

\* A bound identifier may be bound again, never replaced.
BindBMSIdentifier ==
  UNION {{Update(p, [world[p] EXCEPT !.bms = b]) :
            b \in IF world[p].bms = NoBms THEN BmsIds ELSE {world[p].bms}} :
         p \in Loaded}

BindToVehicle ==
  {Update(p, [world[p] EXCEPT !.vin = TRUE, !.bound = TRUE,
                              !.status = "ACTIVE"]) :
     p \in {q \in In({"MANUFACTURED", "ACTIVE"}) :
              ~(world[q].status = "ACTIVE" /\ world[q].vin)}}

RequestMaintenance ==
  {Update(p, [world[p] EXCEPT !.logged = @ \cup {"EVManufacturer"},
                              !.status = "MAINTENANCE"]) :
     p \in {q \in In({"ACTIVE"}) : world[q].bound}}

AddMaintenanceLog ==
  {Update(p, [world[p] EXCEPT !.logged = @ \cup {"Service"},
                              !.status = "ACTIVE"]) :
     p \in {q \in In({"MAINTENANCE", "ACTIVE"}) : CanAccess("Service", q)}}

AddAccidentLog ==
  {Update(p, world[p]) :
     p \in {q \in Loaded : world[q].bound \/ CanAccess("Service", q)}}

RequestAnalysis ==
  {Update(p, [world[p] EXCEPT !.status = "ANALYSIS"]) :
     p \in {q \in In({"ACTIVE", "MAINTENANCE"}) : world[q].bound}}

SubmitAnalysisResult ==
  {Update(p, [world[p] EXCEPT !.status = "ACTIVE"]) : p \in In({"ANALYSIS"})}

SetRecycleAvailability ==
  {Update(p, world[p]) : p \in In(Statuses \ {"DISPOSED"})}

ExtractMaterials ==
  {Update(p, [world[p] EXCEPT !.status = "RECYCLING"]) :
     p \in In({"ACTIVE", "ANALYSIS"})}

DisposeBattery ==
  {Update(p, [world[p] EXCEPT !.status = "DISPOSED"]) :
     p \in In(Statuses \ {"DISPOSED", "MANUFACTURED"})}

\* The regulator may correct every field; the VIN is one of them, and no field
\* is corrected to nothing.
CorrectPassportData ==
  {Update(p, [world[p] EXCEPT !.vin = @ \/ vinField]) :
     p \in Loaded, vinField \in BOOLEAN}

LinkRawMaterials ==
  UNION {{Tx({p} \cup ms, p, Edited([world[p] EXCEPT !.materials = @ \cup ms]),
             NoEvent) :
            ms \in {ns \in SUBSET OfKind("rawMaterial") :
                      ~(ns \subseteq world[p].materials)}} : p \in Loaded}
=============================================================================
