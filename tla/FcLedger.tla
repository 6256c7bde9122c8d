------------------------------ MODULE FcLedger ------------------------------
(***************************************************************************)
(* What the passport chaincode keeps about the counters of BMU records,    *)
(* src/chaincode/passport-contract: one record per accepted frame, and one *)
(* lastFc key per DID that binds the DID to its passport and holds the     *)
(* highest counter recorded (the high water).                              *)
(*                                                                         *)
(* Every call is a transaction: what it read and what it writes, computed  *)
(* from the world state it finds.  Here a call takes effect at once;       *)
(* FcLedgerFabric puts Fabric's endorsement and validation in between.  A  *)
(* call that returns an error writes nothing and has no action.            *)
(*                                                                         *)
(* Callers are assumed to pass the MSP checks.  Of a passport only the DID *)
(* matters, of a record its passport, DID, counter and status.  Audit logs *)
(* and the BMU snapshot, which this chaincode no longer writes, are left   *)
(* out.                                                                    *)
(***************************************************************************)
EXTENDS Integers, FiniteSets

CONSTANTS
  Passports,     \* passportId
  Dids,          \* did; here also the name of its lastFc key
  AutoIds,       \* record ids derived from transaction ids
  ClientIds,     \* record ids chosen by clients
  Counters,      \* fc, a uint64
  MaxCounter,    \* the largest uint64
  Enrolled,      \* passports created before lastFc keys were bound: their DID
  OldRecords     \* records stored by then: [passport, fc]

Ids  == AutoIds \cup ClientIds
Keys == Passports \cup Dids \cup Ids

NoFc == -1       \* hasFc = false

ASSUME LedgerAssumption ==
  /\ Passports \cap Dids = {} /\ Passports \cap Ids = {} /\ Dids \cap Ids = {}
  /\ AutoIds \cap ClientIds = {}
  /\ MaxCounter \in Nat
  /\ Counters \subseteq 0 .. MaxCounter
  /\ DOMAIN Enrolled \subseteq Passports
  /\ \A p \in DOMAIN Enrolled : Enrolled[p] \in Dids
  /\ DOMAIN OldRecords \subseteq Ids
  /\ \A r \in DOMAIN OldRecords :
       /\ OldRecords[r].passport \in DOMAIN Enrolled
       /\ OldRecords[r].fc \in Counters
  /\ \A r, s \in DOMAIN OldRecords :
       /\ Enrolled[OldRecords[r].passport] = Enrolled[OldRecords[s].passport]
       /\ OldRecords[r].fc = OldRecords[s].fc
       => r = s

VARIABLES
  world,         \* the world state: a value for every key
  since          \* history: the records of each DID since its last reset

ledger == <<world, since>>

Nil           == [doc |-> "nil"]
Passport(d)   == [doc |-> "passport", did |-> d]
Legacy(f)     == [doc |-> "legacy", fc |-> f]
Binding(p, f) == [doc |-> "binding", passport |-> p, fc |-> f]
BmuRecord(p, d, f, s) ==
  [doc |-> "record", passport |-> p, did |-> d, fc |-> f, status |-> s]

Bound(d)    == world[d].doc = "binding"
Recorded(r) == world[r].doc = "record"
Valid(r)    == Recorded(r) /\ world[r].status = "VALID"
ValidOf(d)  == {r \in Ids : Valid(r) /\ world[r].did = d}

\* What the world state may hold under a key of each kind.
PassportDoc(x) == x = Nil \/ \E d \in Dids : x = Passport(d)

DidDoc(x) ==
  \/ x = Nil
  \/ \E f \in Counters : x = Legacy(f)
  \/ \E p \in Passports, f \in Counters \cup {NoFc} : x = Binding(p, f)

RecordDoc(x) ==
  \/ x = Nil
  \/ \E p \in Passports, d \in Dids, f \in Counters,
        s \in {"VALID", "INVALIDATED"} : x = BmuRecord(p, d, f, s)

TypeOK ==
  /\ DOMAIN world = Keys
  /\ \A p \in Passports : PassportDoc(world[p])
  /\ \A d \in Dids : DidDoc(world[d])
  /\ \A r \in Ids : RecordDoc(world[r])
  /\ since \in [Dids -> SUBSET Ids]

OldDid(r) == Enrolled[OldRecords[r].passport]

\* What earlier chaincode left: passports, their records, and a lastFc key
\* that is missing or holds nothing but the highest counter.
Init ==
  /\ \E legacy \in SUBSET {d \in Dids : \E r \in DOMAIN OldRecords : OldDid(r) = d},
        top \in [Dids -> Counters] :
       /\ \A r \in DOMAIN OldRecords : OldRecords[r].fc <= top[OldDid(r)]
       /\ \A d \in Dids : \/ \E r \in DOMAIN OldRecords :
                               OldDid(r) = d /\ OldRecords[r].fc = top[d]
                          \/ \A f \in Counters : top[d] <= f
       /\ world = [k \in Keys |->
            IF k \in DOMAIN Enrolled THEN Passport(Enrolled[k])
            ELSE IF k \in DOMAIN OldRecords
              THEN BmuRecord(OldRecords[k].passport, OldDid(k),
                             OldRecords[k].fc, "VALID")
            ELSE IF k \in legacy THEN Legacy(top[k])
            ELSE Nil]
  /\ since = [d \in Dids |-> {r \in DOMAIN OldRecords : OldDid(r) = d}]

-----------------------------------------------------------------------------
(* Transactions.                                                           *)

Tx(op, d, reads, writes) ==
  [op |-> op, did |-> d, reads |-> reads, writes |-> writes]

Write(k, v) == [x \in {k} |-> v]

Write2(k, v, l, w) == [x \in {k, l} |-> IF x = k THEN v ELSE w]

\* The writes take effect.
Apply(t) ==
  /\ world' = [k \in Keys |-> IF k \in DOMAIN t.writes THEN t.writes[k]
                                                      ELSE world[k]]
  /\ since' = [since EXCEPT ![t.did] =
       IF t.op = "reset" THEN {}
       ELSE @ \cup {k \in DOMAIN t.writes \cap Ids : world[k] = Nil}]

\* The rich query of findLatestValidBMURecordByDID, and the newest of what it
\* returns.  Fabric puts every returned key into the read set.
LatestValid(d, excluded) ==
  {r \in ValidOf(d) \ excluded :
     \A s \in ValidOf(d) \ excluded : world[s].fc <= world[r].fc}

-----------------------------------------------------------------------------
(* Mutations: what the named definition would be with a bug in its lines.  *)

AnyPassportNext(p, d, f) ==                                 \* of NextFc
  Bound(d) /\ f > world[d].fc

RepeatNext(p, d, f) ==                                      \* of NextFc
  Bound(d) /\ world[d].passport = p /\ f >= world[d].fc

RecordOverwritten(r, p, d, f) ==                            \* of CanRecord
  Bound(d) /\ world[d].passport = p /\ f > world[d].fc

RecordedUnread(r, p, d, f, looked) ==                       \* of RecordTx
  Tx("record", d, looked,
     Write2(r, BmuRecord(p, d, f, "VALID"), d, Binding(p, f)))

ClearedToZero(d, r) ==                                      \* of RecomputedFc
  IF LatestValid(d, {r}) = {} THEN 0
  ELSE CHOOSE f \in Counters : \E s \in LatestValid(d, {r}) : world[s].fc = f

BindingDeleted(d) ==                                        \* of ResetTx
  Tx("reset", d, {d, world[d].passport}, Write(d, Nil))

RepairForAnyHolder(p, d) ==                                 \* of CanRepair
  /\ world[p] = Passport(d)
  /\ world[d] = Nil => \A s \in LatestValid(d, {}) : world[s].passport = p

-----------------------------------------------------------------------------
(* The calls: when each succeeds, and the transaction it makes.            *)

\* CreateBatteryPassport, with putInitialPassportFCBinding: a binding to the
\* same passport is left alone, any other is an error.  Nobody looks for
\* another passport that has the DID.
CanCreate(p, d) ==
  /\ world[p] = Nil
  /\ world[d] = Nil \/ (Bound(d) /\ world[d].passport = p)

CreateTx(p, d) ==
  Tx("create", d, {p, d},
     IF world[d] = Nil THEN Write2(p, Passport(d), d, Binding(p, NoFc))
                       ELSE Write(p, Passport(d)))

\* requireNextBMUFCForKey: a missing, legacy or foreign binding is refused,
\* and so is every counter that is not above the high water.
NextFc(p, d, f) ==
  /\ Bound(d)
  /\ world[d].passport = p
  /\ f > world[d].fc

\* RecordBMUDataAutoID looks up neither the record nor the passport, the calls
\* with a client's record id look up the record, and the passport where the DID
\* comes from the payload.  That look-up refuses nothing more, since the passport
\* a DID is bound to exists and has it.
CanRecord(r, p, d, f) == world[r] = Nil /\ NextFc(p, d, f)

RecordTx(r, p, d, f, looked) ==
  Tx("record", d, {d} \cup looked,
     Write2(r, BmuRecord(p, d, f, "VALID"), d, Binding(p, f)))

LookUps(r, p) == IF r \in AutoIds THEN {{}} ELSE {{r}, {r, p}}

\* InvalidateBMURecord: the record, and, when it holds the high water, the
\* binding as well, moved to the newest record still valid.
Invalidated(r) == [world[r] EXCEPT !.status = "INVALIDATED"]

HoldsHighWater(r) == world[world[r].did].fc = world[r].fc

CanInvalidate(r) ==
  /\ Valid(r)
  /\ Bound(world[r].did)
  /\ world[world[r].did].passport = world[r].passport
  /\ HoldsHighWater(r) =>
       \A s \in LatestValid(world[r].did, {r}) :
         world[s].passport = world[r].passport

\* The high water once record r of DID d no longer counts.
RecomputedFc(d, r) ==
  IF LatestValid(d, {r}) = {} THEN NoFc
  ELSE CHOOSE f \in Counters : \E s \in LatestValid(d, {r}) : world[s].fc = f

InvalidateTx(r) ==
  LET d == world[r].did IN
  IF HoldsHighWater(r)
  THEN Tx("invalidate", d, {r, d} \cup ValidOf(d),
          Write2(r, Invalidated(r),
                 d, Binding(world[r].passport, RecomputedFc(d, r))))
  ELSE Tx("invalidate", d, {r, d}, Write(r, Invalidated(r)))

\* ResetFCForDID: the binding stays, the high water is cleared.
CanReset(d) ==
  /\ Bound(d)
  /\ world[world[d].passport] = Passport(d)

ResetTx(d) ==
  Tx("reset", d, {d, world[d].passport},
     Write(d, Binding(world[d].passport, NoFc)))

\* RepairFCBindingForDID: a missing binding is rebuilt from the newest valid
\* record, a legacy one gets its passport, a canonical one is written again.
CanRepair(p, d) ==
  /\ world[p] = Passport(d)
  /\ \/ /\ world[d] = Nil
        /\ \A s \in LatestValid(d, {}) : world[s].passport = p
     \/ world[d].doc = "legacy"
     \/ Bound(d) /\ world[d].passport = p

RepairedFc(d) ==
  IF world[d] # Nil THEN world[d].fc
  ELSE IF LatestValid(d, {}) = {} THEN NoFc
  ELSE CHOOSE f \in Counters : \E s \in LatestValid(d, {}) : world[s].fc = f

RepairTx(p, d) ==
  Tx("repair", d, {p, d} \cup (IF world[d] = Nil THEN ValidOf(d) ELSE {}),
     Write(d, Binding(p, RepairedFc(d))))

-----------------------------------------------------------------------------
CreateBatteryPassport ==
  \E p \in Passports, d \in Dids : CanCreate(p, d) /\ Apply(CreateTx(p, d))

RecordBMUData ==
  \E r \in Ids, p \in Passports, d \in Dids, f \in Counters :
    /\ CanRecord(r, p, d, f)
    /\ \E looked \in LookUps(r, p) : Apply(RecordTx(r, p, d, f, looked))

InvalidateBMURecord == \E r \in Ids : CanInvalidate(r) /\ Apply(InvalidateTx(r))

ResetFCForDID == \E d \in Dids : CanReset(d) /\ Apply(ResetTx(d))

RepairFCBindingForDID ==
  \E p \in Passports, d \in Dids : CanRepair(p, d) /\ Apply(RepairTx(p, d))

Next == CreateBatteryPassport \/ RecordBMUData \/ InvalidateBMURecord
          \/ ResetFCForDID \/ RepairFCBindingForDID

Spec == Init /\ [][Next]_ledger

-----------------------------------------------------------------------------
(* Properties.                                                             *)

\* Record r is from before lastFc keys were bound, and DID d has gone to a
\* passport created later with the same DID: putInitialPassportFCBinding starts
\* the missing key with no high water, whatever has been recorded (helpers.go
\* 1390-1412), so the counter of r may be recorded again.
Forgotten(d, r) ==
  /\ r \in DOMAIN OldRecords
  /\ Bound(d)
  /\ world[d].passport \notin DOMAIN Enrolled

\* The records whose counters must not be accepted again.
Protected(d) == {r \in since[d] : Valid(r) /\ ~Forgotten(d, r)}

\* The high water of a bound DID is at or above every valid counter recorded
\* since its last reset and not forgotten (requireNextBMUFCForKey, "reject
\* replay/stale BMU data"): invalidations, repairs, other passports with the
\* DID and late commits never let one in twice.
HighWaterCovers ==
  \A d \in Dids : Bound(d) => \A r \in Protected(d) : world[r].fc <= world[d].fc

\* No two valid records of a DID since its last reset have the same counter,
\* in whatever order calls were endorsed and committed, unless the creation of
\* another passport with the DID made one of them forgotten.
ValidCountersDistinct ==
  \A d \in Dids : \A r, s \in Protected(d) : world[r].fc = world[s].fc => r = s

\* Every record belongs to a passport that exists and has the DID of the
\* record, although the AutoID path never loads the passport
\* (bmu_tx.go 219-222: the binding stands in for it).
RecordsOwned ==
  \A r \in Ids : Recorded(r) => world[world[r].passport] = Passport(world[r].did)

\* A record of a bound DID is of the passport the DID is bound to
\* (findLatestValidBMURecordByDID's callers refuse anything else, which would
\* leave the record that holds the high water impossible to invalidate), though
\* passports may share a DID.  Only what was recorded before lastFc keys were
\* bound can be of another passport, the DID having gone to its other holder.
OnePassportPerDid ==
  \A r \in Ids : Recorded(r) /\ Bound(world[r].did) =>
    \/ world[r].passport = world[world[r].did].passport
    \/ r \in DOMAIN OldRecords

\* A DID once bound stays bound to the same passport: no reset, repair or
\* creation of another passport moves it.
BindingStays ==
  [][\A d \in Dids : Bound(d) =>
       Bound(d)' /\ world'[d].passport = world[d].passport]_ledger

\* A record is never replaced and never becomes valid again; all that changes
\* is its status, once.
RecordsStay ==
  [][\A r \in Ids : Recorded(r) => world'[r] \in {world[r], Invalidated(r)}]_ledger

\* ADR-004 and reset-fc-runbook.md: a reset clears the high water, and records
\* resume from the counter the BMU is at.  So whatever bounds the BMU
\* afterwards was recorded afterwards.
ResetIsFinal ==
  \A d \in Dids : Bound(d) /\ world[d].fc # NoFc =>
    \E r \in since[d] : world[d].fc <= world[r].fc
=============================================================================
