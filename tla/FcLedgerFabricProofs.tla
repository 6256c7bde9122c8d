------------------------ MODULE FcLedgerFabricProofs ------------------------
(***************************************************************************)
(* Proofs about FcLedgerFabric, for any number of transactions in flight:  *)
(* Fabric adds no behaviour to the calls of FcLedger, so all that is       *)
(* proved of FcLedger holds on Fabric too.                                 *)
(*                                                                         *)
(* A pending transaction stays one that the chaincode would make now, as   *)
(* long as nothing it has read is written.  For what a call looks at       *)
(* without reading it there are reasons of its own: a record that a rich   *)
(* query did not return yet comes with a write of its DID's lastFc key,    *)
(* and an id taken from a transaction id is nobody else's.                 *)
(***************************************************************************)
EXTENDS FcLedgerFabric, FcLedgerProofs, FiniteSetTheorems

-----------------------------------------------------------------------------
(* Fabric adds no behaviour.                                               *)

\* Two transactions that make the same record under a transaction's id.
Clash(t, u) ==
  \E r \in AutoIds : r \in DOMAIN t.writes \cap DOMAIN u.writes /\ world[r] = Nil

\* What has not lost its ground stays callable.
LEMMA Unaffected ==
  ASSUME TypeOK, NEW t, Callable(t), Apply(t), NEW u, Callable(u),
         StillValid(u, DOMAIN t.writes), ~Clash(t, u)
  PROVE  Callable(u)'
<1>0. u.reads \cap DOMAIN t.writes = {}
  BY DEF StillValid
<1>1. CASE IsCreate(u)
  <2>1. PICK p \in Passports, d \in Dids :
          CanCreate(p, d) /\ u = CreateTx(p, d)
    BY <1>1 DEF IsCreate
  <2>2. p \notin DOMAIN t.writes /\ d \notin DOMAIN t.writes
    BY <1>0, <2>1 DEF CreateTx, Tx
  <2> QED BY <2>1, <2>2, CreateKept DEF Callable, IsCreate
<1>2. CASE IsRecord(u)
  <2>0. PICK r \in Ids, p \in Passports, d \in Dids, f \in Counters :
          /\ CanRecord(r, p, d, f)
          /\ \E looked \in LookUps(r, p) : u = RecordTx(r, p, d, f, looked)
    BY <1>2 DEF IsRecord
  <2>1. PICK looked \in LookUps(r, p) : u = RecordTx(r, p, d, f, looked)
    BY <2>0
  <2>2. u.reads = {d} \cup looked /\ r \in DOMAIN u.writes
    BY <2>1 DEF RecordTx, Tx, Write2
  <2>3. r \notin DOMAIN t.writes
    <3>1. CASE r \in AutoIds
      BY <2>0, <2>2, <3>1 DEF Clash, CanRecord
    <3>2. CASE r \notin AutoIds
      BY <1>0, <2>1, <2>2, <3>2 DEF LookUps
    <3> QED BY <3>1, <3>2
  <2>4. CanRecord(r, p, d, f)'
    BY <1>0, <2>0, <2>2, <2>3, RecordStill
  <2> QED BY <2>0, <2>4 DEF Callable, IsRecord
<1>3. CASE IsInvalidate(u)
  BY <1>0, <1>3, InvalidateKept DEF Callable, IsInvalidate
<1>4. CASE IsReset(u)
  BY <1>0, <1>4, ResetKept DEF Callable, IsReset
<1>5. CASE IsRepair(u)
  BY <1>0, <1>5, RepairKept DEF Callable, IsRepair
<1> QED BY <1>1, <1>2, <1>3, <1>4, <1>5 DEF Callable

\* Every pending transaction is one the chaincode would make now.
Current == \A t \in pending : Callable(t)

\* No two pending transactions make the same record under a transaction's id.
OwnIds == \A t, u \in pending : t # u => ~Clash(t, u)

\* An endorsement adds a transaction of the present state, under its own id.
Endorsed(t) ==
  /\ Callable(t)
  /\ Endorse(t)
  /\ \A u \in pending : ~Clash(t, u) /\ ~Clash(u, t)

\* A transaction with an unused id, or none of its own, clashes with no other.
LEMMA NoClash ==
  ASSUME TypeOK, Current, NEW t, Callable(t),
         \/ ~IsRecord(t)
         \/ \E r \in Ids : Unused(r) /\ DOMAIN t.writes \cap Ids = {r}
  PROVE  \A u \in pending : ~Clash(t, u) /\ ~Clash(u, t)
<1> SUFFICES ASSUME NEW u \in pending, NEW r \in AutoIds,
                    r \in DOMAIN t.writes, r \in DOMAIN u.writes, world[r] = Nil
             PROVE  FALSE
  BY DEF Clash
<1>1. r \in Ids
  BY DEF Ids
<1>2. ~Valid(r)
  BY DEF Valid, Recorded, Nil
<1>3. IsRecord(t)
  BY <1>1, <1>2, IdsWritten
<1>4. Unused(r)
  BY <1>1, <1>3
<1> QED BY <1>4 DEF Unused

\* Every step of Fabric endorses such a transaction or commits one.
LEMMA Steps ==
  ASSUME TypeOK, Current, FabricNext
  PROVE  Commit \/ \E t : Endorsed(t)
<1>1. CASE EndorseCreate
  <2>1. PICK p \in Passports, d \in Dids :
          CanCreate(p, d) /\ Endorse(CreateTx(p, d))
    BY <1>1 DEF EndorseCreate
  <2>2. Callable(CreateTx(p, d))
    BY <2>1 DEF Callable, IsCreate
  <2>3. ~IsRecord(CreateTx(p, d))
    BY DEF IsRecord, CreateTx, RecordTx, Tx
  <2> QED BY <2>1, <2>2, <2>3, NoClash DEF Endorsed
<1>2. CASE EndorseRecord
  <2>0. PICK r \in Ids, p \in Passports, d \in Dids, f \in Counters :
          /\ Unused(r) /\ CanRecord(r, p, d, f)
          /\ \E looked \in LookUps(r, p) : Endorse(RecordTx(r, p, d, f, looked))
    BY <1>2 DEF EndorseRecord
  <2>1. PICK looked \in LookUps(r, p) : Endorse(RecordTx(r, p, d, f, looked))
    BY <2>0
  <2> DEFINE t == RecordTx(r, p, d, f, looked)
  <2>2. Callable(t)
    BY <2>0 DEF Callable, IsRecord
  <2>3. DOMAIN t.writes \cap Ids = {r}
    BY DidKey DEF RecordTx, Tx, Write2
  <2> HIDE DEF t
  <2> QED BY <2>0, <2>1, <2>2, <2>3, NoClash DEF Endorsed, t
<1>3. CASE EndorseInvalidate
  <2>1. PICK r \in Ids : CanInvalidate(r) /\ Endorse(InvalidateTx(r))
    BY <1>3 DEF EndorseInvalidate
  <2>2. Callable(InvalidateTx(r))
    BY <2>1 DEF Callable, IsInvalidate
  <2>3. InvalidateTx(r).op = "invalidate"
    BY DEF InvalidateTx, Tx
  <2>4. ~IsRecord(InvalidateTx(r))
    BY <2>3 DEF IsRecord, RecordTx, Tx
  <2> QED BY <2>1, <2>2, <2>4, NoClash DEF Endorsed
<1>4. CASE EndorseReset
  <2>1. PICK d \in Dids : CanReset(d) /\ Endorse(ResetTx(d))
    BY <1>4 DEF EndorseReset
  <2>2. Callable(ResetTx(d))
    BY <2>1 DEF Callable, IsReset
  <2>3. ~IsRecord(ResetTx(d))
    BY DEF IsRecord, ResetTx, RecordTx, Tx
  <2> QED BY <2>1, <2>2, <2>3, NoClash DEF Endorsed
<1>5. CASE EndorseRepair
  <2>1. PICK p \in Passports, d \in Dids :
          CanRepair(p, d) /\ Endorse(RepairTx(p, d))
    BY <1>5 DEF EndorseRepair
  <2>2. Callable(RepairTx(p, d))
    BY <2>1 DEF Callable, IsRepair
  <2>3. ~IsRecord(RepairTx(p, d))
    BY DEF IsRecord, RepairTx, RecordTx, Tx
  <2> QED BY <2>1, <2>2, <2>3, NoClash DEF Endorsed
<1> QED BY <1>1, <1>2, <1>3, <1>4, <1>5 DEF FabricNext

\* An id under which there is something never becomes free again.
LEMMA NeverFree ==
  ASSUME TypeOK, NEW t, Callable(t), Apply(t), NEW r \in Ids, world'[r] = Nil
  PROVE  world[r] = Nil
<1>1. CASE r \notin DOMAIN t.writes
  BY <1>1, RecordKey, NotWritten
<1>2. CASE r \in DOMAIN t.writes
  <2>1. CASE Valid(r) /\ t.writes[r] = Invalidated(r)
    <3>1. \A p, d, f, s : BmuRecord(p, d, f, s) # Nil
      BY DEF BmuRecord, Nil
    <3>2. t.writes[r] # Nil
      BY <2>1, <3>1, InvalidatedShape DEF Valid
    <3> QED BY <1>2, <3>2, RecordKey, WrittenThere
  <2> QED BY <1>2, <2>1, IdsWritten
<1> QED BY <1>1, <1>2

\* The pending transactions stay current, and apart.
LEMMA CurrentStep ==
  ASSUME TypeOK, Current, OwnIds, [FabricNext]_fabric
  PROVE  TypeOK' /\ Current' /\ OwnIds'
<1>1. ASSUME UNCHANGED ledger
      PROVE  /\ TypeOK'
             /\ \A t : Callable(t) => Callable(t)'
             /\ \A t, u : Clash(t, u)' = Clash(t, u)
  <2>1. world' = world /\ since' = since
    BY <1>1 DEF ledger
  <2>2. TypeOK'
    BY <1>1, TypeStep
  <2>3. \A t : Callable(t) => Callable(t)'
    BY <2>1, CallsSame
  <2>4. \A t, u : Clash(t, u)' = Clash(t, u)
    BY <2>1 DEF Clash
  <2> QED BY <2>2, <2>3, <2>4
<1>2. CASE UNCHANGED fabric
  BY <1>1, <1>2 DEF fabric, ledger, Current, OwnIds
<1>3. ASSUME NEW t, Endorsed(t)
      PROVE  TypeOK' /\ Current' /\ OwnIds'
  <2>1. UNCHANGED ledger /\ pending' = pending \cup {t}
    BY <1>3 DEF Endorsed, Endorse
  <2>2. TypeOK' /\ Current'
    BY <1>1, <1>3, <2>1 DEF Endorsed, Current
  <2>3. \A u, v \in pending \cup {t} : u # v => ~Clash(u, v)
    BY <1>3 DEF Endorsed, OwnIds
  <2>4. OwnIds'
    BY <1>1, <2>1, <2>3 DEF OwnIds
  <2> QED BY <2>2, <2>4
<1>4. CASE Commit
  <2>1. PICK t \in pending :
          /\ Apply(t)
          /\ pending' = {u \in pending \ {t} : StillValid(u, DOMAIN t.writes)}
    BY <1>4 DEF Commit
  <2>2. Callable(t)
    BY DEF Current
  <2>3. TypeOK'
    BY <2>1, <2>2, CallIsStep, TypeStep
  <2>4. Current'
    BY <2>1, <2>2, Unaffected DEF Current, OwnIds
  <2>5. \A u, v : Clash(u, v)' => Clash(u, v)
    BY <2>1, <2>2, NeverFree DEF Clash, Ids
  <2>6. OwnIds'
    BY <2>1, <2>5 DEF OwnIds
  <2> QED BY <2>3, <2>4, <2>6
<1> QED BY <1>2, <1>3, <1>4, Steps

LEMMA CurrentAlways == FabricSpec => [](TypeOK /\ Current /\ OwnIds)
<1>1. FabricInit => TypeOK /\ Current /\ OwnIds
  BY TypeInit DEF FabricInit, Current, OwnIds
<1>2. TypeOK /\ Current /\ OwnIds /\ [FabricNext]_fabric
        => (TypeOK /\ Current /\ OwnIds)'
  BY CurrentStep
<1> QED BY <1>1, <1>2, PTL DEF FabricSpec

\* Fabric implements the calls taken one at a time.
THEOREM Serializes == FabricSpec => Serializable
<1>1. FabricInit => Init
  BY DEF FabricInit
<1>2. TypeOK /\ Current /\ [FabricNext]_fabric => [Next]_ledger
  <2> SUFFICES ASSUME TypeOK, Current, FabricNext
               PROVE  Next \/ UNCHANGED ledger
    BY DEF fabric, ledger
  <2>1. CASE Commit
    BY <2>1, CallIsStep DEF Commit, Current
  <2>2. CASE \E t : Endorsed(t)
    BY <2>2 DEF Endorsed, Endorse
  <2> QED BY <2>1, <2>2, Steps
<1> QED BY <1>1, <1>2, CurrentAlways, PTL DEF FabricSpec, Serializable, Spec

-----------------------------------------------------------------------------
(* So what is proved of FcLedger holds on Fabric.                          *)

\* Finitely many transactions are pending, within the bound.
Bounded == IsFiniteSet(pending) /\ Cardinality(pending) <= MaxPending

\* Every reachable state of the ledger on Fabric keeps to its types.
THEOREM FabricTypeCorrect == FabricSpec => []FabricTypeOK
<1>1. FabricInit => Bounded
  BY FS_EmptySet, PendingAssumption DEF FabricInit, Bounded
<1>2. TypeOK /\ Current /\ Bounded /\ [FabricNext]_fabric => Bounded'
  <2> SUFFICES ASSUME TypeOK, Current, Bounded, [FabricNext]_fabric
               PROVE  Bounded'
    OBVIOUS
  <2>1. CASE UNCHANGED fabric
    BY <2>1 DEF fabric, Bounded
  <2>2. ASSUME NEW t, Endorsed(t)
        PROVE  Bounded'
    <3>1. pending' = pending \cup {t} /\ Cardinality(pending) < MaxPending
      BY <2>2 DEF Endorsed, Endorse
    <3>2. /\ IsFiniteSet(pending')
          /\ Cardinality(pending') \in
               {Cardinality(pending), Cardinality(pending) + 1}
      BY <3>1, FS_AddElement DEF Bounded
    <3>3. Cardinality(pending) \in Nat
      BY FS_CardinalityType DEF Bounded
    <3> QED BY <3>1, <3>2, <3>3, PendingAssumption DEF Bounded
  <2>3. CASE Commit
    <3>1. pending' \subseteq pending
      BY <2>3 DEF Commit
    <3>2. IsFiniteSet(pending') /\ Cardinality(pending') <= Cardinality(pending)
      BY <3>1, FS_Subset DEF Bounded
    <3>3. Cardinality(pending) \in Nat /\ Cardinality(pending') \in Nat
      BY <3>2, FS_CardinalityType DEF Bounded
    <3> QED BY <3>2, <3>3, PendingAssumption DEF Bounded
  <2> QED BY <2>1, <2>2, <2>3, Steps
<1>3. TypeOK /\ Current /\ Bounded => FabricTypeOK
  BY KeysOfCall DEF Current, Bounded, FabricTypeOK
<1> QED BY <1>1, <1>2, <1>3, CurrentAlways, PTL DEF FabricSpec

\* On Fabric, every record belongs to a passport that has its DID.
THEOREM FabricRecordsAreOwned == FabricSpec => []RecordsOwned
BY Serializes, RecordsAreOwned, PTL DEF Serializable

\* On Fabric, records are only ever invalidated.
THEOREM FabricRecordsAreKept == FabricSpec => RecordsStay
BY Serializes, RecordsAreKept, PTL DEF Serializable

\* On Fabric, a binding never moves to another passport.
THEOREM FabricBindingsAreKept == FabricSpec => BindingStays
BY Serializes, BindingsAreKept, PTL DEF Serializable

\* On Fabric, the high water covers every valid record since the last reset, but
\* for those from before lastFc keys were bound whose DID a later passport took.
THEOREM FabricHighWater == FabricSpec => []HighWaterCovers
BY Serializes, HighWater, PTL DEF Serializable

\* On Fabric, with the same exception, no two valid records of a DID since its
\* last reset have the same counter.
THEOREM FabricCountersDistinct == FabricSpec => []ValidCountersDistinct
BY Serializes, CountersDistinct, PTL DEF Serializable

\* On Fabric, records made since lastFc keys were bound are of the passport
\* their DID is bound to, though passports may share a DID and their creations,
\* repairs and records may be endorsed at once.
THEOREM FabricOnePassport == FabricSpec => []OnePassportPerDid
BY Serializes, OnePassport, PTL DEF Serializable
=============================================================================
