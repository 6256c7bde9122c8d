--------------------------- MODULE FcLedgerProofs ---------------------------
(***************************************************************************)
(* Proofs about FcLedger, for any sets of passports, DIDs, records and     *)
(* counters, and whichever passports share a DID.                          *)
(*                                                                         *)
(* Each call has a lemma saying what it does to the keys it touches; the   *)
(* rest of the proof is about those effects alone.                         *)
(***************************************************************************)
EXTENDS FcLedger, TLAPS, WellFoundedInduction

-----------------------------------------------------------------------------
(* Counters, and the newest valid record.                                  *)

LEMMA CountersNat == Counters \subseteq Nat
BY LedgerAssumption, SMT DEF LedgerAssumption

\* A nonempty set of counters has a largest member.
LEMMA LargestCounter ==
  ASSUME NEW T, T \subseteq Counters, T # {}
  PROVE  \E f \in T : \A g \in T : g <= f
<1> DEFINE top == MaxCounter
<1>1. top \in Nat /\ Counters \subseteq 0 .. top
  BY LedgerAssumption DEF LedgerAssumption
<1> HIDE DEF top
<1> DEFINE U == {n \in Nat : \E f \in T : n = top - f}
<1> DEFINE R == {ss \in Nat \X Nat : ss[1] < ss[2]}
<1>2. IsWellFoundedOn(R, Nat)
  BY NatLessThanWellFounded DEF OpToRel
<1>3. ASSUME NEW f \in T
      PROVE  top - f \in U
  BY <1>1, SMT
<1>4. U \subseteq Nat /\ U # {}
  <2>1. PICK f \in T : TRUE
    OBVIOUS
  <2>2. top - f \in U
    BY <1>3
  <2>3. QED
    BY <2>2
<1>5. \E n \in U : \A m \in U : ~ (<<m, n>> \in R)
  <2> HIDE DEF U, R
  <2> QED  BY <1>2, <1>4, WFMin, Zenon
<1>6. PICK n \in U : \A m \in U : ~ (<<m, n>> \in R)
  BY <1>5
<1>7. ASSUME NEW m \in U
      PROVE  n <= m
  <2>1. n \in Nat /\ m \in Nat
    BY <1>4
  <2>2. ~ (m < n)
    BY <1>6, <2>1
  <2>3. QED
    BY <2>1, <2>2, SMT
<1>8. PICK f \in T : n = top - f
  OBVIOUS
<1>9. ASSUME NEW g \in T
      PROVE  g <= f
  <2>1. n <= top - g
    BY <1>3, <1>7
  <2>2. QED
    BY <2>1, <1>8, <1>1, SMT
<1>10. QED
  BY <1>9

-----------------------------------------------------------------------------
(* Keys and the documents under them.                                      *)

LEMMA DidKey ==
  ASSUME NEW d \in Dids
  PROVE  d \in Keys /\ d \notin Ids /\ d \notin Passports
BY LedgerAssumption DEF LedgerAssumption, Keys

LEMMA PassportKey ==
  ASSUME NEW p \in Passports
  PROVE  p \in Keys /\ p \notin Ids /\ p \notin Dids
BY LedgerAssumption DEF LedgerAssumption, Keys

LEMMA RecordKey ==
  ASSUME NEW r \in Ids
  PROVE  r \in Keys /\ r \notin Passports /\ r \notin Dids
BY LedgerAssumption DEF LedgerAssumption, Keys

\* What is under a record id is a whole record.
LEMMA RecordShape ==
  ASSUME TypeOK, NEW r \in Ids, Recorded(r)
  PROVE  /\ world[r].passport \in Passports
         /\ world[r].did \in Dids
         /\ world[r].fc \in Counters
         /\ world[r].status \in {"VALID", "INVALIDATED"}
         /\ world[r] = BmuRecord(world[r].passport, world[r].did,
                                 world[r].fc, world[r].status)
<1>1. world[r] # Nil
  BY DEF Recorded, Nil
<1>2. PICK p \in Passports, d \in Dids, f \in Counters,
           t \in {"VALID", "INVALIDATED"} : world[r] = BmuRecord(p, d, f, t)
  BY <1>1 DEF TypeOK, RecordDoc
<1>3. QED
  BY <1>2 DEF BmuRecord

\* Invalidating a record changes its status and nothing else.
LEMMA InvalidatedShape ==
  ASSUME TypeOK, NEW r \in Ids, Recorded(r)
  PROVE  Invalidated(r) = BmuRecord(world[r].passport, world[r].did,
                                    world[r].fc, "INVALIDATED")
<1>1. PICK p, d, f, s : world[r] = BmuRecord(p, d, f, s)
  BY RecordShape
<1>2. Invalidated(r) = BmuRecord(p, d, f, "INVALIDATED")
  BY <1>1 DEF Invalidated, BmuRecord
<1>3. QED
  BY <1>1, <1>2 DEF BmuRecord

\* What is under a DID, if anything, has a counter or NoFc; if bound, it is a
\* whole binding.
LEMMA BindingShape ==
  ASSUME TypeOK, NEW d \in Dids, Bound(d)
  PROVE  /\ world[d] # Nil
         /\ world[d].passport \in Passports
         /\ world[d].fc \in Counters \cup {NoFc}
         /\ world[d] = Binding(world[d].passport, world[d].fc)
<1>1. world[d] # Nil /\ \A f : world[d] # Legacy(f)
  BY DEF Bound, Nil, Legacy
<1>2. PICK p \in Passports, f \in Counters \cup {NoFc} :
        world[d] = Binding(p, f)
  BY <1>1 DEF TypeOK, DidDoc
<1>3. QED
  BY <1>1, <1>2 DEF Binding

LEMMA DidShape ==
  ASSUME TypeOK, NEW d \in Dids, world[d] # Nil
  PROVE  world[d].fc \in Counters \cup {NoFc}
<1>1. CASE \E f \in Counters : world[d] = Legacy(f)
  BY <1>1 DEF Legacy
<1>2. CASE \E p \in Passports, f \in Counters \cup {NoFc} :
             world[d] = Binding(p, f)
  BY <1>2 DEF Binding
<1>3. QED
  BY <1>1, <1>2 DEF TypeOK, DidDoc

\* Counters and NoFc are integers.
LEMMA FcInt ==
  ASSUME NEW f \in Counters \cup {NoFc}
  PROVE  f \in Int
BY CountersNat, SMT DEF NoFc

-----------------------------------------------------------------------------
(* The newest valid record bounds the others.                              *)

\* What the rich query leaves as the new high water covers every record it
\* returned, and is "no counter" only if it returned none.
LEMMA NewestCovers ==
  ASSUME TypeOK, NEW d \in Dids, NEW excluded
  PROVE  LET g == IF LatestValid(d, excluded) = {} THEN NoFc
                  ELSE CHOOSE f \in Counters :
                         \E s \in LatestValid(d, excluded) : world[s].fc = f
         IN  /\ g \in Counters \cup {NoFc}
             /\ \A s \in ValidOf(d) \ excluded : world[s].fc <= g
<1> DEFINE S == ValidOf(d) \ excluded
<1> DEFINE T == {f \in Counters : \E s \in S : world[s].fc = f}
<1> DEFINE L == LatestValid(d, excluded)
<1> DEFINE C == CHOOSE f \in Counters : \E s \in L : world[s].fc = f
<1>1. \A s \in S : world[s].fc \in Counters
  BY RecordShape DEF ValidOf, Valid
<1>2. L = {r \in S : \A s \in S : world[s].fc <= world[r].fc}
  BY DEF LatestValid
<1> HIDE DEF S, L
<1>3. CASE S = {}
  <2>1. L = {}
    BY <1>2, <1>3
  <2>2. QED
    BY <2>1, <1>3 DEF L, S
<1>4. CASE S # {}
  <2>1. T # {}
    BY <1>1, <1>4
  <2>2. PICK f \in T : \A g \in T : g <= f
    BY <2>1, LargestCounter
  <2>3. PICK r \in S : world[r].fc = f
    OBVIOUS
  <2>4. r \in L
    BY <2>2, <2>3, <1>1, <1>2
  <2>5. \E g \in Counters : \E s \in L : world[s].fc = g
    BY <2>4, <2>3, <1>1
  <2>6. C \in Counters /\ \E s \in L : world[s].fc = C
    BY <2>5
  <2>7. \A s \in S : world[s].fc <= C
    BY <2>6, <1>2
  <2>8. QED
    BY <2>4, <2>6, <2>7 DEF L, S
<1>5. QED
  BY <1>3, <1>4

-----------------------------------------------------------------------------
(* What each call does.                                                    *)

\* A transaction that stores no new record leaves the history alone.
LEMMA SinceKept ==
  ASSUME TypeOK, NEW d, NEW N, N = {},
         since' = [since EXCEPT ![d] = @ \cup N]
  PROVE  since' = since
BY SMT DEF TypeOK

\* CreateBatteryPassport
LEMMA CreateEffect ==
  ASSUME TypeOK, CreateBatteryPassport
  PROVE  \E p \in Passports, d \in Dids :
           /\ CanCreate(p, d)
           /\ DOMAIN world' = Keys
           /\ world'[p] = Passport(d)
           /\ world'[d] = IF world[d] = Nil THEN Binding(p, NoFc) ELSE world[d]
           /\ \A x \in Keys \ {p, d} : world'[x] = world[x]
           /\ since' = since
<1>0. PICK p \in Passports, d \in Dids :
        CanCreate(p, d) /\ Apply(CreateTx(p, d))
  BY LedgerAssumption DEF CreateBatteryPassport, LedgerAssumption
<1> DEFINE w == IF world[d] = Nil
                THEN Write2(p, Passport(d), d, Binding(p, NoFc))
                ELSE Write(p, Passport(d))
           N == {x \in DOMAIN w \cap Ids : world[x] = Nil}
<1>1. p \in Keys /\ d \in Keys /\ p # d
  BY DidKey, PassportKey
<1>2. /\ DOMAIN w = IF world[d] = Nil THEN {p, d} ELSE {p}
      /\ w[p] = Passport(d)
      /\ world[d] = Nil => w[d] = Binding(p, NoFc)
  BY <1>1 DEF Write, Write2
<1>3. N = {}
  BY <1>2, DidKey, PassportKey
<1>4. Apply(Tx("create", d, {p, d}, w))
  BY <1>0 DEF CreateTx
<1> HIDE DEF w
<1>5. /\ world' = [x \in Keys |-> IF x \in DOMAIN w THEN w[x] ELSE world[x]]
      /\ since' = [since EXCEPT ![d] = @ \cup N]
  BY <1>4 DEF Apply, Tx
<1>6. since' = since
  <2> HIDE DEF N
  <2> QED  BY <1>3, <1>5, SinceKept
<1>7. QED
  BY <1>0, <1>1, <1>2, <1>5, <1>6

\* RecordBMUData
LEMMA RecordEffect ==
  ASSUME TypeOK, RecordBMUData
  PROVE  \E r \in Ids, p \in Passports, d \in Dids, f \in Counters :
           /\ CanRecord(r, p, d, f)
           /\ DOMAIN world' = Keys
           /\ world'[r] = BmuRecord(p, d, f, "VALID")
           /\ world'[d] = Binding(p, f)
           /\ \A x \in Keys \ {r, d} : world'[x] = world[x]
           /\ since' = [since EXCEPT ![d] = @ \cup {r}]
<1>0. PICK r \in Ids, p \in Passports, d \in Dids, f \in Counters :
        /\ CanRecord(r, p, d, f)
        /\ \E looked \in LookUps(r, p) : Apply(RecordTx(r, p, d, f, looked))
  BY DEF RecordBMUData
<1> DEFINE w == Write2(r, BmuRecord(p, d, f, "VALID"), d, Binding(p, f))
           N == {x \in DOMAIN w \cap Ids : world[x] = Nil}
<1>1. r \in Keys /\ d \in Keys /\ r # d
  BY DidKey, RecordKey
<1>2. /\ DOMAIN w = {r, d}
      /\ w[r] = BmuRecord(p, d, f, "VALID")
      /\ w[d] = Binding(p, f)
  BY <1>1 DEF Write2
<1>3. N = {r}
  BY <1>0, <1>2, DidKey DEF CanRecord
<1>4. PICK reads : Apply(Tx("record", d, reads, w))
  BY <1>0 DEF RecordTx
<1> HIDE DEF w
<1>5. /\ world' = [x \in Keys |-> IF x \in DOMAIN w THEN w[x] ELSE world[x]]
      /\ since' = [since EXCEPT ![d] = @ \cup N]
  BY <1>4 DEF Apply, Tx
<1>6. since' = [since EXCEPT ![d] = @ \cup {r}]
  <2> HIDE DEF N
  <2> QED  BY <1>3, <1>5
<1>7. QED
  BY <1>0, <1>1, <1>2, <1>5, <1>6

\* InvalidateBMURecord
LEMMA InvalidateEffect ==
  ASSUME TypeOK, InvalidateBMURecord
  PROVE  \E r \in Ids, d \in Dids, g \in Counters \cup {NoFc} :
           /\ CanInvalidate(r)
           /\ d = world[r].did
           /\ DOMAIN world' = Keys
           /\ world'[r] = Invalidated(r)
           /\ \A x \in Keys \ {r, d} : world'[x] = world[x]
           /\ world'[d] = Binding(world[d].passport, g)
           /\ \/ g = world[d].fc
              \/ \A s \in ValidOf(d) \ {r} : world[s].fc <= g
           /\ since' = since
<1>0. PICK r \in Ids : CanInvalidate(r) /\ Apply(InvalidateTx(r))
  BY DEF InvalidateBMURecord
<1> DEFINE d == world[r].did
           g == RecomputedFc(d, r)
           w == IF HoldsHighWater(r)
                THEN Write2(r, Invalidated(r), d, Binding(world[r].passport, g))
                ELSE Write(r, Invalidated(r))
           N == {x \in DOMAIN w \cap Ids : world[x] = Nil}
<1>1. Recorded(r) /\ Bound(d)
  BY <1>0 DEF CanInvalidate, Valid
<1>2. d \in Dids
  BY <1>1, RecordShape
<1>3. r \in Keys /\ d \in Keys /\ r # d /\ d \notin Ids
  BY <1>2, DidKey, RecordKey
<1>4. world[r] # Nil
  BY <1>1 DEF Recorded, Nil
<1>5. world[d].passport = world[r].passport
  BY <1>0 DEF CanInvalidate
<1>6. /\ world[d] = Binding(world[d].passport, world[d].fc)
      /\ world[d].fc \in Counters \cup {NoFc}
  BY <1>1, <1>2, BindingShape
<1>7. /\ g \in Counters \cup {NoFc}
      /\ \A s \in ValidOf(d) \ {r} : world[s].fc <= g
  BY <1>2, NewestCovers DEF RecomputedFc
<1>8. PICK reads : Apply(Tx("invalidate", d, reads, w))
  <2>1. CASE HoldsHighWater(r)
    BY <1>0, <2>1 DEF InvalidateTx
  <2>2. CASE ~ HoldsHighWater(r)
    BY <1>0, <2>2 DEF InvalidateTx
  <2>3. QED
    BY <2>1, <2>2
<1> HIDE DEF g
<1>9. /\ DOMAIN w = IF HoldsHighWater(r) THEN {r, d} ELSE {r}
      /\ w[r] = Invalidated(r)
      /\ HoldsHighWater(r) => w[d] = Binding(world[r].passport, g)
  BY <1>3 DEF Write, Write2
<1>10. N = {}
  BY <1>9, <1>3, <1>4
<1> HIDE DEF w
<1>11. /\ world' = [x \in Keys |-> IF x \in DOMAIN w THEN w[x] ELSE world[x]]
       /\ since' = [since EXCEPT ![d] = @ \cup N]
  BY <1>8 DEF Apply, Tx
<1>12. since' = since
  <2> HIDE DEF N
  <2> QED  BY <1>10, <1>11, SinceKept
<1>13. /\ DOMAIN world' = Keys
       /\ world'[r] = Invalidated(r)
       /\ \A x \in Keys \ {r, d} : world'[x] = world[x]
       /\ world'[d] = IF HoldsHighWater(r) THEN Binding(world[r].passport, g)
                                           ELSE world[d]
  BY <1>3, <1>9, <1>11
<1>14. QED
  BY <1>0, <1>2, <1>5, <1>6, <1>7, <1>12, <1>13

\* ResetFCForDID
LEMMA ResetEffect ==
  ASSUME TypeOK, ResetFCForDID
  PROVE  \E d \in Dids :
           /\ CanReset(d)
           /\ DOMAIN world' = Keys
           /\ world'[d] = Binding(world[d].passport, NoFc)
           /\ \A x \in Keys \ {d} : world'[x] = world[x]
           /\ since' = [since EXCEPT ![d] = {}]
<1>0. PICK d \in Dids : CanReset(d) /\ Apply(ResetTx(d))
  BY DEF ResetFCForDID
<1> DEFINE w == Write(d, Binding(world[d].passport, NoFc))
<1>1. DOMAIN w = {d} /\ w[d] = Binding(world[d].passport, NoFc)
  BY DEF Write
<1>2. Apply(Tx("reset", d, {d, world[d].passport}, w))
  BY <1>0 DEF ResetTx
<1> HIDE DEF w
<1>3. /\ world' = [x \in Keys |-> IF x \in DOMAIN w THEN w[x] ELSE world[x]]
      /\ since' = [since EXCEPT ![d] = {}]
  BY <1>2 DEF Apply, Tx
<1>4. QED
  BY <1>0, <1>1, <1>3, DidKey

\* RepairFCBindingForDID
LEMMA RepairEffect ==
  ASSUME TypeOK, RepairFCBindingForDID
  PROVE  \E p \in Passports, d \in Dids, g \in Counters \cup {NoFc} :
           /\ CanRepair(p, d)
           /\ DOMAIN world' = Keys
           /\ \A x \in Keys \ {d} : world'[x] = world[x]
           /\ world'[d] = Binding(p, g)
           /\ world[d] # Nil => g = world[d].fc
           /\ world[d] = Nil => \A s \in ValidOf(d) : world[s].fc <= g
           /\ since' = since
<1>0. PICK p \in Passports, d \in Dids : CanRepair(p, d) /\ Apply(RepairTx(p, d))
  BY DEF RepairFCBindingForDID
<1> DEFINE g == RepairedFc(d)
           w == Write(d, Binding(p, g))
           N == {x \in DOMAIN w \cap Ids : world[x] = Nil}
<1>1. /\ g \in Counters \cup {NoFc}
      /\ world[d] # Nil => g = world[d].fc
      /\ world[d] = Nil => \A s \in ValidOf(d) : world[s].fc <= g
  <2>1. CASE world[d] = Nil
    <3>1. ValidOf(d) \ {} = ValidOf(d)
      OBVIOUS
    <3>2. QED
      BY <2>1, <3>1, NewestCovers DEF RepairedFc
  <2>2. CASE world[d] # Nil
    BY <2>2, DidShape DEF RepairedFc
  <2>3. QED
    BY <2>1, <2>2
<1>2. PICK reads : Apply(Tx("repair", d, reads, w))
  BY <1>0 DEF RepairTx
<1> HIDE DEF g
<1>3. DOMAIN w = {d} /\ w[d] = Binding(p, g)
  BY DEF Write
<1>4. N = {}
  BY <1>3, DidKey
<1> HIDE DEF w
<1>5. /\ world' = [x \in Keys |-> IF x \in DOMAIN w THEN w[x] ELSE world[x]]
      /\ since' = [since EXCEPT ![d] = @ \cup N]
  BY <1>2 DEF Apply, Tx
<1>6. since' = since
  <2> HIDE DEF N
  <2> QED  BY <1>4, <1>5, SinceKept
<1>7. QED
  BY <1>0, <1>1, <1>3, <1>5, <1>6, DidKey

-----------------------------------------------------------------------------
(* Type correctness.                                                       *)

\* Every key written holds a document of its kind; the others are as before.
LEMMA TypeStep == TypeOK /\ [Next]_ledger => TypeOK'
<1> SUFFICES ASSUME TypeOK, [Next]_ledger
             PROVE  TypeOK'
  OBVIOUS
<1>0. /\ DOMAIN world = Keys
      /\ \A p \in Passports : PassportDoc(world[p])
      /\ \A d \in Dids : DidDoc(world[d])
      /\ \A r \in Ids : RecordDoc(world[r])
      /\ since \in [Dids -> SUBSET Ids]
  BY DEF TypeOK
<1> SUFFICES /\ DOMAIN world' = Keys
             /\ \A p \in Passports : PassportDoc(world'[p])
             /\ \A d \in Dids : DidDoc(world'[d])
             /\ \A r \in Ids : RecordDoc(world'[r])
             /\ since' \in [Dids -> SUBSET Ids]
  BY DEF TypeOK
<1>1. CASE CreateBatteryPassport
  <2>1. PICK p \in Passports, d \in Dids :
          /\ DOMAIN world' = Keys
          /\ world'[p] = Passport(d)
          /\ world'[d] = IF world[d] = Nil THEN Binding(p, NoFc) ELSE world[d]
          /\ \A x \in Keys \ {p, d} : world'[x] = world[x]
          /\ since' = since
    BY <1>1, CreateEffect
  <2>2. PassportDoc(Passport(d)) /\ DidDoc(Binding(p, NoFc))
    BY DEF PassportDoc, DidDoc
  <2>3. QED
    BY <1>0, <2>1, <2>2, PassportKey, DidKey, RecordKey
<1>2. CASE RecordBMUData
  <2>1. PICK r \in Ids, p \in Passports, d \in Dids, f \in Counters :
          /\ DOMAIN world' = Keys
          /\ world'[r] = BmuRecord(p, d, f, "VALID")
          /\ world'[d] = Binding(p, f)
          /\ \A x \in Keys \ {r, d} : world'[x] = world[x]
          /\ since' = [since EXCEPT ![d] = @ \cup {r}]
    BY <1>2, RecordEffect
  <2>2. /\ RecordDoc(BmuRecord(p, d, f, "VALID"))
        /\ DidDoc(Binding(p, f))
    BY DEF RecordDoc, DidDoc
  <2>3. since' \in [Dids -> SUBSET Ids]
    BY <1>0, <2>1
  <2>4. QED
    BY <1>0, <2>1, <2>2, <2>3, PassportKey, DidKey, RecordKey
<1>3. CASE InvalidateBMURecord
  <2>1. PICK r \in Ids, d \in Dids, g \in Counters \cup {NoFc} :
          /\ CanInvalidate(r)
          /\ d = world[r].did
          /\ DOMAIN world' = Keys
          /\ world'[r] = Invalidated(r)
          /\ \A x \in Keys \ {r, d} : world'[x] = world[x]
          /\ world'[d] = Binding(world[d].passport, g)
          /\ since' = since
    BY <1>3, InvalidateEffect
  <2>2. Recorded(r) /\ Bound(d)
    BY <2>1 DEF CanInvalidate, Valid
  <2>3. Invalidated(r) = BmuRecord(world[r].passport, world[r].did,
                                   world[r].fc, "INVALIDATED")
    BY <2>1, <2>2, InvalidatedShape
  <2>4. RecordDoc(Invalidated(r))
    BY <2>2, <2>3, RecordShape DEF RecordDoc
  <2>5. DidDoc(Binding(world[d].passport, g))
    BY <2>2, BindingShape DEF DidDoc
  <2>6. QED
    BY <1>0, <2>1, <2>4, <2>5, PassportKey, DidKey, RecordKey
<1>4. CASE ResetFCForDID
  <2>1. PICK d \in Dids :
          /\ CanReset(d)
          /\ DOMAIN world' = Keys
          /\ world'[d] = Binding(world[d].passport, NoFc)
          /\ \A x \in Keys \ {d} : world'[x] = world[x]
          /\ since' = [since EXCEPT ![d] = {}]
    BY <1>4, ResetEffect
  <2>2. DidDoc(Binding(world[d].passport, NoFc))
    BY <2>1, BindingShape DEF CanReset, DidDoc
  <2>3. since' \in [Dids -> SUBSET Ids]
    BY <1>0, <2>1
  <2>4. QED
    BY <1>0, <2>1, <2>2, <2>3, PassportKey, DidKey, RecordKey
<1>5. CASE RepairFCBindingForDID
  <2>1. PICK p \in Passports, d \in Dids, g \in Counters \cup {NoFc} :
          /\ DOMAIN world' = Keys
          /\ \A x \in Keys \ {d} : world'[x] = world[x]
          /\ world'[d] = Binding(p, g)
          /\ since' = since
    BY <1>5, RepairEffect
  <2>2. DidDoc(Binding(p, g))
    BY DEF DidDoc
  <2>3. QED
    BY <1>0, <2>1, <2>2, PassportKey, DidKey, RecordKey
<1>6. CASE UNCHANGED ledger
  BY <1>0, <1>6 DEF ledger
<1>7. QED
  BY <1>1, <1>2, <1>3, <1>4, <1>5, <1>6 DEF Next

\* What earlier chaincode left, one kind of key at a time.
LEMMA InitWorld ==
  ASSUME Init
  PROVE  /\ DOMAIN world = Keys
         /\ \A p \in Passports :
              world[p] = IF p \in DOMAIN Enrolled THEN Passport(Enrolled[p]) ELSE Nil
         /\ \A r \in Ids :
              world[r] = IF r \in DOMAIN OldRecords
                         THEN BmuRecord(OldRecords[r].passport, OldDid(r),
                                        OldRecords[r].fc, "VALID")
                         ELSE Nil
         /\ \A d \in Dids :
              \/ world[d] = Nil
              \/ \E f \in Counters :
                   /\ world[d] = Legacy(f)
                   /\ \A r \in DOMAIN OldRecords :
                        OldDid(r) = d => OldRecords[r].fc <= f
         /\ since = [d \in Dids |-> {r \in DOMAIN OldRecords : OldDid(r) = d}]
<1>1. PICK legacy \in SUBSET Dids, top \in [Dids -> Counters] :
        /\ \A r \in DOMAIN OldRecords : OldRecords[r].fc <= top[OldDid(r)]
        /\ world = [k \in Keys |->
             IF k \in DOMAIN Enrolled THEN Passport(Enrolled[k])
             ELSE IF k \in DOMAIN OldRecords
               THEN BmuRecord(OldRecords[k].passport, OldDid(k),
                              OldRecords[k].fc, "VALID")
             ELSE IF k \in legacy THEN Legacy(top[k])
             ELSE Nil]
  BY DEF Init
<1>2. DOMAIN Enrolled \subseteq Passports /\ DOMAIN OldRecords \subseteq Ids
  BY LedgerAssumption DEF LedgerAssumption
<1>3. DOMAIN world = Keys
  BY <1>1
<1>4. ASSUME NEW p \in Passports
      PROVE  world[p] = IF p \in DOMAIN Enrolled THEN Passport(Enrolled[p]) ELSE Nil
  BY <1>1, <1>2, PassportKey
<1>5. ASSUME NEW r \in Ids
      PROVE  world[r] = IF r \in DOMAIN OldRecords
                        THEN BmuRecord(OldRecords[r].passport, OldDid(r),
                                       OldRecords[r].fc, "VALID")
                        ELSE Nil
  BY <1>1, <1>2, RecordKey
<1>6. ASSUME NEW d \in Dids, world[d] # Nil
      PROVE  \E f \in Counters :
               /\ world[d] = Legacy(f)
               /\ \A r \in DOMAIN OldRecords :
                    OldDid(r) = d => OldRecords[r].fc <= f
  <2>1. world[d] = Legacy(top[d])
    BY <1>1, <1>2, <1>6, DidKey
  <2>2. top[d] \in Counters
    OBVIOUS
  <2>3. QED
    BY <1>1, <2>1, <2>2
<1>7. QED
  BY <1>3, <1>4, <1>5, <1>6 DEF Init

LEMMA TypeInit == Init => TypeOK
<1> SUFFICES ASSUME Init
             PROVE  TypeOK
  OBVIOUS
<1>1. /\ DOMAIN OldRecords \subseteq Ids
      /\ \A p \in DOMAIN Enrolled : Enrolled[p] \in Dids
      /\ \A r \in DOMAIN OldRecords :
           /\ OldRecords[r].passport \in Passports
           /\ OldDid(r) \in Dids
           /\ OldRecords[r].fc \in Counters
  BY LedgerAssumption DEF LedgerAssumption, OldDid
<1>2. \A p \in Passports : PassportDoc(world[p])
  BY <1>1, InitWorld DEF PassportDoc
<1>3. \A d \in Dids : DidDoc(world[d])
  BY InitWorld DEF DidDoc
<1>4. \A r \in Ids : RecordDoc(world[r])
  BY <1>1, InitWorld DEF RecordDoc
<1>5. since \in [Dids -> SUBSET Ids]
  BY <1>1, InitWorld
<1>6. QED
  BY <1>2, <1>3, <1>4, <1>5, InitWorld DEF TypeOK

\* Passports, lastFc keys and records hold nothing but documents of their
\* own kind, whatever calls are made.
THEOREM TypeCorrect == Spec => []TypeOK
BY TypeInit, TypeStep, PTL DEF Spec

-----------------------------------------------------------------------------
(* What a step leaves alone.                                               *)

\* A passport, once created, stays what it is.
LEMMA PassportKept ==
  ASSUME TypeOK, [Next]_ledger, NEW p \in Passports, world[p] # Nil
  PROVE  world'[p] = world[p]
<1>1. CASE CreateBatteryPassport
  <2>1. PICK q \in Passports, d \in Dids :
          /\ CanCreate(q, d)
          /\ \A x \in Keys \ {q, d} : world'[x] = world[x]
    BY <1>1, CreateEffect
  <2>2. QED
    BY <2>1, PassportKey DEF CanCreate
<1>2. CASE RecordBMUData
  BY <1>2, RecordEffect, PassportKey
<1>3. CASE InvalidateBMURecord
  BY <1>3, InvalidateEffect, PassportKey
<1>4. CASE ResetFCForDID
  BY <1>4, ResetEffect, PassportKey
<1>5. CASE RepairFCBindingForDID
  BY <1>5, RepairEffect, PassportKey
<1>6. CASE UNCHANGED ledger
  BY <1>6 DEF ledger
<1>7. QED
  BY <1>1, <1>2, <1>3, <1>4, <1>5, <1>6 DEF Next

\* Only InvalidateBMURecord touches a record that exists.
LEMMA RecordKept ==
  ASSUME TypeOK, [Next]_ledger, NEW r \in Ids, Recorded(r)
  PROVE  world'[r] \in {world[r], Invalidated(r)}
<1>1. CASE CreateBatteryPassport
  BY <1>1, CreateEffect, RecordKey
<1>2. CASE RecordBMUData
  <2>1. PICK q \in Ids, p \in Passports, d \in Dids, f \in Counters :
          /\ CanRecord(q, p, d, f)
          /\ \A x \in Keys \ {q, d} : world'[x] = world[x]
    BY <1>2, RecordEffect
  <2>2. world[r] # Nil
    BY DEF Recorded, Nil
  <2>3. QED
    BY <2>1, <2>2, RecordKey DEF CanRecord
<1>3. CASE InvalidateBMURecord
  <2>1. PICK q \in Ids, d \in Dids :
          /\ CanInvalidate(q)
          /\ d = world[q].did
          /\ world'[q] = Invalidated(q)
          /\ \A x \in Keys \ {q, d} : world'[x] = world[x]
    BY <1>3, InvalidateEffect
  <2>2. QED
    BY <2>1, RecordKey
<1>4. CASE ResetFCForDID
  BY <1>4, ResetEffect, RecordKey
<1>5. CASE RepairFCBindingForDID
  BY <1>5, RepairEffect, RecordKey
<1>6. CASE UNCHANGED ledger
  BY <1>6 DEF ledger
<1>7. QED
  BY <1>1, <1>2, <1>3, <1>4, <1>5, <1>6 DEF Next

\* A record keeps its passport, its DID and its counter; if it is valid after
\* the step it was before.
LEMMA RecordKeepsFields ==
  ASSUME TypeOK, [Next]_ledger, NEW r \in Ids, Recorded(r)
  PROVE  /\ Recorded(r)'
         /\ world'[r].passport = world[r].passport
         /\ world'[r].did = world[r].did
         /\ world'[r].fc = world[r].fc
         /\ Valid(r)' => Valid(r)
<1>1. PICK p, d, f, s : world[r] = BmuRecord(p, d, f, s)
  BY RecordShape
<1>2. Invalidated(r) = BmuRecord(world[r].passport, world[r].did,
                                 world[r].fc, "INVALIDATED")
  BY InvalidatedShape
<1>3. CASE world'[r] = world[r]
  BY <1>3 DEF Recorded, Valid
<1>4. CASE world'[r] = Invalidated(r)
  BY <1>2, <1>4 DEF Recorded, Valid, BmuRecord
<1>5. QED
  BY <1>3, <1>4, RecordKept

\* No step moves the binding of a DID to another passport.
LEMMA BindingKept ==
  ASSUME TypeOK, [Next]_ledger, NEW d \in Dids, Bound(d)
  PROVE  Bound(d)' /\ world'[d].passport = world[d].passport
<1>1. CASE CreateBatteryPassport
  <2>1. PICK p \in Passports, c \in Dids :
          /\ world'[c] = IF world[c] = Nil THEN Binding(p, NoFc) ELSE world[c]
          /\ \A x \in Keys \ {p, c} : world'[x] = world[x]
    BY <1>1, CreateEffect
  <2>2. world'[d] = world[d]
    BY <2>1, DidKey, BindingShape
  <2>3. QED
    BY <2>2 DEF Bound
<1>2. CASE RecordBMUData
  <2>1. PICK r \in Ids, p \in Passports, c \in Dids, f \in Counters :
          /\ CanRecord(r, p, c, f)
          /\ world'[c] = Binding(p, f)
          /\ \A x \in Keys \ {r, c} : world'[x] = world[x]
    BY <1>2, RecordEffect
  <2>2. CASE c = d
    BY <2>1, <2>2 DEF CanRecord, NextFc, Bound, Binding
  <2>3. CASE c # d
    BY <2>1, <2>3, DidKey DEF Bound
  <2>4. QED
    BY <2>2, <2>3
<1>3. CASE InvalidateBMURecord
  <2>1. PICK r \in Ids, c \in Dids, g \in Counters \cup {NoFc} :
          /\ world'[c] = Binding(world[c].passport, g)
          /\ \A x \in Keys \ {r, c} : world'[x] = world[x]
    BY <1>3, InvalidateEffect
  <2>2. CASE c = d
    BY <2>1, <2>2 DEF Bound, Binding
  <2>3. CASE c # d
    BY <2>1, <2>3, DidKey DEF Bound
  <2>4. QED
    BY <2>2, <2>3
<1>4. CASE ResetFCForDID
  <2>1. PICK c \in Dids :
          /\ world'[c] = Binding(world[c].passport, NoFc)
          /\ \A x \in Keys \ {c} : world'[x] = world[x]
    BY <1>4, ResetEffect
  <2>2. CASE c = d
    BY <2>1, <2>2 DEF Bound, Binding
  <2>3. CASE c # d
    BY <2>1, <2>3, DidKey DEF Bound
  <2>4. QED
    BY <2>2, <2>3
<1>5. CASE RepairFCBindingForDID
  <2>1. PICK p \in Passports, c \in Dids, g \in Counters \cup {NoFc} :
          /\ CanRepair(p, c)
          /\ \A x \in Keys \ {c} : world'[x] = world[x]
          /\ world'[c] = Binding(p, g)
    BY <1>5, RepairEffect
  <2>2. CASE c = d
    <3>1. world[d].passport = p
      BY <2>1, <2>2, BindingShape DEF CanRepair, Bound
    <3>2. QED
      BY <2>1, <2>2, <3>1 DEF Bound, Binding
  <2>3. CASE c # d
    BY <2>1, <2>3, DidKey DEF Bound
  <2>4. QED
    BY <2>2, <2>3
<1>6. CASE UNCHANGED ledger
  BY <1>6 DEF ledger, Bound
<1>7. QED
  BY <1>1, <1>2, <1>3, <1>4, <1>5, <1>6 DEF Next

\* A record is never replaced, and never valid again once invalidated.
THEOREM RecordsAreKept == Spec => RecordsStay
<1>1. TypeOK /\ [Next]_ledger =>
        [\A r \in Ids : Recorded(r) => world'[r] \in {world[r], Invalidated(r)}]_ledger
  BY RecordKept
<1>2. QED
  BY <1>1, TypeCorrect, PTL DEF Spec, RecordsStay

\* No sequence of calls moves a bound DID to another passport.
THEOREM BindingsAreKept == Spec => BindingStays
<1>1. TypeOK /\ [Next]_ledger =>
        [\A d \in Dids : Bound(d) =>
           Bound(d)' /\ world'[d].passport = world[d].passport]_ledger
  BY BindingKept
<1>2. QED
  BY <1>1, TypeCorrect, PTL DEF Spec, BindingStays

-----------------------------------------------------------------------------
(* Every record and every binding belongs to a passport with its DID.      *)

BindingsOwned ==
  \A d \in Dids : Bound(d) => world[world[d].passport] = Passport(d)

Owned == RecordsOwned /\ BindingsOwned

LEMMA OwnedInit == Init => Owned
<1> SUFFICES ASSUME Init
             PROVE  Owned
  OBVIOUS
<1>1. ASSUME NEW r \in Ids, Recorded(r)
      PROVE  world[world[r].passport] = Passport(world[r].did)
  <2>1. r \in DOMAIN OldRecords
    BY <1>1, InitWorld DEF Recorded, Nil
  <2>2. world[r] = BmuRecord(OldRecords[r].passport, OldDid(r),
                             OldRecords[r].fc, "VALID")
    BY <2>1, InitWorld
  <2>3. world[r].passport = OldRecords[r].passport /\ world[r].did = OldDid(r)
    BY <2>2 DEF BmuRecord
  <2>4. OldRecords[r].passport \in DOMAIN Enrolled
        /\ DOMAIN Enrolled \subseteq Passports
    BY <2>1, LedgerAssumption DEF LedgerAssumption
  <2>5. QED
    BY <2>3, <2>4, InitWorld DEF OldDid
<1>2. ASSUME NEW d \in Dids
      PROVE  ~ Bound(d)
  <2>1. CASE world[d] = Nil
    BY <2>1 DEF Bound, Nil
  <2>2. CASE \E f \in Counters : world[d] = Legacy(f)
    BY <2>2 DEF Bound, Legacy
  <2>3. QED
    BY <2>1, <2>2, InitWorld
<1>3. QED
  BY <1>1, <1>2 DEF Owned, RecordsOwned, BindingsOwned

\* A record that appears is one RecordBMUData accepted.
LEMMA NewRecord ==
  ASSUME TypeOK, [Next]_ledger, NEW r \in Ids, ~ Recorded(r), Recorded(r)'
  PROVE  \E p \in Passports, d \in Dids, f \in Counters :
           /\ CanRecord(r, p, d, f)
           /\ world'[r] = BmuRecord(p, d, f, "VALID")
           /\ world'[d] = Binding(p, f)
           /\ \A x \in Keys \ {r, d} : world'[x] = world[x]
           /\ since' = [since EXCEPT ![d] = @ \cup {r}]
<1>0. world'[r] # world[r]
  BY DEF Recorded
<1>1. CASE CreateBatteryPassport
  BY <1>0, <1>1, CreateEffect, RecordKey
<1>2. CASE RecordBMUData
  <2>1. PICK q \in Ids, p \in Passports, d \in Dids, f \in Counters :
          /\ CanRecord(q, p, d, f)
          /\ world'[q] = BmuRecord(p, d, f, "VALID")
          /\ world'[d] = Binding(p, f)
          /\ \A x \in Keys \ {q, d} : world'[x] = world[x]
          /\ since' = [since EXCEPT ![d] = @ \cup {q}]
    BY <1>2, RecordEffect
  <2>2. q = r
    BY <1>0, <2>1, RecordKey
  <2>3. QED
    BY <2>1, <2>2
<1>3. CASE InvalidateBMURecord
  <2>1. PICK q \in Ids, d \in Dids :
          /\ CanInvalidate(q)
          /\ d = world[q].did
          /\ \A x \in Keys \ {q, d} : world'[x] = world[x]
    BY <1>3, InvalidateEffect
  <2>2. Recorded(q) /\ Bound(d)
    BY <2>1 DEF CanInvalidate, Valid
  <2>3. d \in Dids /\ q # r
    BY <2>1, <2>2, RecordShape
  <2>4. QED
    BY <1>0, <2>1, <2>3, RecordKey
<1>4. CASE ResetFCForDID
  BY <1>0, <1>4, ResetEffect, RecordKey
<1>5. CASE RepairFCBindingForDID
  BY <1>0, <1>5, RepairEffect, RecordKey
<1>6. CASE UNCHANGED ledger
  BY <1>0, <1>6 DEF ledger
<1>7. QED
  BY <1>1, <1>2, <1>3, <1>4, <1>5, <1>6 DEF Next

\* A binding that appears is to a passport that has the DID.
LEMMA NewBinding ==
  ASSUME TypeOK, [Next]_ledger, NEW d \in Dids, ~ Bound(d), Bound(d)'
  PROVE  world'[world'[d].passport] = Passport(d)
<1>0. world'[d] # world[d]
  BY DEF Bound
<1>1. CASE CreateBatteryPassport
  <2>1. PICK p \in Passports, c \in Dids :
          /\ world'[p] = Passport(c)
          /\ world'[c] = IF world[c] = Nil THEN Binding(p, NoFc) ELSE world[c]
          /\ \A x \in Keys \ {p, c} : world'[x] = world[x]
    BY <1>1, CreateEffect
  <2>2. c = d /\ world[d] = Nil
    BY <1>0, <2>1, DidKey
  <2>3. world'[d].passport = p
    BY <2>1, <2>2 DEF Binding
  <2>4. QED
    BY <2>1, <2>2, <2>3
<1>2. CASE RecordBMUData
  <2>1. PICK r \in Ids, p \in Passports, c \in Dids, f \in Counters :
          /\ CanRecord(r, p, c, f)
          /\ \A x \in Keys \ {r, c} : world'[x] = world[x]
    BY <1>2, RecordEffect
  <2>2. c # d
    BY <2>1 DEF CanRecord, NextFc
  <2>3. QED
    BY <1>0, <2>1, <2>2, DidKey
<1>3. CASE InvalidateBMURecord
  <2>1. PICK r \in Ids, c \in Dids :
          /\ CanInvalidate(r)
          /\ c = world[r].did
          /\ \A x \in Keys \ {r, c} : world'[x] = world[x]
    BY <1>3, InvalidateEffect
  <2>2. c # d
    BY <2>1 DEF CanInvalidate
  <2>3. QED
    BY <1>0, <2>1, <2>2, DidKey
<1>4. CASE ResetFCForDID
  <2>1. PICK c \in Dids :
          /\ CanReset(c)
          /\ \A x \in Keys \ {c} : world'[x] = world[x]
    BY <1>4, ResetEffect
  <2>2. c # d
    BY <2>1 DEF CanReset
  <2>3. QED
    BY <1>0, <2>1, <2>2, DidKey
<1>5. CASE RepairFCBindingForDID
  <2>1. PICK p \in Passports, c \in Dids, g \in Counters \cup {NoFc} :
          /\ CanRepair(p, c)
          /\ \A x \in Keys \ {c} : world'[x] = world[x]
          /\ world'[c] = Binding(p, g)
    BY <1>5, RepairEffect
  <2>2. c = d
    BY <1>0, <2>1, DidKey
  <2>3. world'[d].passport = p
    BY <2>1, <2>2 DEF Binding
  <2>4. world[p] = Passport(d) /\ p # d
    BY <2>1, <2>2, PassportKey DEF CanRepair
  <2>5. QED
    BY <2>1, <2>2, <2>3, <2>4, PassportKey
<1>6. CASE UNCHANGED ledger
  BY <1>0, <1>6 DEF ledger
<1>7. QED
  BY <1>1, <1>2, <1>3, <1>4, <1>5, <1>6 DEF Next

LEMMA OwnedStep == TypeOK /\ Owned /\ [Next]_ledger => Owned'
<1> SUFFICES ASSUME TypeOK, Owned, [Next]_ledger
             PROVE  Owned'
  OBVIOUS
<1>0. \A d : Passport(d) # Nil
  BY DEF Passport, Nil
<1>1. ASSUME NEW r \in Ids, Recorded(r)'
      PROVE  world'[world'[r].passport] = Passport(world'[r].did)
  <2>1. CASE Recorded(r)
    <3>1. /\ world'[r].passport = world[r].passport
          /\ world'[r].did = world[r].did
      BY <2>1, RecordKeepsFields
    <3>2. world[r].passport \in Passports
      BY <2>1, RecordShape
    <3>3. world[world[r].passport] = Passport(world[r].did)
      BY <2>1 DEF Owned, RecordsOwned
    <3>4. QED
      BY <1>0, <3>1, <3>2, <3>3, PassportKept
  <2>2. CASE ~ Recorded(r)
    <3>1. PICK p \in Passports, d \in Dids, f \in Counters :
            /\ CanRecord(r, p, d, f)
            /\ world'[r] = BmuRecord(p, d, f, "VALID")
      BY <1>1, <2>2, NewRecord
    <3>2. world'[r].passport = p /\ world'[r].did = d
      BY <3>1 DEF BmuRecord
    <3>3. Bound(d) /\ world[d].passport = p
      BY <3>1 DEF CanRecord, NextFc
    <3>4. world[p] = Passport(d)
      BY <3>3 DEF Owned, BindingsOwned
    <3>5. QED
      BY <1>0, <3>2, <3>4, PassportKept
  <2>3. QED
    BY <2>1, <2>2
<1>2. ASSUME NEW d \in Dids, Bound(d)'
      PROVE  world'[world'[d].passport] = Passport(d)
  <2>1. CASE Bound(d)
    <3>1. world'[d].passport = world[d].passport
      BY <2>1, BindingKept
    <3>2. world[d].passport \in Passports
      BY <2>1, BindingShape
    <3>3. world[world[d].passport] = Passport(d)
      BY <2>1 DEF Owned, BindingsOwned
    <3>4. QED
      BY <1>0, <3>1, <3>2, <3>3, PassportKept
  <2>2. CASE ~ Bound(d)
    BY <1>2, <2>2, NewBinding
  <2>3. QED
    BY <2>1, <2>2
<1>3. QED
  BY <1>1, <1>2 DEF Owned, RecordsOwned, BindingsOwned

LEMMA OwnedCorrect == Spec => []Owned
BY OwnedInit, OwnedStep, TypeCorrect, PTL DEF Spec

\* Every record is of a passport that exists and has the record's DID, though
\* recording under a transaction id never looks at the passport.
THEOREM RecordsAreOwned == Spec => []RecordsOwned
<1>1. Owned => RecordsOwned
  BY DEF Owned
<1>2. QED
  BY <1>1, OwnedCorrect, PTL

-----------------------------------------------------------------------------
(* Records and bindings of the same passport.                              *)

\* A record whose DID is not bound is as old as that.
Unkeyed ==
  \A r \in Ids : Recorded(r) /\ ~ Bound(world[r].did) => r \in DOMAIN OldRecords

OneHolder == Unkeyed /\ OnePassportPerDid

LEMMA OneHolderInit == Init => OneHolder
BY InitWorld DEF OneHolder, Unkeyed, OnePassportPerDid, Recorded, Nil

LEMMA OneHolderStep == TypeOK /\ OneHolder /\ [Next]_ledger => OneHolder'
<1> SUFFICES ASSUME TypeOK, OneHolder, [Next]_ledger
             PROVE  OneHolder'
  OBVIOUS
<1>1. ASSUME NEW r \in Ids, Recorded(r)', r \notin DOMAIN OldRecords
      PROVE  /\ Bound(world[r].did)'
             /\ world'[r].passport = world'[world'[r].did].passport
  <2>1. CASE Recorded(r)
    <3>1. /\ Bound(world[r].did)
          /\ world[r].passport = world[world[r].did].passport
      BY <1>1, <2>1 DEF OneHolder, Unkeyed, OnePassportPerDid
    <3>2. world[r].did \in Dids
      BY <2>1, RecordShape
    <3>3. /\ world'[r].passport = world[r].passport
          /\ world'[r].did = world[r].did
      BY <2>1, RecordKeepsFields
    <3>4. PICK d \in Dids : d = world[r].did
      BY <3>2
    <3>5. Bound(d)' /\ world'[d].passport = world[d].passport
      BY <3>1, <3>4, BindingKept
    <3>6. QED
      BY <3>1, <3>3, <3>4, <3>5 DEF Bound
  <2>2. CASE ~ Recorded(r)
    <3>1. PICK p \in Passports, d \in Dids, f \in Counters :
            /\ world'[r] = BmuRecord(p, d, f, "VALID")
            /\ world'[d] = Binding(p, f)
      BY <1>1, <2>2, NewRecord
    <3>2. world'[r].passport = p /\ world'[r].did = d
      BY <3>1 DEF BmuRecord
    <3>3. QED
      BY <3>1, <3>2 DEF Bound, Binding
  <2>3. QED
    BY <2>1, <2>2
<1>2. QED
  BY <1>1 DEF OneHolder, Unkeyed, OnePassportPerDid

\* Though passports may share a DID, every record made since lastFc keys were
\* bound is of the passport its DID is bound to: whoever creates or repairs,
\* no such record becomes one an invalidation must refuse.
THEOREM OnePassport == Spec => []OnePassportPerDid
<1>1. OneHolder => OnePassportPerDid
  BY DEF OneHolder
<1>2. QED
  BY <1>1, OneHolderInit, OneHolderStep, TypeCorrect, PTL DEF Spec

-----------------------------------------------------------------------------
(* Counters.                                                               *)

\* The history names records that exist, under their own DID.
History == \A d \in Dids : \A r \in since[d] : Recorded(r) /\ world[r].did = d

\* HighWaterCovers, also for a lastFc key that is not bound yet.
Covers ==
  \A d \in Dids : world[d] # Nil =>
    \A r \in Protected(d) : world[r].fc <= world[d].fc

\* Passports are not deleted.
Founded == \A p \in DOMAIN Enrolled : world[p] # Nil

InOrder == History /\ Founded /\ Covers /\ ValidCountersDistinct

LEMMA InOrderInit == Init => InOrder
<1> SUFFICES ASSUME Init
             PROVE  InOrder
  OBVIOUS
<1>1. ASSUME NEW d \in Dids, NEW r \in since[d]
      PROVE  /\ r \in DOMAIN OldRecords
             /\ OldDid(r) = d
             /\ Recorded(r)
             /\ world[r].did = d
             /\ world[r].fc = OldRecords[r].fc
  <2>1. r \in DOMAIN OldRecords /\ OldDid(r) = d
    BY InitWorld
  <2>2. r \in Ids
    BY <2>1, LedgerAssumption DEF LedgerAssumption
  <2>3. world[r] = BmuRecord(OldRecords[r].passport, OldDid(r),
                             OldRecords[r].fc, "VALID")
    BY <2>1, <2>2, InitWorld
  <2>4. QED
    BY <2>1, <2>3 DEF BmuRecord, Recorded
<1>2. History
  BY <1>1 DEF History
<1>3. ASSUME NEW d \in Dids, world[d] # Nil, NEW r \in since[d]
      PROVE  world[r].fc <= world[d].fc
  <2>1. PICK f \in Counters :
          /\ world[d] = Legacy(f)
          /\ \A s \in DOMAIN OldRecords : OldDid(s) = d => OldRecords[s].fc <= f
    BY <1>3, InitWorld
  <2>2. world[d].fc = f
    BY <2>1 DEF Legacy
  <2>3. QED
    BY <1>1, <2>1, <2>2
<1>4. ASSUME NEW d \in Dids, NEW r \in since[d], NEW s \in since[d],
             world[r].fc = world[s].fc
      PROVE  r = s
  <2>1. /\ OldRecords[r].fc = OldRecords[s].fc
        /\ OldDid(r) = OldDid(s)
    BY <1>1, <1>4
  <2>2. QED
    BY <1>1, <2>1, LedgerAssumption DEF LedgerAssumption, OldDid
<1>5. Founded
  <2>1. \A d : Passport(d) # Nil
    BY DEF Passport, Nil
  <2>2. DOMAIN Enrolled \subseteq Passports
    BY LedgerAssumption DEF LedgerAssumption
  <2>3. QED
    BY <2>1, <2>2, InitWorld DEF Founded
<1>6. QED
  BY <1>2, <1>3, <1>4, <1>5 DEF InOrder, Covers, ValidCountersDistinct, Protected

\* The history of a DID gains the record a step stores, and nothing else.
LEMMA SinceStep ==
  ASSUME TypeOK, [Next]_ledger, NEW d \in Dids, NEW r \in since'[d]
  PROVE  \/ r \in since[d]
         \/ r \in Ids /\ ~ Recorded(r) /\ Recorded(r)' /\ world'[r].did = d
<1>1. CASE CreateBatteryPassport
  BY <1>1, CreateEffect
<1>2. CASE RecordBMUData
  <2>1. PICK q \in Ids, p \in Passports, c \in Dids, f \in Counters :
          /\ CanRecord(q, p, c, f)
          /\ world'[q] = BmuRecord(p, c, f, "VALID")
          /\ since' = [since EXCEPT ![c] = @ \cup {q}]
    BY <1>2, RecordEffect
  <2>2. since \in [Dids -> SUBSET Ids]
    BY DEF TypeOK
  <2>3. r \in since[d] \/ (r = q /\ d = c)
    BY <2>1, <2>2
  <2>4. world[q] = Nil
    BY <2>1 DEF CanRecord
  <2>5. ~ Recorded(q)
    BY <2>4 DEF Recorded, Nil
  <2>6. Recorded(q)' /\ world'[q].did = c
    BY <2>1 DEF Recorded, BmuRecord
  <2>7. QED
    BY <2>3, <2>5, <2>6
<1>3. CASE InvalidateBMURecord
  BY <1>3, InvalidateEffect
<1>4. CASE ResetFCForDID
  <2>1. PICK c \in Dids : since' = [since EXCEPT ![c] = {}]
    BY <1>4, ResetEffect
  <2>2. since \in [Dids -> SUBSET Ids]
    BY DEF TypeOK
  <2>3. QED
    BY <2>1, <2>2
<1>5. CASE RepairFCBindingForDID
  BY <1>5, RepairEffect
<1>6. CASE UNCHANGED ledger
  BY <1>6 DEF ledger
<1>7. QED
  BY <1>1, <1>2, <1>3, <1>4, <1>5, <1>6 DEF Next

LEMMA HistoryStep ==
  ASSUME TypeOK, History, [Next]_ledger
  PROVE  History'
<1>1. ASSUME NEW d \in Dids, NEW r \in since'[d]
      PROVE  Recorded(r)' /\ world'[r].did = d
  <2>1. CASE r \in since[d]
    <3>1. Recorded(r) /\ world[r].did = d /\ r \in Ids
      BY <2>1 DEF History, TypeOK
    <3>2. QED
      BY <3>1, RecordKeepsFields
  <2>2. CASE ~ (r \in since[d])
    BY <2>2, SinceStep
  <2>3. QED
    BY <2>1, <2>2
<1>2. QED
  BY <1>1 DEF History

\* A lastFc key is never deleted.
LEMMA DidStays ==
  ASSUME TypeOK, [Next]_ledger, NEW d \in Dids, world[d] # Nil
  PROVE  world'[d] # Nil
<1>0. \A p, f : Binding(p, f) # Nil
  BY DEF Binding, Nil
<1>1. CASE CreateBatteryPassport
  BY <1>1, CreateEffect, DidKey
<1>2. CASE RecordBMUData
  BY <1>0, <1>2, RecordEffect, DidKey
<1>3. CASE InvalidateBMURecord
  BY <1>0, <1>3, InvalidateEffect, DidKey
<1>4. CASE ResetFCForDID
  BY <1>0, <1>4, ResetEffect, DidKey
<1>5. CASE RepairFCBindingForDID
  BY <1>0, <1>5, RepairEffect, DidKey
<1>6. CASE UNCHANGED ledger
  BY <1>6 DEF ledger
<1>7. QED
  BY <1>1, <1>2, <1>3, <1>4, <1>5, <1>6 DEF Next

\* Nor is a passport.
LEMMA FoundedStep ==
  ASSUME TypeOK, Founded, [Next]_ledger
  PROVE  Founded'
BY PassportKept, LedgerAssumption DEF LedgerAssumption, Founded

\* What is forgotten stays so: a record protected after a step, if it was there
\* before, was protected before.
LEMMA ProtectedBefore ==
  ASSUME TypeOK, History, [Next]_ledger, NEW d \in Dids, NEW r \in Protected(d)',
         r \in since[d]
  PROVE  /\ r \in Protected(d) /\ r \in Ids /\ Recorded(r) /\ Valid(r)
         /\ world'[r].fc = world[r].fc
<1>1. Recorded(r) /\ r \in Ids
  BY DEF History, TypeOK
<1>2. Valid(r)' /\ ~ Forgotten(d, r)'
  BY DEF Protected
<1>3. Valid(r) /\ world'[r].fc = world[r].fc
  BY <1>1, <1>2, RecordKeepsFields
<1>4. Forgotten(d, r) => Forgotten(d, r)'
  BY BindingKept DEF Forgotten
<1>5. QED
  BY <1>1, <1>2, <1>3, <1>4 DEF Protected

\* A new record's counter is above every protected one of its DID.
LEMMA NewAbove ==
  ASSUME TypeOK, Covers, [Next]_ledger,
         NEW d \in Dids, NEW r \in Protected(d), r \in Ids, Recorded(r),
         NEW s \in Ids, ~ Recorded(s), Recorded(s)', world'[s].did = d
  PROVE  world[r].fc < world'[s].fc
<1>1. PICK p \in Passports, c \in Dids, f \in Counters :
        /\ CanRecord(s, p, c, f)
        /\ world'[s] = BmuRecord(p, c, f, "VALID")
  BY NewRecord
<1>2. c = d /\ world'[s].fc = f
  BY <1>1 DEF BmuRecord
<1>3. Bound(d) /\ f > world[d].fc
  BY <1>1, <1>2 DEF CanRecord, NextFc
<1>4. world[d] # Nil /\ world[d].fc \in Counters \cup {NoFc}
  BY <1>3, BindingShape
<1>5. world[r].fc <= world[d].fc
  BY <1>4 DEF Covers
<1>6. world[r].fc \in Int /\ world[d].fc \in Int /\ f \in Int
  BY <1>4, RecordShape, FcInt
<1>7. QED
  BY <1>2, <1>3, <1>5, <1>6, SMT

LEMMA DistinctStep ==
  ASSUME TypeOK, History, Covers, ValidCountersDistinct, [Next]_ledger
  PROVE  ValidCountersDistinct'
<1>0. \A d : Protected(d)' \subseteq since'[d]
  BY DEF Protected
<1>1. ASSUME NEW d \in Dids, NEW r \in Protected(d)', NEW s \in Protected(d)',
             world'[r].fc = world'[s].fc,
             r \in since[d], ~ (s \in since[d])
      PROVE  FALSE
  <2>1. /\ r \in Protected(d) /\ r \in Ids /\ Recorded(r)
        /\ world'[r].fc = world[r].fc
    BY <1>1, ProtectedBefore
  <2>2. s \in Ids /\ ~ Recorded(s) /\ Recorded(s)' /\ world'[s].did = d
    BY <1>0, <1>1, SinceStep
  <2>3. world[r].fc < world'[s].fc
    BY <1>1, <2>1, <2>2, NewAbove
  <2>4. world[r].fc \in Int
    BY <2>1, RecordShape, FcInt
  <2>5. QED
    BY <1>1, <2>1, <2>3, <2>4, SMT
<1>2. ASSUME NEW d \in Dids, NEW r \in Protected(d)', NEW s \in Protected(d)',
             world'[r].fc = world'[s].fc
      PROVE  r = s
  <2>1. CASE r \in since[d] /\ s \in since[d]
    <3>1. /\ r \in Protected(d) /\ world'[r].fc = world[r].fc
          /\ s \in Protected(d) /\ world'[s].fc = world[s].fc
      BY <2>1, ProtectedBefore
    <3>2. QED
      BY <1>2, <3>1 DEF ValidCountersDistinct
  <2>2. CASE r \in since[d] /\ ~ (s \in since[d])
    BY <1>1, <1>2, <2>2
  <2>3. CASE ~ (r \in since[d]) /\ s \in since[d]
    BY <1>1, <1>2, <2>3
  <2>4. CASE ~ (r \in since[d]) /\ ~ (s \in since[d])
    <3>1. /\ r \in Ids /\ ~ Recorded(r) /\ Recorded(r)'
          /\ s \in Ids /\ ~ Recorded(s) /\ Recorded(s)'
      BY <1>0, <2>4, SinceStep
    <3>2. PICK c \in Dids : \A x \in Keys \ {r, c} : world'[x] = world[x]
      BY <3>1, NewRecord
    <3>3. s \in Keys \ {c}
      BY <3>1, RecordKey
    <3>4. QED
      BY <3>1, <3>2, <3>3 DEF Recorded
  <2>5. QED
    BY <2>1, <2>2, <2>3, <2>4
<1>3. QED
  BY <1>2 DEF ValidCountersDistinct

\* Whatever a step leaves of a DID's key and history keeps it covered.
LEMMA StillCovered ==
  ASSUME TypeOK, History, Covers, [Next]_ledger, NEW d \in Dids,
         world[d] # Nil, world'[d].fc = world[d].fc, since'[d] \subseteq since[d]
  PROVE  \A r \in Protected(d)' : world'[r].fc <= world'[d].fc
<1>1. ASSUME NEW r \in Protected(d)'
      PROVE  world'[r].fc <= world'[d].fc
  <2>1. r \in since[d]
    BY <1>1 DEF Protected
  <2>2. r \in Protected(d) /\ world'[r].fc = world[r].fc
    BY <1>1, <2>1, ProtectedBefore
  <2>3. QED
    BY <2>2 DEF Covers
<1>2. QED
  BY <1>1

LEMMA CoversStep ==
  ASSUME TypeOK, Unkeyed, Founded, History, Covers, [Next]_ledger
  PROVE  Covers'
<1> SUFFICES ASSUME NEW d \in Dids, world'[d] # Nil
             PROVE  \A r \in Protected(d)' : world'[r].fc <= world'[d].fc
  BY DEF Covers
<1>0. since \in [Dids -> SUBSET Ids]
  BY DEF TypeOK
<1>1. CASE CreateBatteryPassport
  <2>1. PICK p \in Passports, c \in Dids :
          /\ world[p] = Nil
          /\ world'[c] = IF world[c] = Nil THEN Binding(p, NoFc) ELSE world[c]
          /\ \A x \in Keys \ {p, c} : world'[x] = world[x]
          /\ since' = since
    BY <1>1, CreateEffect DEF CanCreate
  <2>2. CASE world[d] = Nil
    <3>1. c = d
      BY <2>1, <2>2, DidKey
    <3>2. Bound(d)' /\ world'[d].passport \notin DOMAIN Enrolled
      BY <2>1, <2>2, <3>1 DEF Bound, Binding, Founded
    <3>3. ASSUME NEW r \in since[d]
          PROVE  r \in DOMAIN OldRecords
      <4>1. r \in Ids /\ Recorded(r) /\ world[r].did = d
        BY DEF History, TypeOK
      <4>2. ~ Bound(d)
        BY <2>2 DEF Bound, Nil
      <4>3. QED
        BY <4>1, <4>2 DEF Unkeyed
    <3>4. QED
      BY <2>1, <3>2, <3>3 DEF Protected, Forgotten
  <2>3. CASE world[d] # Nil
    <3>1. world'[d] = world[d]
      BY <2>1, <2>3, DidKey
    <3>2. QED
      BY <2>1, <2>3, <3>1, StillCovered
  <2>4. QED
    BY <2>2, <2>3
<1>2. CASE RecordBMUData
  <2>1. PICK q \in Ids, p \in Passports, c \in Dids, f \in Counters :
          /\ CanRecord(q, p, c, f)
          /\ world'[q] = BmuRecord(p, c, f, "VALID")
          /\ world'[c] = Binding(p, f)
          /\ \A x \in Keys \ {q, c} : world'[x] = world[x]
          /\ since' = [since EXCEPT ![c] = @ \cup {q}]
    BY <1>2, RecordEffect
  <2>2. CASE c # d
    <3>1. world'[d] = world[d] /\ since'[d] = since[d]
      BY <1>0, <2>1, <2>2, DidKey
    <3>2. QED
      BY <3>1, StillCovered
  <2>3. CASE c = d
    <3>1. world'[d].fc = f /\ world'[q].fc = f /\ world'[q].did = d
      BY <2>1, <2>3 DEF Binding, BmuRecord
    <3>2. ~ Recorded(q) /\ Recorded(q)'
      BY <2>1 DEF CanRecord, Recorded, Nil, BmuRecord
    <3>3. ASSUME NEW r \in Protected(d)', r \in since[d]
          PROVE  world'[r].fc <= f
      <4>1. /\ r \in Protected(d) /\ r \in Ids /\ Recorded(r)
            /\ world'[r].fc = world[r].fc
        BY <3>3, ProtectedBefore
      <4>2. world[r].fc < f
        BY <3>1, <3>2, <4>1, NewAbove
      <4>3. world[r].fc \in Int /\ f \in Int
        BY <4>1, RecordShape, FcInt
      <4>4. QED
        BY <4>1, <4>2, <4>3, SMT
    <3>4. f <= f
      BY FcInt, SMT
    <3>5. Protected(d)' \subseteq since[d] \cup {q}
      BY <1>0, <2>1, <2>3 DEF Protected
    <3>6. QED
      BY <3>1, <3>3, <3>4, <3>5
  <2>4. QED
    BY <2>2, <2>3
<1>3. CASE InvalidateBMURecord
  <2>1. PICK q \in Ids, c \in Dids, g \in Counters \cup {NoFc} :
          /\ CanInvalidate(q)
          /\ c = world[q].did
          /\ world'[q] = Invalidated(q)
          /\ \A x \in Keys \ {q, c} : world'[x] = world[x]
          /\ world'[c] = Binding(world[c].passport, g)
          /\ \/ g = world[c].fc
             \/ \A s \in ValidOf(c) \ {q} : world[s].fc <= g
          /\ since' = since
    BY <1>3, InvalidateEffect
  <2>2. Recorded(q) /\ Bound(c)
    BY <2>1 DEF CanInvalidate, Valid
  <2>3. world'[c].fc = g
    BY <2>1 DEF Binding
  <2>4. CASE c # d
    <3>1. world'[d] = world[d]
      BY <2>1, <2>4, DidKey
    <3>2. QED
      BY <2>1, <3>1, StillCovered
  <2>5. CASE c = d /\ g = world[c].fc
    <3>1. world[d] # Nil
      BY <2>2, <2>5, BindingShape
    <3>2. QED
      BY <2>1, <2>3, <2>5, <3>1, StillCovered
  <2>6. CASE c = d /\ \A s \in ValidOf(c) \ {q} : world[s].fc <= g
    <3>1. world'[q].status = "INVALIDATED"
      BY <2>1, <2>2, InvalidatedShape DEF BmuRecord
    <3>2. ~ Valid(q)'
      BY <3>1 DEF Valid
    <3>3. ASSUME NEW r \in Protected(d)'
          PROVE  world'[r].fc <= g
      <4>1. r \in since[d] /\ Valid(r)'
        BY <2>1, <3>3 DEF Protected
      <4>2. r \in Ids /\ Valid(r) /\ world'[r].fc = world[r].fc
        BY <3>3, <4>1, ProtectedBefore
      <4>3. r \in ValidOf(d)
        BY <4>1, <4>2 DEF ValidOf, History
      <4>4. r # q
        BY <3>2, <4>1
      <4>5. QED
        BY <2>6, <4>2, <4>3, <4>4
    <3>4. QED
      BY <2>1, <2>3, <2>6, <3>3
  <2>7. QED
    BY <2>1, <2>4, <2>5, <2>6
<1>4. CASE ResetFCForDID
  <2>1. PICK c \in Dids :
          /\ \A x \in Keys \ {c} : world'[x] = world[x]
          /\ since' = [since EXCEPT ![c] = {}]
    BY <1>4, ResetEffect
  <2>2. CASE c = d
    <3>1. since'[d] = {}
      BY <1>0, <2>1, <2>2
    <3>2. QED
      BY <3>1 DEF Protected
  <2>3. CASE c # d
    <3>1. world'[d] = world[d] /\ since'[d] = since[d]
      BY <1>0, <2>1, <2>3, DidKey
    <3>2. QED
      BY <3>1, StillCovered
  <2>4. QED
    BY <2>2, <2>3
<1>5. CASE RepairFCBindingForDID
  <2>1. PICK p \in Passports, c \in Dids, g \in Counters \cup {NoFc} :
          /\ \A x \in Keys \ {c} : world'[x] = world[x]
          /\ world'[c] = Binding(p, g)
          /\ world[c] # Nil => g = world[c].fc
          /\ world[c] = Nil => \A s \in ValidOf(c) : world[s].fc <= g
          /\ since' = since
    BY <1>5, RepairEffect
  <2>2. world'[c].fc = g
    BY <2>1 DEF Binding
  <2>3. CASE c # d
    <3>1. world'[d] = world[d]
      BY <2>1, <2>3, DidKey
    <3>2. QED
      BY <2>1, <3>1, StillCovered
  <2>4. CASE c = d /\ world[d] # Nil
    BY <2>1, <2>2, <2>4, StillCovered
  <2>5. CASE c = d /\ world[d] = Nil
    <3>1. ASSUME NEW r \in Protected(d)'
          PROVE  world'[r].fc <= g
      <4>1. r \in since[d]
        BY <2>1, <3>1 DEF Protected
      <4>2. r \in Ids /\ Valid(r) /\ world'[r].fc = world[r].fc
        BY <3>1, <4>1, ProtectedBefore
      <4>3. r \in ValidOf(d)
        BY <4>1, <4>2 DEF ValidOf, History
      <4>4. QED
        BY <2>1, <2>5, <4>2, <4>3
    <3>2. QED
      BY <2>1, <2>2, <2>5, <3>1
  <2>6. QED
    BY <2>3, <2>4, <2>5
<1>6. CASE UNCHANGED ledger
  <2>1. world'[d] = world[d] /\ since'[d] = since[d]
    BY <1>6 DEF ledger
  <2>2. QED
    BY <2>1, StillCovered
<1>7. QED
  BY <1>1, <1>2, <1>3, <1>4, <1>5, <1>6 DEF Next

-----------------------------------------------------------------------------
(* The invariant, and what follows from it.                                *)

IInv == TypeOK /\ Owned /\ OneHolder /\ InOrder

LEMMA IInvInit == Init => IInv
BY TypeInit, OwnedInit, OneHolderInit, InOrderInit DEF IInv

LEMMA IInvStep == IInv /\ [Next]_ledger => IInv'
BY TypeStep, OwnedStep, OneHolderStep, HistoryStep, FoundedStep, CoversStep,
   DistinctStep DEF IInv, OneHolder, InOrder

LEMMA IInvCorrect == Spec => []IInv
BY IInvInit, IInvStep, PTL DEF Spec

\* The high water of a bound DID stays at or above the counter of every valid
\* record made since the last reset, but for records from before lastFc keys
\* were bound whose DID a later passport has taken.
THEOREM HighWater == Spec => []HighWaterCovers
<1>1. IInv => HighWaterCovers
  BY BindingShape DEF IInv, InOrder, Covers, HighWaterCovers
<1>2. QED
  BY <1>1, IInvCorrect, PTL

\* With the same exception, two valid records of a DID since its last reset
\* never have the same counter.
THEOREM CountersDistinct == Spec => []ValidCountersDistinct
<1>1. IInv => ValidCountersDistinct
  BY DEF IInv, InOrder
<1>2. QED
  BY <1>1, IInvCorrect, PTL

-----------------------------------------------------------------------------
(* The transactions the chaincode would make in the present state.         *)

IsCreate(t) ==
  \E p \in Passports, d \in Dids : CanCreate(p, d) /\ t = CreateTx(p, d)

IsRecord(t) ==
  \E r \in Ids, p \in Passports, d \in Dids, f \in Counters :
    /\ CanRecord(r, p, d, f)
    /\ \E looked \in LookUps(r, p) : t = RecordTx(r, p, d, f, looked)

IsInvalidate(t) == \E r \in Ids : CanInvalidate(r) /\ t = InvalidateTx(r)

IsReset(t) == \E d \in Dids : CanReset(d) /\ t = ResetTx(d)

IsRepair(t) ==
  \E p \in Passports, d \in Dids : CanRepair(p, d) /\ t = RepairTx(p, d)

Callable(t) == IsCreate(t) \/ IsRecord(t) \/ IsInvalidate(t) \/ IsReset(t)
                 \/ IsRepair(t)

\* To apply such a transaction is a step of FcLedger.
LEMMA CallIsStep ==
  ASSUME NEW t, Callable(t), Apply(t)
  PROVE  Next
<1>1. CASE IsCreate(t)
  BY <1>1 DEF IsCreate, CreateBatteryPassport, Next
<1>2. CASE IsRecord(t)
  BY <1>2 DEF IsRecord, RecordBMUData, Next
<1>3. CASE IsInvalidate(t)
  BY <1>3 DEF IsInvalidate, InvalidateBMURecord, Next
<1>4. CASE IsReset(t)
  BY <1>4 DEF IsReset, ResetFCForDID, Next
<1>5. CASE IsRepair(t)
  BY <1>5 DEF IsRepair, RepairFCBindingForDID, Next
<1> QED BY <1>1, <1>2, <1>3, <1>4, <1>5 DEF Callable

\* What is written under a record id: a new record, whose DID is written with
\* it, or an invalidation of a record that is there.
LEMMA IdsWritten ==
  ASSUME TypeOK, NEW t, Callable(t), NEW r \in Ids, r \in DOMAIN t.writes
  PROVE  \/ /\ IsRecord(t)
            /\ world[r] = Nil
            /\ \E p \in Passports, d \in Dids, f \in Counters :
                 /\ d \in DOMAIN t.writes
                 /\ t.writes[r] = BmuRecord(p, d, f, "VALID")
         \/ /\ IsInvalidate(t)
            /\ Valid(r)
            /\ t.writes[r] = Invalidated(r)
<1>1. CASE IsCreate(t)
  BY <1>1, RecordKey DEF IsCreate, CreateTx, Tx, Write, Write2
<1>2. CASE IsRecord(t)
  <2>1. PICK s \in Ids, p \in Passports, d \in Dids, f \in Counters :
          /\ CanRecord(s, p, d, f)
          /\ \E looked \in LookUps(s, p) : t = RecordTx(s, p, d, f, looked)
    BY <1>2 DEF IsRecord
  <2>2. t.writes = Write2(s, BmuRecord(p, d, f, "VALID"), d, Binding(p, f))
    BY <2>1 DEF RecordTx, Tx
  <2>3. /\ d \in DOMAIN t.writes /\ r = s
        /\ t.writes[r] = BmuRecord(p, d, f, "VALID")
    BY <2>2, RecordKey DEF Write2
  <2> QED BY <1>2, <2>1, <2>3 DEF CanRecord
<1>3. CASE IsInvalidate(t)
  <2>1. PICK s \in Ids : CanInvalidate(s) /\ t = InvalidateTx(s)
    BY <1>3 DEF IsInvalidate
  <2>2. world[s].did \in Dids
    BY <2>1, RecordShape DEF CanInvalidate, Valid
  <2>3. \/ t.writes = Write(s, Invalidated(s))
        \/ \E b : t.writes = Write2(s, Invalidated(s), world[s].did, b)
    BY <2>1 DEF InvalidateTx, Tx
  <2>4. s # world[s].did /\ r # world[s].did
    BY <2>2, RecordKey
  <2>5. r = s
    BY <2>3, <2>4 DEF Write, Write2
  <2>6. t.writes[r] = Invalidated(r)
    BY <2>3, <2>5 DEF Write, Write2
  <2> QED BY <1>3, <2>1, <2>5, <2>6 DEF CanInvalidate
<1>4. CASE IsReset(t)
  BY <1>4, RecordKey DEF IsReset, ResetTx, Tx, Write
<1>5. CASE IsRepair(t)
  BY <1>5, RecordKey DEF IsRepair, RepairTx, Tx, Write
<1> QED BY <1>1, <1>2, <1>3, <1>4, <1>5 DEF Callable

\* A transaction reads and writes keys of the ledger, and names its DID.
LEMMA KeysOfCall ==
  ASSUME TypeOK, NEW t, Callable(t)
  PROVE  /\ t.op \in {"create", "record", "invalidate", "reset", "repair"}
         /\ t.did \in Dids
         /\ t.reads \subseteq Keys
         /\ DOMAIN t.writes \subseteq Keys
<1>1. CASE IsCreate(t)
  <2>1. PICK p \in Passports, d \in Dids : CanCreate(p, d) /\ t = CreateTx(p, d)
    BY <1>1 DEF IsCreate
  <2> QED BY <2>1, DidKey, PassportKey DEF CreateTx, Tx, Write, Write2
<1>2. CASE IsRecord(t)
  <2>1. PICK r \in Ids, p \in Passports, d \in Dids, f \in Counters :
          \E looked \in LookUps(r, p) : t = RecordTx(r, p, d, f, looked)
    BY <1>2 DEF IsRecord
  <2>2. PICK looked \in LookUps(r, p) : t = RecordTx(r, p, d, f, looked)
    BY <2>1
  <2>3. looked \subseteq {r, p}
    BY DEF LookUps
  <2> QED BY <2>2, <2>3, DidKey, PassportKey, RecordKey DEF RecordTx, Tx, Write2
<1>3. CASE IsInvalidate(t)
  <2>1. PICK r \in Ids : CanInvalidate(r) /\ t = InvalidateTx(r)
    BY <1>3 DEF IsInvalidate
  <2>2. world[r].did \in Dids
    BY <2>1, RecordShape DEF CanInvalidate, Valid
  <2>3. ValidOf(world[r].did) \subseteq Keys
    BY RecordKey DEF ValidOf
  <2> QED BY <2>1, <2>2, <2>3, DidKey, RecordKey
          DEF InvalidateTx, Tx, Write, Write2
<1>4. CASE IsReset(t)
  <2>1. PICK d \in Dids : CanReset(d) /\ t = ResetTx(d)
    BY <1>4 DEF IsReset
  <2>2. world[d].passport \in Passports
    BY <2>1, BindingShape DEF CanReset
  <2> QED BY <2>1, <2>2, DidKey, PassportKey DEF ResetTx, Tx, Write
<1>5. CASE IsRepair(t)
  <2>1. PICK p \in Passports, d \in Dids : CanRepair(p, d) /\ t = RepairTx(p, d)
    BY <1>5 DEF IsRepair
  <2>2. ValidOf(d) \subseteq Keys
    BY RecordKey DEF ValidOf
  <2> QED BY <2>1, <2>2, DidKey, PassportKey DEF RepairTx, Tx, Write
<1> QED BY <1>1, <1>2, <1>3, <1>4, <1>5 DEF Callable

-----------------------------------------------------------------------------
(* What a transaction leaves alone.                                        *)

\* A key that is not written keeps its document; one that is has the new one.
LEMMA NotWritten ==
  ASSUME NEW t, Apply(t), NEW k \in Keys, k \notin DOMAIN t.writes
  PROVE  world'[k] = world[k]
BY DEF Apply

LEMMA WrittenThere ==
  ASSUME NEW t, Apply(t), NEW k \in Keys, k \in DOMAIN t.writes
  PROVE  world'[k] = t.writes[k]
BY DEF Apply

\* A rich query returns the same records, as long as none of them is written,
\* nor the lastFc key of the DID: a record that is new to it comes with that.
LEMMA QueryKept ==
  ASSUME TypeOK, NEW t, Callable(t), Apply(t), NEW d \in Dids,
         d \notin DOMAIN t.writes, ValidOf(d) \cap DOMAIN t.writes = {}
  PROVE  /\ ValidOf(d)' = ValidOf(d)
         /\ \A s \in ValidOf(d) : world'[s] = world[s]
<1>1. ASSUME NEW s \in ValidOf(d)
      PROVE  world'[s] = world[s] /\ s \in Ids
  BY RecordKey, NotWritten DEF ValidOf
<1>2. ASSUME NEW s \in Ids, Valid(s)', world'[s].did = d
      PROVE  s \in ValidOf(d)
  <2>1. CASE s \notin DOMAIN t.writes
    BY <1>2, <2>1, RecordKey, NotWritten DEF ValidOf, Valid, Recorded
  <2>2. CASE s \in DOMAIN t.writes
    <3>1. world'[s] = t.writes[s]
      BY <2>2, RecordKey, WrittenThere
    <3>2. CASE \E p \in Passports, e \in Dids, f \in Counters :
                 /\ e \in DOMAIN t.writes
                 /\ t.writes[s] = BmuRecord(p, e, f, "VALID")
      BY <1>2, <3>1, <3>2 DEF BmuRecord
    <3>3. CASE Valid(s) /\ t.writes[s] = Invalidated(s)
      <4>1. world'[s].status = "INVALIDATED"
        BY <3>1, <3>3, InvalidatedShape DEF Valid, BmuRecord
      <4> QED BY <1>2, <4>1 DEF Valid
    <3> QED BY <2>2, <3>2, <3>3, IdsWritten
  <2> QED BY <2>1, <2>2
<1>3. ValidOf(d)' = {s \in Ids : Valid(s)' /\ world'[s].did = d}
  BY DEF ValidOf
<1>4. ASSUME NEW s \in ValidOf(d)
      PROVE  Valid(s)' /\ world'[s].did = d
  BY <1>1 DEF ValidOf, Valid, Recorded
<1> QED BY <1>1, <1>2, <1>3, <1>4

\* A passport that may be created may still be.
LEMMA CreateKept ==
  ASSUME NEW t, Apply(t), NEW p \in Passports, NEW d \in Dids, CanCreate(p, d),
         p \notin DOMAIN t.writes, d \notin DOMAIN t.writes
  PROVE  CanCreate(p, d)' /\ CreateTx(p, d)' = CreateTx(p, d)
<1>1. world'[p] = world[p] /\ world'[d] = world[d]
  BY DidKey, PassportKey, NotWritten
<1> QED BY <1>1 DEF CanCreate, CreateTx, Bound

\* Whatever else is called, a record that may be made may still be made, unless
\* the other call makes it.
LEMMA RecordStill ==
  ASSUME NEW t, Apply(t), NEW r \in Ids, NEW p, NEW d \in Dids, NEW f,
         CanRecord(r, p, d, f), r \notin DOMAIN t.writes, d \notin DOMAIN t.writes
  PROVE  CanRecord(r, p, d, f)'
<1>1. world'[r] = world[r] /\ world'[d] = world[d]
  BY DidKey, RecordKey, NotWritten
<1> QED BY <1>1 DEF CanRecord, NextFc, Bound

\* The newest valid records of a DID are the same.
LEMMA NewestKept ==
  ASSUME NEW d, NEW S, ValidOf(d)' = ValidOf(d),
         \A s \in ValidOf(d) : world'[s] = world[s]
  PROVE  LatestValid(d, S)' = LatestValid(d, S)
BY DEF LatestValid

\* The newest valid records of a DID have one counter.
LEMMA OneNewest ==
  ASSUME TypeOK, NEW d, NEW S, LatestValid(d, S) # {}
  PROVE  \E n \in Counters : \A s \in LatestValid(d, S) : world[s].fc = n
<1>1. \A s \in ValidOf(d) : world[s].fc \in Counters
  BY RecordShape DEF ValidOf, Valid
<1>2. PICK s \in LatestValid(d, S) : TRUE
  OBVIOUS
<1>3. ASSUME NEW r \in LatestValid(d, S)
      PROVE  world[r].fc = world[s].fc
  <2>1. world[r].fc <= world[s].fc /\ world[s].fc <= world[r].fc
    BY <1>2 DEF LatestValid
  <2>2. world[r].fc \in Int /\ world[s].fc \in Int
    BY <1>1, <1>2, FcInt DEF LatestValid
  <2> QED BY <2>1, <2>2, SMT
<1> QED BY <1>1, <1>2, <1>3 DEF LatestValid

\* The counter recomputed from the same records is the same.
LEMMA RecomputedKept ==
  ASSUME TypeOK, NEW d, NEW r, ValidOf(d)' = ValidOf(d),
         \A s \in ValidOf(d) : world'[s] = world[s]
  PROVE  RecomputedFc(d, r)' = RecomputedFc(d, r)
<1>1. LatestValid(d, {r})' = LatestValid(d, {r})
  BY NewestKept
<1>2. \A s \in LatestValid(d, {r}) : world'[s] = world[s]
  BY DEF LatestValid
<1>3. CASE LatestValid(d, {r}) = {}
  BY <1>1, <1>3 DEF RecomputedFc
<1>4. CASE LatestValid(d, {r}) # {}
  <2>1. PICK n \in Counters : \A s \in LatestValid(d, {r}) : world[s].fc = n
    BY <1>4, OneNewest
  <2>2. RecomputedFc(d, r) = n
    BY <1>4, <2>1 DEF RecomputedFc
  <2>3. RecomputedFc(d, r)' = n
    BY <1>1, <1>2, <1>4, <2>1 DEF RecomputedFc
  <2> QED BY <2>2, <2>3
<1> QED BY <1>3, <1>4

LEMMA RepairedKept ==
  ASSUME TypeOK, NEW d, world'[d] = world[d], ValidOf(d)' = ValidOf(d),
         \A s \in ValidOf(d) : world'[s] = world[s]
  PROVE  RepairedFc(d)' = RepairedFc(d)
<1>1. LatestValid(d, {})' = LatestValid(d, {})
  BY NewestKept
<1>2. \A s \in LatestValid(d, {}) : world'[s] = world[s]
  BY DEF LatestValid
<1>3. CASE world[d] # Nil \/ LatestValid(d, {}) = {}
  BY <1>1, <1>3 DEF RepairedFc
<1>4. CASE world[d] = Nil /\ LatestValid(d, {}) # {}
  <2>1. PICK n \in Counters : \A s \in LatestValid(d, {}) : world[s].fc = n
    BY <1>4, OneNewest
  <2>2. RepairedFc(d) = n
    BY <1>4, <2>1 DEF RepairedFc
  <2>3. RepairedFc(d)' = n
    BY <1>1, <1>2, <1>4, <2>1 DEF RepairedFc
  <2> QED BY <2>2, <2>3
<1> QED BY <1>3, <1>4

\* A call that invalidates, resets or repairs stands, with the same outcome,
\* while nothing it has read is written.
LEMMA InvalidateKept ==
  ASSUME TypeOK, NEW t, Callable(t), Apply(t), NEW r \in Ids, CanInvalidate(r),
         InvalidateTx(r).reads \cap DOMAIN t.writes = {}
  PROVE  CanInvalidate(r)' /\ InvalidateTx(r)' = InvalidateTx(r)
<1>1. PICK d \in Dids : d = world[r].did
  BY RecordShape DEF CanInvalidate, Valid
<1>2. r \notin DOMAIN t.writes /\ d \notin DOMAIN t.writes
  BY <1>1 DEF InvalidateTx, Tx
<1>3. world'[r] = world[r] /\ world'[d] = world[d]
  BY <1>1, <1>2, DidKey, RecordKey, NotWritten
<1>4. /\ Valid(r)' /\ Bound(d)' /\ world'[d].passport = world[r].passport
      /\ HoldsHighWater(r)' = HoldsHighWater(r)
      /\ Invalidated(r)' = Invalidated(r)
  BY <1>1, <1>3 DEF CanInvalidate, Valid, Recorded, Bound, HoldsHighWater,
     Invalidated
<1>5. CASE ~HoldsHighWater(r)
  BY <1>1, <1>3, <1>4, <1>5 DEF CanInvalidate, InvalidateTx
<1>6. CASE HoldsHighWater(r)
  <2>1. ValidOf(d) \cap DOMAIN t.writes = {}
    BY <1>1, <1>6 DEF InvalidateTx, Tx
  <2>2. ValidOf(d)' = ValidOf(d) /\ \A s \in ValidOf(d) : world'[s] = world[s]
    BY <1>2, <2>1, QueryKept
  <2>3. LatestValid(d, {r})' = LatestValid(d, {r})
    BY <2>2, NewestKept
  <2>4. \A s \in LatestValid(d, {r}) : world'[s] = world[s]
    BY <2>2 DEF LatestValid
  <2>5. CanInvalidate(r)'
    BY <1>1, <1>3, <1>4, <2>3, <2>4 DEF CanInvalidate
  <2>6. RecomputedFc(d, r)' = RecomputedFc(d, r)
    BY <2>2, RecomputedKept
  <2>7. InvalidateTx(r)' = InvalidateTx(r)
    BY <1>1, <1>3, <1>4, <2>2, <2>6 DEF InvalidateTx
  <2> QED BY <2>5, <2>7
<1> QED BY <1>5, <1>6

LEMMA ResetKept ==
  ASSUME TypeOK, NEW t, Apply(t), NEW d \in Dids, CanReset(d),
         ResetTx(d).reads \cap DOMAIN t.writes = {}
  PROVE  CanReset(d)' /\ ResetTx(d)' = ResetTx(d)
<1>1. world[d].passport \in Passports
  BY BindingShape DEF CanReset
<1>2. world'[d] = world[d] /\ world'[world[d].passport] = world[world[d].passport]
  BY <1>1, DidKey, PassportKey, NotWritten DEF ResetTx, Tx
<1> QED BY <1>2 DEF CanReset, ResetTx, Bound

LEMMA RepairKept ==
  ASSUME TypeOK, NEW t, Callable(t), Apply(t),
         NEW p \in Passports, NEW d \in Dids, CanRepair(p, d),
         RepairTx(p, d).reads \cap DOMAIN t.writes = {}
  PROVE  CanRepair(p, d)' /\ RepairTx(p, d)' = RepairTx(p, d)
<1>1. p \notin DOMAIN t.writes /\ d \notin DOMAIN t.writes
  BY DEF RepairTx, Tx
<1>2. world'[p] = world[p] /\ world'[d] = world[d]
  BY <1>1, DidKey, PassportKey, NotWritten
<1>3. CASE world[d] # Nil
  BY <1>2, <1>3 DEF CanRepair, RepairTx, RepairedFc, Bound
<1>4. CASE world[d] = Nil
  <2>1. ValidOf(d) \cap DOMAIN t.writes = {}
    BY <1>4 DEF RepairTx, Tx
  <2>2. ValidOf(d)' = ValidOf(d) /\ \A s \in ValidOf(d) : world'[s] = world[s]
    BY <1>1, <2>1, QueryKept
  <2>3. LatestValid(d, {})' = LatestValid(d, {})
    BY <2>2, NewestKept
  <2>4. \A s \in LatestValid(d, {}) : world'[s] = world[s]
    BY <2>2 DEF LatestValid
  <2>5. CanRepair(p, d)'
    BY <1>2, <2>3, <2>4 DEF CanRepair, Bound
  <2>6. RepairedFc(d)' = RepairedFc(d)
    BY <1>2, <2>2, RepairedKept
  <2> QED BY <1>2, <2>2, <2>5, <2>6 DEF RepairTx
<1> QED BY <1>3, <1>4

\* With the same world every call is the same.
LEMMA CallsSame ==
  ASSUME TypeOK, UNCHANGED world, NEW t
  PROVE  /\ Callable(t) => Callable(t)'
         /\ IsInvalidate(t) => IsInvalidate(t)'
         /\ IsReset(t) => IsReset(t)'
<1>1. \A p, d : /\ CanCreate(p, d)' = CanCreate(p, d)
                /\ CreateTx(p, d)' = CreateTx(p, d)
  BY DEF CanCreate, CreateTx, Bound
<1>2. \A r, p, d, f : CanRecord(r, p, d, f)' = CanRecord(r, p, d, f)
  BY DEF CanRecord, NextFc, Bound
<1>3. \A d : CanReset(d)' = CanReset(d) /\ ResetTx(d)' = ResetTx(d)
  BY DEF CanReset, ResetTx, Bound
<1>4. \A d : ValidOf(d)' = ValidOf(d)
  BY DEF ValidOf, Valid, Recorded
<1>5. \A d, S : LatestValid(d, S)' = LatestValid(d, S)
  BY <1>4, NewestKept
<1>6. \A d, r : RecomputedFc(d, r)' = RecomputedFc(d, r)
  BY <1>4, RecomputedKept
<1>7. \A d : RepairedFc(d)' = RepairedFc(d)
  BY <1>4, RepairedKept
<1>8. \A r : /\ CanInvalidate(r)' = CanInvalidate(r)
             /\ InvalidateTx(r)' = InvalidateTx(r)
  BY <1>4, <1>5, <1>6 DEF CanInvalidate, InvalidateTx, Valid, Recorded,
     Bound, HoldsHighWater, Invalidated
<1>9. \A p, d : /\ CanRepair(p, d)' = CanRepair(p, d)
                /\ RepairTx(p, d)' = RepairTx(p, d)
  BY <1>4, <1>5, <1>7 DEF CanRepair, RepairTx, Bound
<1> QED BY <1>1, <1>2, <1>3, <1>8, <1>9
        DEF Callable, IsCreate, IsRecord, IsInvalidate, IsReset, IsRepair
=============================================================================
