------------------------ MODULE TelemetryPathProofs ------------------------
(***************************************************************************)
(* Proofs about TelemetryPath, for any buffer, batch, number of tries,     *)
(* counters and disturbances.                                              *)
(*                                                                         *)
(* The invariant ties the parts together: the bridge's rows and the frame  *)
(* it has posted (BridgeInv), the agent's requests, each with a            *)
(* transaction that the chaincode would still make unless it has been      *)
(* outdated (AgentInv), the bridge's "ok" and the rows it has deleted,     *)
(* which the ledger has recorded (KeptInv), and the read model (ViewInv).  *)
(* From AgentInv it follows that every commit is a call of FcLedger, so    *)
(* that what is proved of the ledger holds of the path.                    *)
(***************************************************************************)
EXTENDS TelemetryPath, FcLedgerProofs, ReadModelProofs, FiniteSetTheorems

-----------------------------------------------------------------------------
(* Counters and batches.                                                   *)

\* A nonempty set of counters has a smallest member.
LEMMA SmallestCounter ==
  ASSUME NEW T, T \subseteq Counters, T # {}
  PROVE  \E f \in T : \A g \in T : f <= g
<1> DEFINE R == {ss \in Nat \X Nat : ss[1] < ss[2]}
<1>1. IsWellFoundedOn(R, Nat)
  BY NatLessThanWellFounded DEF OpToRel
<1>2. T \subseteq Nat
  BY CountersNat
<1>3. \E n \in T : \A m \in T : ~ (<<m, n>> \in R)
  <2> HIDE DEF R
  <2> QED  BY <1>1, <1>2, WFMin, Zenon
<1>4. PICK n \in T : \A m \in T : ~ (<<m, n>> \in R)
  BY <1>3
<1>5. ASSUME NEW m \in T
      PROVE  n <= m
  <2>1. n \in Nat /\ m \in Nat
    BY <1>2
  <2>2. ~ (m < n)
    BY <1>4, <2>1
  <2>3. QED
    BY <2>1, <2>2, SMT
<1>6. QED
  BY <1>5

\* Sets of counters are finite.
LEMMA CountersFinite ==
  ASSUME NEW T, T \subseteq Counters
  PROVE  IsFiniteSet(T)
<1>1. MaxCounter \in Nat /\ Counters \subseteq 0 .. MaxCounter
  BY LedgerAssumption DEF LedgerAssumption
<1>2. T \in SUBSET Nat /\ \A f \in T : f <= MaxCounter
  BY <1>1, SMT
<1>3. QED
  BY <1>1, <1>2, FS_BoundedSetOfNaturals

\* LIMIT: the rows that have fewer than so many before them are no more than so
\* many.
LEMMA BatchLimit ==
  ASSUME NEW T, T \subseteq Counters, NEW n \in Nat,
         NEW B, B = {f \in T : Cardinality({g \in T : g < f}) < n}
  PROVE  Cardinality(B) <= n
<1> DEFINE Below(f) == {g \in T : g < f}
           rank     == [f \in B |-> Cardinality(Below(f))]
<1>1. ASSUME NEW f \in T
      PROVE  IsFiniteSet(Below(f)) /\ Cardinality(Below(f)) \in Nat
  <2>1. IsFiniteSet(Below(f))
    BY CountersFinite
  <2>2. QED
    BY <2>1, FS_CardinalityType
<1>2. ASSUME NEW f \in T, NEW g \in T, f < g
      PROVE  Cardinality(Below(f)) < Cardinality(Below(g))
  <2>1. f \in Nat /\ g \in Nat /\ T \subseteq Nat
    BY CountersNat
  <2>2. Below(f) \subseteq Below(g)
    <3>1. ASSUME NEW h \in Below(f)
          PROVE  h \in T /\ h < g
      <4>1. h \in Nat /\ h \in T /\ h < f
        BY <2>1
      <4>2. QED
        BY <1>2, <2>1, <4>1, SMT
    <3>2. QED
      BY <3>1
  <2>3. f \in Below(g) /\ f \notin Below(f)
    BY <1>2, <2>1, SMT
  <2>4. /\ Cardinality(Below(f)) <= Cardinality(Below(g))
        /\ Cardinality(Below(f)) # Cardinality(Below(g))
    <3> HIDE DEF Below
    <3> QED  BY <1>1, <2>2, <2>3, FS_Subset
  <2>5. Cardinality(Below(f)) \in Nat /\ Cardinality(Below(g)) \in Nat
    BY <1>1
  <2>6. QED
    <3> HIDE DEF Below
    <3> QED  BY <2>4, <2>5, SMT
<1>3. rank \in Injection(B, 0 .. n - 1)
  <2>1. rank \in [B -> 0 .. n - 1]
    <3>1. ASSUME NEW f \in B
          PROVE  Cardinality(Below(f)) \in 0 .. n - 1
      <4>1. f \in T /\ Cardinality(Below(f)) < n
        OBVIOUS
      <4>2. Cardinality(Below(f)) \in Nat
        BY <1>1, <4>1
      <4> HIDE DEF Below
      <4>3. QED
        BY <4>1, <4>2, SMT
    <3>2. QED
      BY <3>1
  <2>2. ASSUME NEW f \in B, NEW g \in B, rank[f] = rank[g]
        PROVE  f = g
    <3>1. f \in T /\ g \in T /\ f \in Nat /\ g \in Nat
      BY CountersNat
    <3>2. Cardinality(Below(f)) = Cardinality(Below(g))
      BY <2>2
    <3>3. Cardinality(Below(f)) \in Nat /\ Cardinality(Below(g)) \in Nat
      BY <1>1, <3>1
    <3>4. ~ (f < g) /\ ~ (g < f)
      <4>1. f < g => Cardinality(Below(f)) < Cardinality(Below(g))
        BY <1>2, <3>1
      <4>2. g < f => Cardinality(Below(g)) < Cardinality(Below(f))
        BY <1>2, <3>1
      <4> HIDE DEF Below
      <4>3. QED
        BY <3>2, <3>3, <4>1, <4>2, SMT
    <3>5. QED
      BY <3>1, <3>4, SMT
  <2>3. QED
    BY <2>1, <2>2 DEF Injection, IsInjective
<1>4. IsFiniteSet(0 .. n - 1) /\ Cardinality(0 .. n - 1) = n
  <2>1. 0 \in Int /\ n - 1 \in Int
    BY SMT
  <2>2. IsFiniteSet(0 .. n - 1)
        /\ Cardinality(0 .. n - 1) = IF 0 > n - 1 THEN 0 ELSE (n - 1) - 0 + 1
    BY <2>1, FS_Interval
  <2>3. QED
    BY <2>2, SMT
<1>5. QED
  <2> HIDE DEF rank
  <2> QED  BY <1>3, <1>4, FS_Injection

-----------------------------------------------------------------------------
(* The bridge.                                                             *)

LineInv ==
  /\ line \in Seq(Counters) /\ Len(line) <= MaxLine
  /\ hand \in Seq(Counters) /\ Len(hand) <= 1
  /\ last \in Int

SpoolInv ==
  /\ DOMAIN spool \subseteq Counters /\ DOMAIN work \subseteq DOMAIN spool
  /\ \A rows \in {spool, work} : rows \in [DOMAIN rows -> 0 .. MaxTries]
  /\ batch \subseteq DOMAIN work /\ Cardinality(batch) <= MaxBatch
  /\ \A f \in batch : work[f] < MaxTries
  /\ hand = <<>> \/ batch = {}
  /\ batch = {} => work = spool

PostInv ==
  /\ post \in {"none", "waiting", "ok", "permanent", "transient"}
  /\ post # "none" => ~ Idle

BridgeInv == LineInv /\ SpoolInv /\ PostInv

\* What is posted is a counter, and one of the batch unless a frame is in hand.
LEMMA PostedCounter ==
  ASSUME BridgeInv, ~ Idle
  PROVE  /\ Posted \in Counters
         /\ hand = <<>> => Posted \in batch
         /\ hand # <<>> => hand = <<Posted>>
<1>1. CASE hand # <<>>
  <2>1. hand \in Seq(Counters) /\ Len(hand) <= 1
    BY DEF BridgeInv, LineInv
  <2>2. Len(hand) = 1 /\ hand[1] \in Counters /\ hand = <<hand[1]>>
    <3>1. Len(hand) \in Nat /\ Len(hand) # 0 /\ Len(hand) <= 1
      BY <1>1, <2>1, EmptySeq
    <3>2. Len(hand) = 1
      <4>1. \A n \in Nat : n # 0 /\ n <= 1 => n = 1
        BY SMT
      <4>2. QED
        BY <3>1, <4>1, Zenon
    <3>3. 1 \in 1 .. Len(hand)
      BY <3>2, SMT
    <3>4. hand[1] \in Counters
      BY <2>1, <3>3, ElementOfSeq
    <3>5. <<hand[1]>> \in Seq(Counters) /\ Len(<<hand[1]>>) = 1
      BY <3>4, SMT
    <3>6. \A i \in 1 .. Len(hand) : hand[i] = <<hand[1]>>[i]
      BY <3>2, SMT
    <3>7. hand = <<hand[1]>>
      BY <2>1, <3>2, <3>5, <3>6, SeqEqual
    <3>8. QED
      BY <3>2, <3>4, <3>7
  <2>3. QED
    BY <1>1, <2>2 DEF Posted
<1>2. CASE hand = <<>>
  <2>1. batch # {} /\ batch \subseteq Counters
    BY <1>2 DEF BridgeInv, SpoolInv, Idle
  <2>2. \E f \in batch : \A g \in batch : f <= g
    BY <2>1, SmallestCounter
  <2>3. Oldest \in batch
    BY <2>2 DEF Oldest
  <2>4. QED
    BY <1>2, <2>1, <2>3 DEF Posted
<1>3. QED
  BY <1>1, <1>2

\* Two sets with the same members have the same smallest one.
LEMMA OldestIs ==
  ASSUME batch \subseteq Counters, NEW f \in batch, \A g \in batch : f <= g
  PROVE  Oldest = f
<1>1. Oldest \in batch /\ \A g \in batch : Oldest <= g
  BY DEF Oldest
<1>2. Oldest \in Nat /\ f \in Nat
  BY <1>1, CountersNat
<1>3. Oldest <= f /\ f <= Oldest
  BY <1>1
<1>4. QED
  BY <1>2, <1>3, SMT

\* While hand and batch stay, so does what is posted.
LEMMA PostedSame ==
  ASSUME BridgeInv, ~ Idle, UNCHANGED <<hand, batch>>
  PROVE  Posted' = Posted /\ ~ Idle'
<1>1. ~ Idle'
  BY DEF Idle
<1>2. CASE hand # <<>>
  BY <1>1, <1>2 DEF Posted
<1>3. CASE hand = <<>>
  <2>1. batch # {} /\ batch \subseteq Counters
    BY <1>3 DEF BridgeInv, SpoolInv, Idle
  <2>2. PICK f \in batch : \A g \in batch : f <= g
    BY <2>1, SmallestCounter
  <2>3. Oldest = f
    BY <2>1, <2>2, OldestIs
  <2>4. /\ batch' \subseteq Counters
        /\ f \in batch'
        /\ \A g \in batch' : f <= g
    BY <2>1, <2>2
  <2>5. Oldest' = f
    <3>1. Oldest' \in batch' /\ \A g \in batch' : Oldest' <= g
      BY <2>4 DEF Oldest
    <3>2. Oldest' \in Nat /\ f \in Nat
      BY <2>4, <3>1, CountersNat
    <3>3. Oldest' <= f /\ f <= Oldest'
      BY <2>4, <3>1
    <3>4. QED
      BY <3>2, <3>3, SMT
  <2>6. QED
    BY <1>1, <1>3, <2>3, <2>5 DEF Posted
<1>4. QED
  BY <1>1, <1>2, <1>3

\* An empty bridge.
LEMMA BridgeInvInit == BridgeInit /\ last = -1 => BridgeInv
<1> SUFFICES ASSUME BridgeInit, last = -1
             PROVE  BridgeInv
  OBVIOUS
<1>1. /\ MaxLine \in Nat /\ MaxBatch \in Nat
      /\ <<>> \in Seq(Counters) /\ Len(<<>>) = 0
  BY BridgeAssumption, SMT DEF BridgeAssumption
<1>2. LineInv
  BY <1>1, SMT DEF BridgeInit, LineInv
<1>3. spool = [f \in {} |-> 0] /\ DOMAIN spool = {} /\ work = spool /\ batch = {}
  BY DEF BridgeInit
<1>4. Cardinality(batch) = 0
  BY <1>3, FS_EmptySet
<1>5. SpoolInv
  BY <1>1, <1>3, <1>4, SMT DEF BridgeInit, SpoolInv
<1>6. PostInv
  BY DEF BridgeInit, PostInv
<1>7. QED
  BY <1>2, <1>5, <1>6 DEF BridgeInv

\* The spool does not depend on the buffer, the answer or the counters.
LEMMA SpoolKept ==
  ASSUME SpoolInv, UNCHANGED <<spool, work, batch>>, hand' = hand \/ batch = {}
  PROVE  SpoolInv'
BY DEF SpoolInv

\* A line comes in.
LEMMA EmitBridge == BridgeInv /\ Emit => BridgeInv'
<1> SUFFICES ASSUME BridgeInv, Emit
             PROVE  BridgeInv'
  OBVIOUS
<1>1. /\ last' \in Counters /\ UNCHANGED <<hand, spool, work, batch, post>>
      /\ line' = line \/ (Len(line) < MaxLine /\ line' = Append(line, last'))
  BY DEF Emit, LineArrives
<1>2. LineInv'
  BY <1>1, CountersNat, BridgeAssumption, SMT
     DEF BridgeInv, LineInv, BridgeAssumption
<1>3. SpoolInv' /\ PostInv'
  BY <1>1, SpoolKept DEF BridgeInv, PostInv, Idle
<1>4. QED
  BY <1>2, <1>3 DEF BridgeInv

\* Only the answer changes, and somebody was waiting for it, or nothing does.
LEMMA AnswerBridge ==
  ASSUME BridgeInv, UNCHANGED <<line, hand, spool, work, batch, last>>,
         post' \in {"none", "waiting", "ok", "permanent", "transient"},
         post' = post \/ ~ Idle
  PROVE  BridgeInv'
BY SpoolKept DEF BridgeInv, LineInv, PostInv, Idle

\* The tail of the buffer, and its head in hand.
LEMMA LineTail ==
  ASSUME LineInv, line # <<>>
  PROVE  /\ Tail(line) \in Seq(Counters) /\ Len(Tail(line)) <= MaxLine
         /\ Head(line) \in Counters
         /\ <<Head(line)>> \in Seq(Counters) /\ Len(<<Head(line)>>) = 1
BY BridgeAssumption, SMT DEF LineInv, BridgeAssumption

\* A row gone, or counted once more, is no row too many.
LEMMA RowsAfter ==
  ASSUME SpoolInv, batch # {}, NEW f \in batch,
         NEW rows \in {Deleted(work, f), Counted(work, f)}
  PROVE  /\ DOMAIN rows \subseteq DOMAIN work
         /\ DOMAIN work \subseteq DOMAIN rows \cup {f}
         /\ rows \in [DOMAIN rows -> 0 .. MaxTries]
         /\ \A g \in batch \ {f} : g \in DOMAIN rows /\ rows[g] = work[g]
<1>1. /\ work \in [DOMAIN work -> 0 .. MaxTries] /\ f \in DOMAIN work
      /\ work[f] < MaxTries /\ batch \subseteq DOMAIN work
  BY DEF SpoolInv
<1>2. CASE rows = Deleted(work, f)
  BY <1>1, <1>2 DEF Deleted
<1>3. CASE rows = Counted(work, f)
  <2>1. work[f] + 1 \in 0 .. MaxTries
    BY <1>1, BridgeAssumption, SMT DEF BridgeAssumption
  <2>2. QED
    BY <1>1, <1>3, <2>1 DEF Counted
<1>4. QED
  BY <1>2, <1>3

\* The retry goes on with the rest of its batch, or ends and commits.
LEMMA GoOnSpool ==
  ASSUME SpoolInv, NEW f \in batch,
         NEW rows \in {Deleted(work, f), Counted(work, f)},
         NEW rest \in {batch \ {f}, {}}, GoOn(rows, rest)
  PROVE  SpoolInv'
<1>1. /\ DOMAIN rows \subseteq DOMAIN work
      /\ rows \in [DOMAIN rows -> 0 .. MaxTries]
      /\ \A g \in batch \ {f} : g \in DOMAIN rows /\ rows[g] = work[g]
  BY RowsAfter
<1>2. /\ work' = rows /\ batch' = rest /\ hand' = hand
      /\ spool' = IF rest = {} THEN rows ELSE spool
  BY DEF GoOn
<1>3. hand = <<>>
  BY DEF SpoolInv
<1>4. batch \subseteq Counters /\ IsFiniteSet(batch)
  BY CountersFinite DEF SpoolInv
<1>5. Cardinality(rest) <= MaxBatch
  <2>1. rest \in SUBSET batch
    OBVIOUS
  <2>2. Cardinality(rest) <= Cardinality(batch)
    BY <1>4, <2>1, FS_Subset
  <2>3. /\ Cardinality(rest) \in Nat /\ Cardinality(batch) \in Nat
        /\ MaxBatch \in Nat
    BY <1>4, <2>1, FS_Subset, FS_CardinalityType, BridgeAssumption
       DEF BridgeAssumption
  <2>4. QED
    BY <2>2, <2>3, SMT DEF SpoolInv
<1>6. /\ DOMAIN spool' \subseteq Counters
      /\ DOMAIN work' \subseteq DOMAIN spool'
      /\ spool' \in [DOMAIN spool' -> 0 .. MaxTries]
      /\ work' \in [DOMAIN work' -> 0 .. MaxTries]
  <2>1. CASE rest = {}
    BY <1>1, <1>2, <2>1 DEF SpoolInv
  <2>2. CASE rest # {}
    BY <1>1, <1>2, <2>2 DEF SpoolInv
  <2>3. QED
    BY <2>1, <2>2
<1>7. batch' \subseteq DOMAIN work' /\ \A g \in batch' : work'[g] < MaxTries
  BY <1>1, <1>2 DEF SpoolInv
<1>8. QED
  BY <1>2, <1>3, <1>5, <1>6, <1>7 DEF SpoolInv

\* Every step of the loop, and no answer is left afterwards.
LEMMA LoopBridge ==
  ASSUME BridgeInv, BridgeLoop
  PROVE  BridgeInv' /\ post' = "none" /\ post # "waiting"
<1>0. UNCHANGED last /\ last \in Int
  BY DEF BridgeLoop, BridgeInv, LineInv
<1>1. CASE Skip
  <2>1. LineInv'
    BY <1>0, <1>1, LineTail DEF Skip, BridgeInv, LineInv
  <2>2. SpoolInv' /\ PostInv'
    BY <1>1, SpoolKept DEF Skip, BridgeInv, PostInv, Idle
  <2>3. QED
    BY <1>1, <2>1, <2>2 DEF Skip, BridgeInv, PostInv
<1>2. CASE TakeLine
  <2>1. LineInv'
    <3>1. LineInv /\ line # <<>>
      BY <1>2 DEF TakeLine, BridgeInv
    <3>2. line' = Tail(line) /\ hand' = <<Head(line)>>
      BY <1>2 DEF TakeLine
    <3>3. Len(hand') <= 1
      BY <3>1, <3>2, LineTail, SMT
    <3>4. QED
      BY <1>0, <3>1, <3>2, <3>3, LineTail DEF LineInv
  <2>2. post = "none" /\ UNCHANGED post /\ batch = {}
    BY <1>2 DEF TakeLine, BridgeInv, PostInv, Idle
  <2>3. SpoolInv' /\ PostInv'
    BY <1>2, <2>2, SpoolKept DEF TakeLine, BridgeInv, PostInv
  <2>4. QED
    BY <2>1, <2>2, <2>3 DEF BridgeInv
<1>3. CASE StartRetry
  <2>1. /\ hand = <<>> /\ batch = {} /\ post = "none" /\ work = spool
        /\ UNCHANGED <<line, hand, spool, work, post>>
    BY <1>3 DEF StartRetry, BridgeInv, PostInv, Idle, SpoolInv
  <2>2. Eligible \subseteq Counters /\ Eligible \subseteq DOMAIN spool
    BY DEF Eligible, BridgeInv, SpoolInv
  <2>3. batch' = {f \in Eligible :
                   Cardinality({g \in Eligible : g < f}) < MaxBatch}
    BY <1>3 DEF StartRetry
  <2>4. Cardinality(batch') <= MaxBatch
    <3>1. MaxBatch \in Nat
      BY BridgeAssumption DEF BridgeAssumption
    <3> HIDE DEF Eligible
    <3>2. QED
      BY <2>2, <2>3, <3>1, BatchLimit
  <2>5. batch' \subseteq DOMAIN work' /\ \A f \in batch' : work'[f] < MaxTries
    BY <2>1, <2>3 DEF Eligible
  <2>6. SpoolInv'
    BY <2>1, <2>4, <2>5 DEF BridgeInv, SpoolInv
  <2>7. LineInv' /\ PostInv'
    BY <1>0, <2>1 DEF BridgeInv, LineInv, PostInv
  <2>8. QED
    BY <2>1, <2>6, <2>7 DEF BridgeInv
<1>4. CASE LiveOk
  <2>1. /\ hand' = <<>> /\ post' = "none" /\ post = "ok"
        /\ UNCHANGED <<line, spool, work, batch>>
    BY <1>4 DEF LiveOk
  <2>2. SpoolInv' /\ PostInv'
    BY <2>1 DEF BridgeInv, SpoolInv, PostInv
  <2>3. LineInv'
    BY <1>0, <2>1, EmptySeq, SMT DEF BridgeInv, LineInv
  <2>4. QED
    BY <2>1, <2>2, <2>3 DEF BridgeInv
<1>5. CASE LiveFailed
  <2>1. /\ hand' = <<>> /\ post' = "none" /\ post # "waiting"
        /\ spool' = Inserted(spool, Posted) /\ work' = spool'
        /\ UNCHANGED <<line, batch>>
    BY <1>5 DEF LiveFailed
  <2>2. hand # <<>> /\ batch = {} /\ Posted \in Counters
    BY <1>5, PostedCounter DEF LiveFailed, BridgeInv, SpoolInv, Idle
  <2>3. /\ DOMAIN spool' \subseteq Counters
        /\ spool' \in [DOMAIN spool' -> 0 .. MaxTries]
    <3>1. 0 \in 0 .. MaxTries
      BY BridgeAssumption, SMT DEF BridgeAssumption
    <3>2. QED
      BY <2>1, <2>2, <3>1 DEF Inserted, BridgeInv, SpoolInv
  <2>4. SpoolInv'
    BY <2>1, <2>2, <2>3 DEF BridgeInv, SpoolInv
  <2>5. PostInv'
    BY <2>1 DEF PostInv
  <2>6. LineInv'
    BY <1>0, <2>1, EmptySeq, SMT DEF BridgeInv, LineInv
  <2>7. QED
    BY <2>1, <2>4, <2>5, <2>6 DEF BridgeInv
<1>6. CASE RowOk \/ RowRefused \/ RowFailed
  <2>1. batch # {} /\ post # "waiting"
    BY <1>6 DEF RowOk, RowRefused, RowFailed
  <2>2. Posted \in batch
    BY <2>1, PostedCounter DEF Idle, BridgeInv, SpoolInv
  <2>3. PICK rows \in {Deleted(work, Posted), Counted(work, Posted)},
             rest \in {batch \ {Posted}, {}} :
          GoOn(rows, rest)
    BY <1>6 DEF RowOk, RowRefused, RowFailed
  <2>4. SpoolInv'
    BY <2>2, <2>3, GoOnSpool DEF BridgeInv
  <2>5. post' = "none" /\ UNCHANGED <<line, hand>>
    BY <2>3 DEF GoOn
  <2>6. LineInv' /\ PostInv'
    BY <1>0, <2>5 DEF BridgeInv, LineInv, PostInv
  <2>7. QED
    BY <2>1, <2>4, <2>5, <2>6 DEF BridgeInv
<1>7. QED
  BY <1>1, <1>2, <1>3, <1>4, <1>5, <1>6 DEF BridgeLoop, Loop

\* A crash empties all but the file.
LEMMA CrashBridge == BridgeInv /\ BridgeCrash => BridgeInv'
<1> SUFFICES ASSUME BridgeInv, BridgeCrash
             PROVE  BridgeInv'
  OBVIOUS
<1>1. /\ line' = <<>> /\ hand' = <<>> /\ batch' = {} /\ post' = "none"
      /\ work' = spool /\ UNCHANGED <<spool, last>>
  BY DEF BridgeCrash, Crash
<1>2. MaxLine \in Nat /\ MaxBatch \in Nat
  BY BridgeAssumption DEF BridgeAssumption
<1>3. LineInv'
  BY <1>1, <1>2, EmptySeq, SMT DEF BridgeInv, LineInv
<1>4. Cardinality(batch') <= MaxBatch
  BY <1>1, <1>2, FS_EmptySet, SMT
<1>5. SpoolInv'
  BY <1>1, <1>4 DEF BridgeInv, SpoolInv
<1>6. PostInv'
  BY <1>1 DEF PostInv
<1>7. QED
  BY <1>3, <1>5, <1>6 DEF BridgeInv

-----------------------------------------------------------------------------
(* The agent's requests.                                                   *)

\* The transaction of a frame under record id r.
FrameTx(r, f) == RecordTx(r, Passport1, Did1, f, {r, Passport1})

\* The shape of a request.
Request(q) ==
  q \in [fc : {q.fc}, tx : {q.tx}, stale : BOOLEAN, awaited : BOOLEAN]

\* A frame's request: once endorsed, and while not outdated, its transaction is
\* one the chaincode would make.
FrameOk(q) ==
  /\ q.fc \in Counters
  /\ \/ q.tx = NoTx
     \/ \E r \in ClientIds :
          /\ q.tx = FrameTx(r, q.fc)
          /\ q.stale \/ CanRecord(r, Passport1, Did1, q.fc)

\* The records a transaction writes have a status, which the listener can show.
Shown(t) ==
  \A r \in DOMAIN t.writes \cap Ids : t.writes[r].status \in {"VALID", "INVALIDATED"}

\* An operator's call likewise, which the bridge does not wait for.
OperatorOk(q) ==
  /\ ~ q.awaited /\ q.tx # NoTx
  /\ Shown(q.tx)
  /\ q.stale \/ IsInvalidate(q.tx) \/ IsReset(q.tx)

RequestOk(q) == Request(q) /\ (FrameOk(q) \/ OperatorOk(q))

RequestsInv ==
  /\ IsFiniteSet(requests) /\ Cardinality(requests) <= MaxRequests
  /\ \A q \in requests : RequestOk(q)

\* The bridge waits for the answer to one request, that of what it has posted.
WaitInv ==
  /\ \A q \in Awaited : q.fc = Posted
  /\ \A q, x \in Awaited : q = x
  /\ post = "waiting" <=> Awaited # {}

AgentInv == RequestsInv /\ WaitInv

\* What the transaction of a frame reads and writes.
LEMMA FrameTxIs ==
  ASSUME NEW r, NEW f
  PROVE  /\ FrameTx(r, f) # NoTx
         /\ FrameTx(r, f).op = "record"
         /\ FrameTx(r, f).reads = {Did1, r, Passport1}
         /\ DOMAIN FrameTx(r, f).writes = {r, Did1}
         /\ FrameTx(r, f).writes[r] = BmuRecord(Passport1, Did1, f, "VALID")
<1>1. FrameTx(r, f).op = "record" /\ NoTx.op = "none"
  BY DEF FrameTx, RecordTx, Tx, NoTx
<1>2. FrameTx(r, f).reads = {Did1} \cup {r, Passport1}
  BY DEF FrameTx, RecordTx, Tx
<1>3. FrameTx(r, f).writes =
        Write2(r, BmuRecord(Passport1, Did1, f, "VALID"),
               Did1, Binding(Passport1, f))
  BY DEF FrameTx, RecordTx, Tx
<1>4. /\ DOMAIN FrameTx(r, f).writes = {r, Did1}
      /\ FrameTx(r, f).writes[r] = BmuRecord(Passport1, Did1, f, "VALID")
  BY <1>3, Zenon DEF Write2
<1>5. FrameTx(r, f) # NoTx
  BY <1>1
<1>6. QED
  BY <1>1, <1>2, <1>4, <1>5

\* A request marked, endorsed or given up keeps its other fields.
LEMMA Marked ==
  ASSUME NEW q, Request(q),
         NEW y, y = [q EXCEPT !.stale = TRUE]
  PROVE  /\ Request(y) /\ y.stale
         /\ y.fc = q.fc /\ y.tx = q.tx /\ y.awaited = q.awaited
<1>0. q \in [fc : {q.fc}, tx : {q.tx}, stale : BOOLEAN, awaited : BOOLEAN]
  BY DEF Request
<1>1. y \in [fc : {q.fc}, tx : {q.tx}, stale : BOOLEAN, awaited : BOOLEAN]
  BY <1>0
<1>2. y.fc = q.fc
  BY <1>0
<1>3. y.tx = q.tx
  BY <1>0
<1>4. y.awaited = q.awaited
  BY <1>0
<1>5. y.stale = TRUE
  BY <1>0
<1>6. Request(y)
  BY <1>1, <1>2, <1>3, Zenon DEF Request
<1>7. QED
  BY <1>2, <1>3, <1>4, <1>5, <1>6, Zenon

\* The endorsement of a request leaves all but its transaction.
LEMMA WithTx ==
  ASSUME NEW q, Request(q), NEW t,
         NEW y, y = [q EXCEPT !.tx = t]
  PROVE  /\ Request(y)
         /\ y.fc = q.fc /\ y.tx = t /\ y.awaited = q.awaited
<1>0. q \in [fc : {q.fc}, tx : {q.tx}, stale : BOOLEAN, awaited : BOOLEAN]
  BY DEF Request
<1>1. y \in [fc : {q.fc}, tx : {t}, stale : BOOLEAN, awaited : BOOLEAN]
  BY <1>0
<1>2. y.fc = q.fc
  BY <1>0
<1>3. y.tx = t
  BY <1>0
<1>4. y.awaited = q.awaited
  BY <1>0
<1>5. Request(y)
  BY <1>1, <1>2, <1>3, Zenon DEF Request
<1>6. QED
  BY <1>2, <1>3, <1>4, <1>5, Zenon

\* A request nobody waits for any more is otherwise what it was.
LEMMA GivenUp ==
  ASSUME NEW q, Request(q),
         NEW y, y = [q EXCEPT !.awaited = FALSE]
  PROVE  /\ Request(y) /\ ~ y.awaited
         /\ y.fc = q.fc /\ y.tx = q.tx /\ y.stale = q.stale
<1>0. q \in [fc : {q.fc}, tx : {q.tx}, stale : BOOLEAN, awaited : BOOLEAN]
  BY DEF Request
<1>1. y \in [fc : {q.fc}, tx : {q.tx}, stale : BOOLEAN, awaited : BOOLEAN]
  BY <1>0
<1>2. y.fc = q.fc
  BY <1>0
<1>3. y.tx = q.tx
  BY <1>0
<1>4. y.stale = q.stale
  BY <1>0
<1>5. ~ y.awaited
  BY <1>0
<1>6. Request(y)
  BY <1>1, <1>2, <1>3, Zenon DEF Request
<1>7. QED
  BY <1>2, <1>3, <1>4, <1>5, <1>6, Zenon

\* The keys of the path.
LEMMA PathKeys ==
  /\ Did1 \in Dids /\ Did1 \in Keys /\ Did1 \notin Ids
  /\ \A r \in ClientIds : r \in Ids /\ r \in Keys /\ r # Did1
  /\ ClientIds \cap AutoIds = {} /\ Records = Ids
BY PathAssumption, LedgerAssumption
   DEF PathAssumption, LedgerAssumption, Keys, Ids

\* A transaction that takes effect marks the requests it outdates; the others are
\* still calls the chaincode would make, since nothing they have read changes.
LEMMA RequestAfter ==
  ASSUME TypeOK, NEW t, Callable(t), Apply(t), NEW q, RequestOk(q),
         NEW y, y = IF Endorsed(q) /\ q.tx.reads \cap DOMAIN t.writes # {}
                    THEN [q EXCEPT !.stale = TRUE] ELSE q
  PROVE  RequestOk(y)' /\ y.fc = q.fc /\ y.awaited = q.awaited
<1>1. Request(q)
  BY DEF RequestOk
<1>2. CASE ~ Endorsed(q)
  <2>1. y = q /\ q.tx = NoTx /\ FrameOk(q)
    BY <1>2 DEF Endorsed, RequestOk, OperatorOk
  <2>2. QED
    BY <1>1, <2>1 DEF RequestOk, Request, FrameOk
<1>3. CASE Endorsed(q) /\ q.tx.reads \cap DOMAIN t.writes # {}
  <2>1. /\ Request(y) /\ y.stale
        /\ y.fc = q.fc /\ y.tx = q.tx /\ y.awaited = q.awaited
    BY <1>1, <1>3, Marked
  <2>2. FrameOk(q) => FrameOk(y)'
    BY <1>3, <2>1 DEF FrameOk, Endorsed
  <2>3. OperatorOk(q) => OperatorOk(y)'
    BY <2>1 DEF OperatorOk
  <2>4. QED
    BY <2>1, <2>2, <2>3 DEF RequestOk, Request
<1>4. CASE Endorsed(q) /\ q.tx.reads \cap DOMAIN t.writes = {}
  <2>1. y = q
    BY <1>4
  <2>2. ASSUME FrameOk(q)
        PROVE  FrameOk(q)'
    <3>1. PICK r \in ClientIds :
            /\ q.tx = FrameTx(r, q.fc)
            /\ q.stale \/ CanRecord(r, Passport1, Did1, q.fc)
      BY <1>4, <2>2 DEF FrameOk, Endorsed
    <3>2. Did1 \notin DOMAIN t.writes /\ r \notin DOMAIN t.writes
      BY <1>4, <3>1, FrameTxIs
    <3>3. r \in Ids /\ Did1 \in Dids
      BY PathKeys
    <3>4. CanRecord(r, Passport1, Did1, q.fc)
            => CanRecord(r, Passport1, Did1, q.fc)'
      BY <3>2, <3>3, RecordStill
    <3>5. QED
      BY <2>2, <3>1, <3>4 DEF FrameOk
  <2>3. ASSUME OperatorOk(q)
        PROVE  OperatorOk(q)'
    <3>1. CASE q.stale
      BY <2>3, <3>1 DEF OperatorOk
    <3>2. CASE IsInvalidate(q.tx)
      <4>1. IsInvalidate(q.tx)'
        BY <1>4, <3>2, InvalidateKept DEF IsInvalidate
      <4>2. QED
        BY <2>3, <4>1 DEF OperatorOk
    <3>3. CASE IsReset(q.tx)
      <4>1. IsReset(q.tx)'
        BY <1>4, <3>3, ResetKept DEF IsReset
      <4>2. QED
        BY <2>3, <4>1 DEF OperatorOk
    <3>4. QED
      BY <2>3, <3>1, <3>2, <3>3 DEF OperatorOk
  <2>4. QED
    BY <1>1, <2>1, <2>2, <2>3 DEF RequestOk, Request
<1>5. QED
  BY <1>2, <1>3, <1>4

\* Without a transaction that takes effect nothing changes for a request.
LEMMA RequestKept ==
  ASSUME TypeOK, UNCHANGED world, NEW q, RequestOk(q)
  PROVE  RequestOk(q)'
<1>1. FrameOk(q) => FrameOk(q)'
  BY DEF FrameOk, CanRecord, NextFc, Bound
<1>2. OperatorOk(q) => OperatorOk(q)'
  BY CallsSame DEF OperatorOk
<1>3. QED
  BY <1>1, <1>2 DEF RequestOk, Request

\* Requests that are answered, endorsed, outdated or given up: each of the new
\* ones comes from one of the old, for the same frame, and is awaited only if
\* that one was.
LEMMA RequestsAfter ==
  ASSUME AgentInv, NEW D \in SUBSET requests, NEW g,
         requests' = {g[q] : q \in D},
         \A q \in D : /\ RequestOk(g[q])'
                      /\ g[q].fc = q.fc
                      /\ g[q].awaited => q.awaited
  PROVE  /\ RequestsInv'
         /\ \A y \in Awaited' : y.fc = Posted
         /\ \A y, z \in Awaited' : y = z
         /\ \A y \in Awaited' : \E q \in D \cap Awaited : y = g[q]
<1>1. ASSUME NEW y \in Awaited'
      PROVE  \E q \in D \cap Awaited : y = g[q]
  BY DEF Awaited
<1>2. \A y \in Awaited' : y.fc = Posted
  BY <1>1 DEF AgentInv, WaitInv
<1>3. \A y, z \in Awaited' : y = z
  BY <1>1 DEF AgentInv, WaitInv
<1>4. IsFiniteSet(requests') /\ Cardinality(requests') <= MaxRequests
  <2>1. IsFiniteSet(requests) /\ Cardinality(requests) <= MaxRequests
    BY DEF AgentInv, RequestsInv
  <2>2. IsFiniteSet(D) /\ Cardinality(D) <= Cardinality(requests)
    BY <2>1, FS_Subset
  <2> DEFINE h == [q \in D |-> g[q]]
  <2>3. h \in Surjection(D, requests')
    BY DEF Surjection
  <2>4. IsFiniteSet(requests') /\ Cardinality(requests') <= Cardinality(D)
    <3> HIDE DEF h
    <3> QED  BY <2>2, <2>3, FS_Surjection
  <2>5. /\ Cardinality(requests') \in Nat /\ Cardinality(D) \in Nat
        /\ Cardinality(requests) \in Nat /\ MaxRequests \in Nat
    BY <2>1, <2>2, <2>4, FS_CardinalityType, PathAssumption DEF PathAssumption
  <2>6. \A a, b, c, d \in Nat : a <= b /\ b <= c /\ c <= d => a <= d
    BY SMT
  <2>7. QED
    BY <2>1, <2>2, <2>4, <2>5, <2>6, Zenon
<1>5. RequestsInv'
  BY <1>4 DEF RequestsInv
<1>6. QED
  BY <1>1, <1>2, <1>3, <1>5

\* While the bridge waits, what it has posted stays the same.
LEMMA AwaitedPosted ==
  ASSUME BridgeInv, AgentInv, Awaited # {}, UNCHANGED <<hand, batch>>
  PROVE  Posted' = Posted
<1>1. ~ Idle
  BY DEF AgentInv, WaitInv, BridgeInv, PostInv
<1>2. QED
  BY <1>1, PostedSame

\* A request is answered, and the others stay or are outdated.
LEMMA AnsweredAgent ==
  ASSUME BridgeInv, AgentInv, NEW q \in requests,
         NEW outcome \in {"ok", "permanent", "transient"}, Answer(q, outcome),
         NEW g, requests' = {g[x] : x \in requests \ {q}},
         \A x \in requests \ {q} : /\ RequestOk(g[x])'
                                   /\ g[x].fc = x.fc
                                   /\ g[x].awaited = x.awaited,
         UNCHANGED <<hand, batch>>
  PROVE  AgentInv'
<1>1. /\ RequestsInv'
      /\ \A y \in Awaited' : y.fc = Posted
      /\ \A y, z \in Awaited' : y = z
      /\ \A y \in Awaited' : \E x \in (requests \ {q}) \cap Awaited : y = g[x]
  <2>1. requests \ {q} \in SUBSET requests
    OBVIOUS
  <2>2. \A x \in requests \ {q} : /\ RequestOk(g[x])'
                                  /\ g[x].fc = x.fc
                                  /\ g[x].awaited => x.awaited
    OBVIOUS
  <2>3. QED
    BY <2>1, <2>2, RequestsAfter
<1>2. \A y \in Awaited' : y.fc = Posted'
  <2>1. CASE Awaited' = {}
    BY <2>1
  <2>2. CASE Awaited' # {}
    BY <1>1, <2>2, AwaitedPosted
  <2>3. QED
    BY <2>1, <2>2
<1>3. post' = "waiting" <=> Awaited' # {}
  <2>1. CASE q.awaited
    <3>1. (requests \ {q}) \cap Awaited = {}
      BY <2>1 DEF AgentInv, WaitInv, Awaited
    <3>2. Awaited' = {}
      BY <1>1, <3>1
    <3>3. QED
      BY <2>1, <3>2 DEF Answer
  <2>2. CASE ~ q.awaited
    <3>1. post' = post
      BY <2>2 DEF Answer
    <3>2. Awaited # {} => Awaited' # {}
      <4>1. ASSUME NEW x \in Awaited
            PROVE  g[x] \in Awaited'
        BY <2>2 DEF Awaited
      <4>2. QED
        BY <4>1
    <3>3. Awaited' # {} => Awaited # {}
      BY <1>1
    <3>4. QED
      BY <3>1, <3>2, <3>3 DEF AgentInv, WaitInv
  <2>3. QED
    BY <2>1, <2>2
<1>4. QED
  BY <1>1, <1>2, <1>3 DEF AgentInv, WaitInv

\* Nobody has asked yet.
LEMMA AgentInvInit == requests = {} /\ post = "none" => AgentInv
<1> SUFFICES ASSUME requests = {}, post = "none"
             PROVE  AgentInv
  OBVIOUS
<1>1. IsFiniteSet(requests) /\ Cardinality(requests) <= MaxRequests
  <2>1. MaxRequests \in Nat
    BY PathAssumption DEF PathAssumption
  <2>2. IsFiniteSet(requests) /\ Cardinality(requests) = 0
    BY FS_EmptySet
  <2>3. QED
    BY <2>1, <2>2, SMT
<1>2. Awaited = {}
  BY DEF Awaited
<1>3. QED
  BY <1>1, <1>2 DEF AgentInv, RequestsInv, WaitInv

\* No request changes: the bridge goes on waiting for the same frame, or goes on
\* without waiting.
LEMMA AgentKept ==
  ASSUME TypeOK, BridgeInv, AgentInv, UNCHANGED <<world, requests>>,
         \/ UNCHANGED <<hand, batch, post>>
         \/ post # "waiting" /\ post' # "waiting"
  PROVE  AgentInv'
<1>1. RequestsInv'
  BY RequestKept DEF AgentInv, RequestsInv
<1>2. Awaited' = Awaited
  BY DEF Awaited
<1>3. CASE Awaited = {}
  BY <1>1, <1>2, <1>3 DEF AgentInv, WaitInv
<1>4. CASE Awaited # {}
  <2>1. post = "waiting"
    BY <1>4 DEF AgentInv, WaitInv
  <2>2. Posted' = Posted /\ post' = post
    BY <1>4, <2>1, AwaitedPosted
  <2>3. QED
    BY <1>1, <1>2, <2>2 DEF AgentInv, WaitInv
<1>5. QED
  BY <1>3, <1>4

\* A request more.
LEMMA AddedRequest ==
  ASSUME TypeOK, RequestsInv, UNCHANGED world, Cardinality(requests) < MaxRequests,
         NEW new, RequestOk(new)', requests' = requests \cup {new}
  PROVE  RequestsInv'
<1>1. IsFiniteSet(requests') /\ Cardinality(requests') <= MaxRequests
  <2>1. IsFiniteSet(requests)
    BY DEF RequestsInv
  <2>2. /\ IsFiniteSet(requests \cup {new})
        /\ \/ Cardinality(requests \cup {new}) = Cardinality(requests)
           \/ Cardinality(requests \cup {new}) = Cardinality(requests) + 1
    BY <2>1, FS_AddElement
  <2>3. Cardinality(requests) \in Nat /\ MaxRequests \in Nat
    BY <2>1, FS_CardinalityType, PathAssumption DEF PathAssumption
  <2>4. QED
    BY <2>2, <2>3, SMT
<1>2. \A q \in requests' : RequestOk(q)'
  BY RequestKept DEF RequestsInv
<1>3. QED
  BY <1>1, <1>2 DEF RequestsInv

\* A post: a request more, and the only one that is awaited.
LEMMA SendAgent ==
  TypeOK /\ BridgeInv /\ AgentInv /\ SendRequest => AgentInv'
<1> SUFFICES ASSUME TypeOK, BridgeInv, AgentInv, SendRequest
             PROVE  AgentInv'
  OBVIOUS
<1>0. PICK new : new =
        [fc |-> Posted, tx |-> NoTx, stale |-> FALSE, awaited |-> TRUE]
  OBVIOUS
<1>1. /\ Cardinality(requests) < MaxRequests /\ requests' = requests \cup {new}
      /\ ~ Idle /\ post = "none" /\ post' = "waiting"
      /\ UNCHANGED <<world, hand, batch>>
  BY <1>0 DEF SendRequest, Send, ledger
<1>2. Posted \in Counters
  BY <1>1, PostedCounter
<1>3. /\ Request(new) /\ new.tx = NoTx /\ new.fc = Posted /\ new.awaited
  BY <1>0 DEF Request
<1>4. RequestOk(new)'
  BY <1>2, <1>3 DEF RequestOk, FrameOk, Request
<1>5. Awaited = {}
  BY <1>1 DEF AgentInv, WaitInv
<1>6. Awaited' = {new}
  BY <1>1, <1>3, <1>5 DEF Awaited
<1>7. Posted' = Posted
  BY <1>1, PostedSame
<1>8. RequestsInv'
  BY <1>1, <1>4, AddedRequest DEF AgentInv
<1>9. WaitInv'
  BY <1>1, <1>3, <1>6, <1>7 DEF WaitInv
<1>10. QED
  BY <1>8, <1>9 DEF AgentInv

\* An invalidation writes its record, invalidated, and no other; a reset writes
\* none.
LEMMA InvalidateShown ==
  ASSUME TypeOK, NEW r \in Ids, CanInvalidate(r)
  PROVE  Shown(InvalidateTx(r)) /\ InvalidateTx(r) # NoTx
<1>1. Recorded(r)
  BY DEF CanInvalidate, Valid
<1>2. world[r].did \in Dids /\ r \notin Dids /\ world[r].did \notin Ids
  BY <1>1, RecordShape, RecordKey, DidKey
<1>3. Invalidated(r).status = "INVALIDATED"
  BY <1>1, InvalidatedShape DEF BmuRecord
<1>4. /\ DOMAIN InvalidateTx(r).writes \cap Ids \subseteq {r}
      /\ r \in DOMAIN InvalidateTx(r).writes
      /\ InvalidateTx(r).writes[r] = Invalidated(r)
  BY <1>2 DEF InvalidateTx, Tx, Write, Write2
<1>5. InvalidateTx(r).op = "invalidate" /\ NoTx.op = "none"
  BY DEF InvalidateTx, Tx, NoTx
<1>6. QED
  BY <1>3, <1>4, <1>5 DEF Shown

LEMMA ResetShown == Shown(ResetTx(Did1)) /\ ResetTx(Did1) # NoTx
<1>1. DOMAIN ResetTx(Did1).writes \cap Ids = {}
  BY PathKeys DEF ResetTx, Tx, Write
<1>2. ResetTx(Did1).op = "reset" /\ NoTx.op = "none"
  BY DEF ResetTx, Tx, NoTx
<1>3. QED
  BY <1>1, <1>2 DEF Shown

\* An operator's call is endorsed: a request more that nobody waits for.
LEMMA OperatorAgent ==
  ASSUME TypeOK, BridgeInv, AgentInv, NEW t, OperatorSubmits(t), t # NoTx,
         Shown(t), IsInvalidate(t) \/ IsReset(t)
  PROVE  AgentInv'
<1>0. PICK new : new =
        [fc |-> NoFc, tx |-> t, stale |-> FALSE, awaited |-> FALSE]
  OBVIOUS
<1>1. /\ Cardinality(requests) < MaxRequests /\ requests' = requests \cup {new}
      /\ UNCHANGED <<world, hand, batch, post>>
  BY <1>0 DEF OperatorSubmits, ledger, bridge
<1>2. Request(new) /\ new.tx = t /\ ~ new.awaited
  BY <1>0 DEF Request
<1>3. RequestOk(new)
  BY <1>2 DEF RequestOk, OperatorOk
<1>4. RequestOk(new)'
  BY <1>1, <1>3, RequestKept
<1>5. RequestsInv'
  BY <1>1, <1>4, AddedRequest DEF AgentInv
<1>6. Awaited' = Awaited
  BY <1>1, <1>2 DEF Awaited
<1>7. Awaited # {} => Posted' = Posted
  BY <1>1, AwaitedPosted
<1>8. WaitInv'
  BY <1>1, <1>6, <1>7 DEF AgentInv, WaitInv
<1>9. QED
  BY <1>5, <1>8 DEF AgentInv

\* A request is answered and leaves the others alone.
LEMMA LeaveAgent ==
  ASSUME TypeOK, BridgeInv, AgentInv, NEW q \in requests,
         NEW outcome \in {"ok", "permanent", "transient"}, Answer(q, outcome),
         requests' = requests \ {q}, UNCHANGED world
  PROVE  AgentInv'
<1>0. PICK g : g = [x \in requests |-> x]
  OBVIOUS
<1>1. requests' = {g[x] : x \in requests \ {q}}
  BY <1>0
<1>2. \A x \in requests \ {q} : RequestOk(g[x])' /\ g[x].fc = x.fc
                                  /\ g[x].awaited = x.awaited
  BY <1>0, RequestKept DEF AgentInv, RequestsInv
<1>3. UNCHANGED <<hand, batch>>
  BY DEF Answer
<1>4. QED
  BY <1>1, <1>2, <1>3, AnsweredAgent

\* All requests stay, changed or not, and are awaited as before.
LEMMA ChangedAgent ==
  ASSUME BridgeInv, AgentInv, UNCHANGED <<hand, batch, post>>,
         NEW g, requests' = {g[x] : x \in requests},
         \A x \in requests : /\ RequestOk(g[x])'
                             /\ g[x].fc = x.fc
                             /\ g[x].awaited = x.awaited
  PROVE  AgentInv'
<1>1. /\ RequestsInv'
      /\ \A y \in Awaited' : y.fc = Posted
      /\ \A y, z \in Awaited' : y = z
      /\ \A y \in Awaited' : \E x \in requests \cap Awaited : y = g[x]
  <2>1. requests \in SUBSET requests
    OBVIOUS
  <2>2. \A x \in requests : /\ RequestOk(g[x])'
                            /\ g[x].fc = x.fc
                            /\ g[x].awaited => x.awaited
    OBVIOUS
  <2>3. QED
    BY <2>1, <2>2, RequestsAfter
<1>2. Awaited' # {} <=> Awaited # {}
  <2>1. ASSUME NEW x \in Awaited
        PROVE  g[x] \in Awaited'
    BY DEF Awaited
  <2>2. QED
    BY <1>1, <2>1
<1>3. \A y \in Awaited' : y.fc = Posted'
  <2>1. CASE Awaited' = {}
    BY <2>1
  <2>2. CASE Awaited' # {}
    BY <1>1, <1>2, <2>2, AwaitedPosted
  <2>3. QED
    BY <2>1, <2>2
<1>4. QED
  BY <1>1, <1>2, <1>3 DEF AgentInv, WaitInv

\* An endorsement gives a request the transaction it could make right now.
LEMMA EndorseAgent ==
  TypeOK /\ BridgeInv /\ AgentInv /\ EndorseRequest => AgentInv'
<1> SUFFICES ASSUME TypeOK, BridgeInv, AgentInv,
                    NEW q \in requests, NEW r \in ClientIds, ~ Endorsed(q),
                    CanRecord(r, Passport1, Did1, q.fc),
                    requests' = (requests \ {q}) \cup
                      {[q EXCEPT !.tx = FrameTx(r, q.fc)]},
                    UNCHANGED <<ledger, bridge>>
             PROVE  AgentInv'
  BY DEF EndorseRequest, FrameTx
<1>0. PICK e : e = [q EXCEPT !.tx = FrameTx(r, q.fc)]
  OBVIOUS
<1>1. Request(q)
  BY DEF AgentInv, RequestsInv, RequestOk
<1>2. q.fc \in Counters
  BY DEF AgentInv, RequestsInv, RequestOk, Endorsed, FrameOk, OperatorOk
<1>3. /\ Request(e) /\ e.tx = FrameTx(r, q.fc)
      /\ e.fc = q.fc /\ e.awaited = q.awaited
  BY <1>0, <1>1, WithTx
<1>4. UNCHANGED <<world, hand, batch, post>>
  BY DEF ledger, bridge
<1>5. RequestOk(e)'
  <2>1. RequestOk(e)
    BY <1>2, <1>3 DEF RequestOk, FrameOk
  <2>2. QED
    BY <1>4, <2>1, RequestKept
<1>6. PICK g : g = [x \in requests |-> IF x = q THEN e ELSE x]
  OBVIOUS
<1>7. requests' = {g[x] : x \in requests}
  BY <1>0, <1>6
<1>8. ASSUME NEW x \in requests
      PROVE  RequestOk(g[x])' /\ g[x].fc = x.fc /\ g[x].awaited = x.awaited
  <2>1. CASE x = q
    BY <1>3, <1>5, <1>6, <2>1
  <2>2. CASE x # q
    BY <1>4, <1>6, <2>2, RequestKept DEF AgentInv, RequestsInv
  <2>3. QED
    BY <2>1, <2>2
<1>9. QED
  BY <1>4, <1>7, <1>8, ChangedAgent

\* Five seconds are over: the request that was awaited goes on alone.
LEMMA TimeOutAgent ==
  TypeOK /\ BridgeInv /\ AgentInv /\ TimeOut => AgentInv'
<1> SUFFICES ASSUME TypeOK, BridgeInv, AgentInv, NEW q \in Awaited,
                    requests' = (requests \ {q}) \cup
                                  {[q EXCEPT !.awaited = FALSE]},
                    Answer(q, "transient"), UNCHANGED ledger
             PROVE  AgentInv'
  BY DEF TimeOut
<1>0. PICK u, g : /\ u = [q EXCEPT !.awaited = FALSE]
                  /\ g = [x \in requests |-> IF x = q THEN u ELSE x]
  OBVIOUS
<1>1. q \in requests /\ q.awaited /\ Request(q) /\ RequestOk(q)
  BY DEF AgentInv, RequestsInv, RequestOk, Awaited
<1>2. /\ Request(u) /\ u.fc = q.fc /\ u.tx = q.tx /\ u.stale = q.stale
      /\ ~ u.awaited
  BY <1>0, <1>1, GivenUp
<1>3. post' = "transient" /\ UNCHANGED <<world, hand, batch>>
  BY <1>1 DEF Answer, ledger
<1>4. RequestOk(u)'
  <2>1. RequestOk(u)
    BY <1>1, <1>2 DEF RequestOk, FrameOk, OperatorOk
  <2>2. QED
    BY <1>3, <2>1, RequestKept
<1>5. requests' = {g[x] : x \in requests}
  BY <1>0, <1>1
<1>6. ASSUME NEW x \in requests
      PROVE  RequestOk(g[x])' /\ g[x].fc = x.fc /\ (g[x].awaited => x.awaited)
  <2>1. CASE x = q
    BY <1>0, <1>2, <1>4, <2>1
  <2>2. CASE x # q
    BY <1>0, <1>3, <2>2, RequestKept DEF AgentInv, RequestsInv
  <2>3. QED
    BY <2>1, <2>2
<1>7. \A x \in Awaited : g[x] = u
  BY <1>0, <1>1 DEF AgentInv, WaitInv, Awaited
<1>8. /\ RequestsInv'
      /\ \A y \in Awaited' : \E x \in requests \cap Awaited : y = g[x]
  <2>1. requests \in SUBSET requests
    OBVIOUS
  <2>2. \A x \in requests : /\ RequestOk(g[x])'
                            /\ g[x].fc = x.fc
                            /\ g[x].awaited => x.awaited
    BY <1>6
  <2>3. QED
    BY <1>5, <2>1, <2>2, RequestsAfter
<1>9. Awaited' = {}
  BY <1>2, <1>7, <1>8 DEF Awaited
<1>10. QED
  BY <1>3, <1>8, <1>9 DEF AgentInv, WaitInv

\* A crash of the bridge gives up every request.
LEMMA CrashAgent ==
  TypeOK /\ BridgeInv /\ AgentInv /\ BridgeCrash => AgentInv'
<1> SUFFICES ASSUME TypeOK, BridgeInv, AgentInv, BridgeCrash
             PROVE  AgentInv'
  OBVIOUS
<1>0. PICK g : g = [x \in requests |-> [x EXCEPT !.awaited = FALSE]]
  OBVIOUS
<1>1. requests' = {g[x] : x \in requests} /\ UNCHANGED world /\ post' = "none"
  BY <1>0 DEF BridgeCrash, Crash, ledger
<1>2. ASSUME NEW x \in requests
      PROVE  RequestOk(g[x])' /\ g[x].fc = x.fc /\ ~ g[x].awaited
  <2>1. RequestOk(x) /\ Request(x)
    BY DEF AgentInv, RequestsInv, RequestOk
  <2> DEFINE u == [x EXCEPT !.awaited = FALSE]
  <2>2. /\ Request(u) /\ u.fc = x.fc /\ u.tx = x.tx /\ u.stale = x.stale
        /\ ~ u.awaited
    BY <2>1, GivenUp
  <2>3. g[x] = u
    BY <1>0
  <2> HIDE DEF u
  <2>4. RequestOk(u)
    BY <2>1, <2>2 DEF RequestOk, FrameOk, OperatorOk
  <2>5. RequestOk(u)'
    BY <1>1, <2>4, RequestKept
  <2>6. QED
    BY <2>2, <2>3, <2>5
<1>3. /\ RequestsInv'
      /\ \A y \in Awaited' : \E x \in requests \cap Awaited : y = g[x]
  <2>1. requests \in SUBSET requests
    OBVIOUS
  <2>2. \A x \in requests : /\ RequestOk(g[x])'
                            /\ g[x].fc = x.fc
                            /\ g[x].awaited => x.awaited
    BY <1>2
  <2>3. QED
    BY <1>1, <2>1, <2>2, RequestsAfter
<1>4. Awaited' = {}
  BY <1>2, <1>3 DEF Awaited
<1>5. QED
  BY <1>1, <1>3, <1>4 DEF AgentInv, WaitInv

\* A transaction that is committed without having been outdated is a call of the
\* chaincode in the state it commits to.
LEMMA CommitCalls ==
  ASSUME AgentInv, NEW q \in requests, Endorsed(q), ~ q.stale
  PROVE  Callable(q.tx)
<1>1. RequestOk(q) /\ q.tx # NoTx
  BY DEF AgentInv, RequestsInv, Endorsed
<1>2. CASE OperatorOk(q)
  BY <1>2 DEF OperatorOk, Callable
<1>3. CASE FrameOk(q)
  <2>1. PICK r \in ClientIds : /\ q.tx = FrameTx(r, q.fc)
                               /\ CanRecord(r, Passport1, Did1, q.fc)
    BY <1>1, <1>3 DEF FrameOk
  <2>2. r \in Ids /\ {r, Passport1} \in LookUps(r, Passport1)
    BY PathKeys DEF LookUps
  <2>3. Passport1 \in Passports /\ Did1 \in Dids /\ q.fc \in Counters
    BY <1>3, PathAssumption DEF PathAssumption, FrameOk
  <2>4. IsRecord(q.tx)
    BY <2>1, <2>2, <2>3 DEF IsRecord, FrameTx
  <2>5. QED
    BY <2>4 DEF Callable
<1>4. QED
  BY <1>1, <1>2, <1>3 DEF RequestOk

\* What a transaction that takes effect makes of the requests at hand.
LEMMA EffectAgent ==
  ASSUME TypeOK, AgentInv, NEW D \in SUBSET requests,
         NEW t, Callable(t), TakesEffect(t, D)
  PROVE  \E g : /\ requests' = {g[x] : x \in D}
                /\ \A x \in D : /\ RequestOk(g[x])'
                                /\ g[x].fc = x.fc
                                /\ g[x].awaited = x.awaited
<1>0. PICK g : g = [x \in D |->
                   IF Endorsed(x) /\ x.tx.reads \cap DOMAIN t.writes # {}
                   THEN [x EXCEPT !.stale = TRUE] ELSE x]
  OBVIOUS
<1>1. Apply(t) /\ requests' = {g[x] : x \in D}
  BY <1>0 DEF TakesEffect, Outdated
<1>2. ASSUME NEW x \in D
      PROVE  RequestOk(g[x])' /\ g[x].fc = x.fc /\ g[x].awaited = x.awaited
  <2>1. RequestOk(x)
    BY DEF AgentInv, RequestsInv
  <2>2. g[x] = IF Endorsed(x) /\ x.tx.reads \cap DOMAIN t.writes # {}
               THEN [x EXCEPT !.stale = TRUE] ELSE x
    BY <1>0
  <2>3. QED
    BY <1>1, <2>1, <2>2, RequestAfter
<1>3. QED
  BY <1>1, <1>2

\* A request's transaction takes effect and is answered.
LEMMA CommitAgent ==
  TypeOK /\ BridgeInv /\ AgentInv /\ CommitRequest => AgentInv'
<1> SUFFICES ASSUME TypeOK, BridgeInv, AgentInv, NEW q \in requests,
                    Endorsed(q), ~ q.stale,
                    TakesEffect(q.tx, requests \ {q}), Answer(q, "ok")
             PROVE  AgentInv'
  BY DEF CommitRequest
<1>0. Callable(q.tx)
  BY CommitCalls
<1>1. requests \ {q} \in SUBSET requests
  OBVIOUS
<1>2. PICK g : /\ requests' = {g[x] : x \in requests \ {q}}
               /\ \A x \in requests \ {q} : /\ RequestOk(g[x])'
                                            /\ g[x].fc = x.fc
                                            /\ g[x].awaited = x.awaited
  BY <1>0, <1>1, EffectAgent
<1>3. UNCHANGED <<hand, batch>>
  BY DEF Answer
<1>4. QED
  BY <1>2, <1>3, AnsweredAgent

\* An update of the passport outdates what has read it, and nothing else.
LEMMA UpdateAgent ==
  TypeOK /\ BridgeInv /\ AgentInv /\ OrganisationUpdates => AgentInv'
<1> SUFFICES ASSUME TypeOK, BridgeInv, AgentInv,
                    requests' = Outdated(requests, {Passport1}),
                    UNCHANGED <<ledger, bridge>>
             PROVE  AgentInv'
  BY DEF OrganisationUpdates
<1>0. PICK g : g = [x \in requests |->
                   IF Endorsed(x) /\ x.tx.reads \cap {Passport1} # {}
                   THEN [x EXCEPT !.stale = TRUE] ELSE x]
  OBVIOUS
<1>1. requests' = {g[x] : x \in requests}
  BY <1>0 DEF Outdated
<1>2. UNCHANGED <<world, hand, batch, post>>
  BY DEF ledger, bridge
<1>3. ASSUME NEW x \in requests
      PROVE  RequestOk(g[x])' /\ g[x].fc = x.fc /\ g[x].awaited = x.awaited
  <2>1. RequestOk(x) /\ Request(x)
    BY DEF AgentInv, RequestsInv, RequestOk
  <2>2. RequestOk([x EXCEPT !.stale = TRUE])
    <3>0. PICK y : y = [x EXCEPT !.stale = TRUE]
      OBVIOUS
    <3>1. /\ Request(y) /\ y.stale
          /\ y.fc = x.fc /\ y.tx = x.tx /\ y.awaited = x.awaited
      BY <2>1, <3>0, Marked
    <3>2. RequestOk(y)
      BY <2>1, <3>1 DEF RequestOk, FrameOk, OperatorOk
    <3>3. QED
      BY <3>0, <3>2
  <2>3. g[x] = [x EXCEPT !.stale = TRUE] \/ g[x] = x
    BY <1>0
  <2>4. g[x].fc = x.fc /\ g[x].awaited = x.awaited
    BY <2>1, <2>3, Marked
  <2>5. RequestOk(g[x])
    BY <2>1, <2>2, <2>3
  <2>6. QED
    BY <1>2, <2>4, <2>5, RequestKept
<1>4. QED
  BY <1>1, <1>2, <1>3, ChangedAgent

-----------------------------------------------------------------------------
(* The ledger.                                                             *)

\* Every step of the path is a call of the chaincode, or none.
LEMMA LedgerStep == AgentInv /\ [PathNext]_path => [Next]_ledger
<1> SUFFICES ASSUME AgentInv, [PathNext]_path
             PROVE  [Next]_ledger
  OBVIOUS
<1>1. CASE CommitRequest
  <2>1. PICK q \in requests : /\ Endorsed(q) /\ ~ q.stale
                              /\ TakesEffect(q.tx, requests \ {q})
    BY <1>1 DEF CommitRequest
  <2>2. QED
    BY <2>1, CommitCalls, CallIsStep DEF TakesEffect
<1>2. CASE OperatorInvalidates \/ OperatorResets
  BY <1>2 DEF OperatorInvalidates, OperatorResets, OperatorSubmits
<1>3. CASE Emit \/ SendRequest \/ BridgeLoop \/ Listener
  BY <1>3 DEF Emit, SendRequest, BridgeLoop, Listener
<1>4. CASE Refuse \/ EndorseRequest \/ ConflictRequest
  BY <1>4 DEF Refuse, EndorseRequest, ConflictRequest
<1>5. CASE Outage \/ RateLimited \/ TimeOut \/ BridgeCrash \/ ListenerCrash
             \/ OrganisationUpdates
  BY <1>5 DEF Outage, RateLimited, Dismissed, TimeOut, BridgeCrash,
              ListenerCrash, OrganisationUpdates
<1>6. CASE UNCHANGED path
  BY <1>6 DEF path
<1>7. QED
  BY <1>1, <1>2, <1>3, <1>4, <1>5, <1>6
     DEF PathNext, Agent, Disturbance

-----------------------------------------------------------------------------
(* The channel.                                                            *)

\* The block of a transaction whose records have a status.
LEMMA RecordBlockOk ==
  ASSUME NEW t, NEW valid, Shown(t)
  PROVE  BlockOk(RecordBlock(t, valid))
<1>1. Records = Ids
  BY PathKeys
<1>2. /\ RecordBlock(t, valid).passport = FALSE
      /\ RecordBlock(t, valid).docs =
           [r \in DOMAIN t.writes \cap Ids |-> t.writes[r]]
  BY DEF RecordBlock
<1>3. QED
  BY <1>1, <1>2 DEF BlockOk, Shown

\* A frame writes its record, which is valid.
LEMMA FrameShown ==
  ASSUME NEW r \in ClientIds, NEW f
  PROVE  Shown(FrameTx(r, f))
<1>1. /\ DOMAIN FrameTx(r, f).writes = {r, Did1}
      /\ FrameTx(r, f).writes[r].status = "VALID"
  <2>1. /\ DOMAIN FrameTx(r, f).writes = {r, Did1}
        /\ FrameTx(r, f).writes[r] = BmuRecord(Passport1, Did1, f, "VALID")
    BY FrameTxIs
  <2>2. BmuRecord(Passport1, Did1, f, "VALID").status = "VALID"
    BY DEF BmuRecord
  <2>3. QED
    BY <2>1, <2>2
<1>2. DOMAIN FrameTx(r, f).writes \cap Ids \subseteq {r}
  BY <1>1, PathKeys
<1>3. QED
  BY <1>1, <1>2 DEF Shown

\* The block of a request, whether its transaction is valid or not.
LEMMA RequestBlockOk ==
  ASSUME AgentInv, NEW q \in requests, Endorsed(q), NEW valid
  PROVE  BlockOk(RecordBlock(q.tx, valid))
<1>1. RequestOk(q) /\ q.tx # NoTx
  BY DEF AgentInv, RequestsInv, Endorsed
<1>2. Shown(q.tx)
  BY <1>1, FrameShown DEF RequestOk, FrameOk, OperatorOk
<1>3. QED
  BY <1>2, RecordBlockOk

\* The read model's invariant survives every step of the path.
LEMMA ViewStep ==
  TypeOK /\ AgentInv /\ ViewInv /\ [PathNext]_path => ViewInv'
<1> SUFFICES ASSUME TypeOK, AgentInv, ViewInv, [PathNext]_path
             PROVE  ViewInv'
  OBVIOUS
<1>1. CASE CommitRequest
  <2>1. PICK q \in requests : /\ Endorsed(q) /\ ~ q.stale
                              /\ TakesEffect(q.tx, requests \ {q})
    BY <1>1 DEF CommitRequest
  <2>2. BlockArrives(RecordBlock(q.tx, TRUE))
    BY <2>1 DEF TakesEffect
  <2>3. QED
    BY <2>1, <2>2, RequestBlockOk, BlockArrivesStep
<1>2. CASE ConflictRequest
  <2>1. PICK q \in requests : /\ Endorsed(q)
                              /\ BlockArrives(RecordBlock(q.tx, FALSE))
    BY <1>2 DEF ConflictRequest
  <2>2. QED
    BY <2>1, RequestBlockOk, BlockArrivesStep
<1>3. CASE OrganisationUpdates
  <2>1. PICK b : /\ b = [valid |-> TRUE, passport |-> TRUE,
                         docs |-> [r \in {} |-> None]]
                 /\ BlockArrives(b)
    BY <1>3 DEF OrganisationUpdates
  <2>2. BlockOk(b)
    BY <2>1 DEF BlockOk
  <2>3. QED
    BY <2>1, <2>2, BlockArrivesStep
<1>4. CASE Listener
  BY <1>4, UpsertDocumentsStep, ProjectRecordStep, SaveCheckpointStep
     DEF Listener, Listen
<1>5. CASE ListenerCrash
  BY <1>5, RestartListenerStep DEF ListenerCrash
<1>6. CASE Emit \/ SendRequest \/ BridgeLoop \/ Refuse \/ EndorseRequest
             \/ Outage \/ RateLimited \/ TimeOut \/ BridgeCrash
             \/ OperatorInvalidates \/ OperatorResets
  <2>1. UNCHANGED view
    BY <1>6 DEF Emit, SendRequest, BridgeLoop, Refuse, EndorseRequest,
                Outage, RateLimited, Dismissed, TimeOut, BridgeCrash,
                OperatorInvalidates, OperatorResets, OperatorSubmits
  <2>2. QED
    BY <2>1, ViewKept
<1>7. CASE UNCHANGED path
  BY <1>7, ViewKept DEF path
<1>8. QED
  BY <1>1, <1>2, <1>3, <1>4, <1>5, <1>6, <1>7
     DEF PathNext, Agent, Disturbance

-----------------------------------------------------------------------------
(* No frame vanishes.                                                      *)

\* Where a frame may be.
Held ==
  RecordedFrames \cup DOMAIN spool \cup InSeq(line) \cup InSeq(hand) \cup lost

\* An accepted frame is recorded, and so is every row that the open database
\* transaction has deleted.
KeptInv ==
  /\ post = "ok" => Posted \in RecordedFrames
  /\ DOMAIN spool \subseteq DOMAIN work \cup RecordedFrames

\* What is recorded stays recorded.
LEMMA RecordedStay ==
  ASSUME TypeOK, [Next]_ledger
  PROVE  RecordedFrames \subseteq RecordedFrames'
<1>1. ASSUME NEW r \in Ids, Recorded(r)
      PROVE  Recorded(r)' /\ world'[r].fc = world[r].fc
  BY <1>1, RecordKeepsFields
<1>2. QED
  BY <1>1 DEF RecordedFrames

\* The members of a buffer to which a frame is appended, or whose head is taken.
LEMMA Members ==
  ASSUME NEW s \in Seq(Counters)
  PROVE  /\ \A f \in Counters :
              InSeq(s) \subseteq InSeq(Append(s, f)) /\ f \in InSeq(Append(s, f))
         /\ s # <<>> => InSeq(s) \subseteq {Head(s)} \cup InSeq(Tail(s))
         /\ InSeq(<<>>) = {}
         /\ \A f : InSeq(<<f>>) = {f}
<1>1. ASSUME NEW f \in Counters
      PROVE  InSeq(s) \subseteq InSeq(Append(s, f)) /\ f \in InSeq(Append(s, f))
  <2>1. /\ Len(s) \in Nat /\ DOMAIN s = 1 .. Len(s)
        /\ DOMAIN Append(s, f) = 1 .. (Len(s) + 1)
        /\ \A i \in 1 .. Len(s) : Append(s, f)[i] = s[i]
        /\ Append(s, f)[Len(s) + 1] = f
    BY SMT
  <2>2. Len(s) + 1 \in 1 .. (Len(s) + 1)
        /\ \A i \in 1 .. Len(s) : i \in 1 .. (Len(s) + 1)
    BY <2>1, SMT
  <2>3. QED
    BY <2>1, <2>2, Zenon DEF InSeq
<1>2. ASSUME s # <<>>
      PROVE  InSeq(s) \subseteq {Head(s)} \cup InSeq(Tail(s))
  <2>1. ASSUME NEW i \in 1 .. Len(s), i # 1
        PROVE  i - 1 \in DOMAIN Tail(s) /\ Tail(s)[i - 1] = s[i]
    BY <1>2, <2>1, SMT
  <2>2. DOMAIN s = 1 .. Len(s) /\ Head(s) = s[1]
    BY <1>2, SMT
  <2>3. QED
    BY <2>1, <2>2 DEF InSeq
<1>3. InSeq(<<>>) = {} /\ \A f : InSeq(<<f>>) = {f}
  BY SMT DEF InSeq
<1>4. QED
  BY <1>1, <1>2, <1>3

\* A step of the loop: what is taken from the buffer is in hand, unless it is below
\* --min-fc; what leaves the hand is recorded or spooled; what leaves the spool is
\* recorded.
LEMMA LoopHolds ==
  ASSUME BridgeInv, KeptInv, BridgeLoop
  PROVE  /\ KeptInv'
         /\ \A f \in Held : f \in Held' \/ f < MinFc
         /\ last' = last
<1>0. /\ RecordedFrames' = RecordedFrames /\ last' = last
      /\ post' = "none"
  BY LoopBridge DEF BridgeLoop, ledger, RecordedFrames, Recorded
<1>1. line \in Seq(Counters) /\ hand \in Seq(Counters)
  BY DEF BridgeInv, LineInv
<1>2. CASE Skip
  <2>1. InSeq(line) \subseteq {Head(line)} \cup InSeq(line')
    BY <1>1, <1>2, Members DEF Skip
  <2>2. QED
    BY <1>0, <1>2, <2>1 DEF Skip, Held, KeptInv
<1>3. CASE TakeLine
  <2>1. InSeq(line) \subseteq {Head(line)} \cup InSeq(line')
    BY <1>1, <1>3, Members DEF TakeLine
  <2>2. InSeq(hand') = {Head(line)} /\ InSeq(hand) = {}
    BY <1>1, <1>3, Members DEF TakeLine, Idle
  <2>3. QED
    BY <1>0, <1>3, <2>1, <2>2 DEF TakeLine, Held, KeptInv
<1>4. CASE StartRetry
  BY <1>0, <1>4 DEF StartRetry, Held, KeptInv
<1>5. CASE LiveOk
  <2>1. hand = <<Posted>> /\ Posted \in RecordedFrames
    BY <1>5, PostedCounter DEF LiveOk, KeptInv, Idle
  <2>2. InSeq(hand) = {Posted} /\ InSeq(hand') = {}
    BY <1>1, <1>5, <2>1, Members DEF LiveOk
  <2>3. QED
    BY <1>0, <1>5, <2>1, <2>2 DEF LiveOk, Held, KeptInv
<1>6. CASE LiveFailed
  <2>1. hand = <<Posted>>
    BY <1>6, PostedCounter DEF LiveFailed, Idle
  <2>2. InSeq(hand) = {Posted} /\ InSeq(hand') = {}
    BY <1>1, <1>6, <2>1, Members DEF LiveFailed
  <2>3. DOMAIN spool' = DOMAIN spool \cup {Posted} /\ work' = spool'
    BY <1>6 DEF LiveFailed, Inserted
  <2>4. QED
    BY <1>0, <1>6, <2>2, <2>3 DEF LiveFailed, Held, KeptInv
<1>7. CASE RowOk \/ RowRefused \/ RowFailed
  <2>1. Posted \in batch
    BY <1>7, PostedCounter
       DEF RowOk, RowRefused, RowFailed, Idle, BridgeInv, SpoolInv
  <2>2. PICK rows \in {Deleted(work, Posted), Counted(work, Posted)},
             rest \in {batch \ {Posted}, {}} :
          /\ GoOn(rows, rest)
          /\ DOMAIN work \subseteq DOMAIN rows \cup RecordedFrames
    <3>1. CASE RowOk
      <4>1. Posted \in RecordedFrames
        BY <3>1 DEF RowOk, KeptInv
      <4>2. DOMAIN work \subseteq DOMAIN Deleted(work, Posted) \cup {Posted}
        BY DEF Deleted
      <4>3. QED
        BY <3>1, <4>1, <4>2 DEF RowOk
    <3>2. CASE RowRefused \/ RowFailed
      <4>1. DOMAIN Counted(work, Posted) = DOMAIN work
        BY DEF Counted
      <4>2. QED
        BY <3>2, <4>1 DEF RowRefused, RowFailed
    <3>3. QED
      BY <1>7, <3>1, <3>2
  <2>3. /\ DOMAIN spool \subseteq DOMAIN spool' \cup RecordedFrames
        /\ DOMAIN spool' \subseteq DOMAIN work' \cup RecordedFrames
    BY <2>2 DEF GoOn, KeptInv
  <2>4. UNCHANGED <<line, hand, lost>>
    BY <2>2 DEF GoOn
  <2>5. QED
    BY <1>0, <2>3, <2>4 DEF Held, KeptInv
<1>8. QED
  BY <1>2, <1>3, <1>4, <1>5, <1>6, <1>7 DEF BridgeLoop, Loop

\* A step that leaves the bridge as it is, up to the answer.
LEMMA AnswerHolds ==
  ASSUME TypeOK, [Next]_ledger, KeptInv,
         UNCHANGED <<line, hand, spool, work, batch, lost>>,
         post' = "ok" => Posted' \in RecordedFrames'
  PROVE  KeptInv' /\ Held \subseteq Held'
BY RecordedStay DEF KeptInv, Held

\* An answer "ok" comes from a commit, and is kept while the bridge has not seen it.
LEMMA OkRecorded ==
  ASSUME TypeOK, [Next]_ledger, BridgeInv, KeptInv, UNCHANGED <<hand, batch>>,
         post' = "ok" => post = "ok"
  PROVE  post' = "ok" => Posted' \in RecordedFrames'
<1> SUFFICES ASSUME post = "ok"
             PROVE  Posted' \in RecordedFrames'
  OBVIOUS
<1>1. ~ Idle
  BY DEF BridgeInv, PostInv
<1>2. Posted' = Posted /\ Posted \in RecordedFrames
  BY <1>1, PostedSame DEF KeptInv
<1>3. QED
  BY <1>2, RecordedStay

\* The frame of an awaited request that is committed is recorded.
LEMMA CommitRecords ==
  ASSUME AgentInv, NEW q \in requests, Endorsed(q), q.awaited, Apply(q.tx)
  PROVE  q.fc \in RecordedFrames'
<1>1. PICK r \in ClientIds : q.tx = FrameTx(r, q.fc)
  BY DEF AgentInv, RequestsInv, RequestOk, FrameOk, OperatorOk, Endorsed
<1>2. /\ r \in DOMAIN q.tx.writes
      /\ q.tx.writes[r] = BmuRecord(Passport1, Did1, q.fc, "VALID")
  BY <1>1, FrameTxIs
<1>3. r \in Ids /\ r \in Keys
  BY PathKeys
<1>4. world'[r] = BmuRecord(Passport1, Did1, q.fc, "VALID")
  BY <1>2, <1>3 DEF Apply
<1>5. Recorded(r)' /\ world'[r].fc = q.fc
  BY <1>4 DEF Recorded, BmuRecord
<1>6. QED
  BY <1>3, <1>5 DEF RecordedFrames

\* What was held and is held no longer is below --min-fc.
LEMMA StillHeld ==
  ASSUME NothingVanishes, \A f \in Held : f \in Held' \/ f < MinFc, last' = last
  PROVE  NothingVanishes'
BY DEF NothingVanishes, Held

\* Steps of the agent, and of what disturbs the path without touching the bridge.
LEMMA AgentHolds ==
  ASSUME TypeOK, BridgeInv, AgentInv, KeptInv, [PathNext]_path,
         UNCHANGED <<line, hand, spool, work, batch, lost>>
  PROVE  KeptInv' /\ Held \subseteq Held'
<1>1. [Next]_ledger
  BY LedgerStep
<1>2. CASE CommitRequest
  <2>1. PICK q \in requests : /\ Endorsed(q) /\ ~ q.stale
                              /\ TakesEffect(q.tx, requests \ {q})
                              /\ Answer(q, "ok")
    BY <1>2 DEF CommitRequest
  <2>2. CASE q.awaited
    <3>0. q.fc \in RecordedFrames'
      BY <2>1, <2>2, CommitRecords DEF TakesEffect
    <3>1. q.fc = Posted /\ Awaited # {}
      BY <2>1, <2>2 DEF AgentInv, WaitInv, Awaited
    <3>2. Posted' = q.fc
      BY <3>1, AwaitedPosted
    <3>3. QED
      BY <1>1, <3>0, <3>2, AnswerHolds
  <2>3. CASE ~ q.awaited
    <3>1. post' = post
      BY <2>1, <2>3 DEF Answer
    <3>2. post' = "ok" => Posted' \in RecordedFrames'
      BY <1>1, <3>1, OkRecorded
    <3>3. QED
      BY <1>1, <3>2, AnswerHolds
  <2>4. QED
    BY <2>2, <2>3
<1>3. CASE post' = "ok" => post = "ok"
  <2>1. post' = "ok" => Posted' \in RecordedFrames'
    BY <1>1, <1>3, OkRecorded
  <2>2. QED
    BY <1>1, <2>1, AnswerHolds
<1>4. CASE SendRequest \/ Refuse \/ ConflictRequest \/ Outage \/ RateLimited
             \/ TimeOut
  <2>1. post' = "ok" => post = "ok"
    BY <1>4 DEF SendRequest, Send, Refuse, ConflictRequest, Outage,
                RateLimited, Dismissed, TimeOut, Answer
  <2>2. QED
    BY <1>3, <2>1
<1>5. CASE Emit \/ EndorseRequest \/ Listener \/ ListenerCrash
             \/ OperatorInvalidates \/ OperatorResets \/ OrganisationUpdates
             \/ UNCHANGED path
  <2>1. UNCHANGED post
    BY <1>5 DEF Emit, LineArrives, EndorseRequest, Listener, ListenerCrash,
                OperatorInvalidates, OperatorResets, OperatorSubmits,
                OrganisationUpdates,                 path, bridge
  <2>2. QED
    BY <1>3, <2>1
<1>6. CASE BridgeLoop \/ BridgeCrash
  <2>1. post' = "none"
    BY <1>6, LoopBridge DEF BridgeCrash, Crash
  <2>2. QED
    BY <1>3, <2>1
<1>7. QED
  BY <1>2, <1>4, <1>5, <1>6 DEF PathNext, Agent, Disturbance

\* Every step holds what it should.
LEMMA KeptStep ==
  ASSUME TypeOK, BridgeInv, AgentInv, KeptInv, NothingVanishes, [PathNext]_path
  PROVE  KeptInv' /\ NothingVanishes'
<1>1. line \in Seq(Counters) /\ hand \in Seq(Counters) /\ last \in Int
  BY DEF BridgeInv, LineInv
<1>2. CASE Emit
  <2>1. /\ last' = last + 1 /\ last' \in Counters
        /\ \/ line' = Append(line, last') /\ lost' = lost
           \/ line' = line /\ lost' = lost \cup {last'}
        /\ UNCHANGED <<world, hand, spool, work, batch, post>>
    BY <1>2 DEF Emit, LineArrives, ledger
  <2>2. /\ InSeq(line) \subseteq InSeq(line')
        /\ last' \in InSeq(line') \cup lost'
    BY <1>1, <2>1, Members
  <2>3. RecordedFrames' = RecordedFrames
    BY <2>1 DEF RecordedFrames, Recorded
  <2>4. Held \subseteq Held' /\ last' \in Held'
    BY <2>1, <2>2, <2>3 DEF Held
  <2>5. KeptInv'
    <3>1. CASE post = "ok"
      <4>1. ~ Idle
        BY <3>1 DEF BridgeInv, PostInv
      <4>2. Posted' = Posted
        BY <2>1, <4>1, PostedSame
      <4>3. QED
        BY <2>1, <2>3, <4>2 DEF KeptInv
    <3>2. CASE post # "ok"
      BY <2>1, <2>3, <3>2 DEF KeptInv
    <3>3. QED
      BY <3>1, <3>2
  <2>6. ASSUME NEW f \in Counters, f <= last'
        PROVE  f < MinFc \/ f \in Held'
    <3>1. f \in Int
      BY CountersNat, SMT
    <3>2. f <= last \/ f = last'
      BY <1>1, <2>1, <2>6, <3>1, SMT
    <3>3. QED
      BY <2>4, <3>2 DEF NothingVanishes, Held
  <2>7. QED
    BY <2>5, <2>6 DEF NothingVanishes, Held
<1>3. CASE BridgeLoop
  BY <1>3, LoopHolds, StillHeld
<1>4. CASE BridgeCrash
  <2>1. /\ lost' = lost \cup InSeq(line) \cup InSeq(hand)
        /\ post' = "none" /\ work' = spool
        /\ UNCHANGED <<world, spool, last>>
    BY <1>4 DEF BridgeCrash, Crash, ledger
  <2>2. RecordedFrames' = RecordedFrames
    BY <2>1 DEF RecordedFrames, Recorded
  <2>3. KeptInv'
    BY <2>1 DEF KeptInv
  <2>4. QED
    BY <2>1, <2>2, <2>3, StillHeld DEF Held
<1>5. CASE SendRequest \/ Agent \/ Outage \/ RateLimited \/ TimeOut
             \/ Listener \/ ListenerCrash \/ OperatorInvalidates
             \/ OperatorResets \/ OrganisationUpdates \/ UNCHANGED path
  <2>1. UNCHANGED <<line, hand, spool, work, batch, lost, last>>
    BY <1>5 DEF SendRequest, Send, Agent, Refuse, EndorseRequest,
                CommitRequest, ConflictRequest, Outage, RateLimited,
                Dismissed, TimeOut, Answer, Listener, ListenerCrash,
                OperatorInvalidates, OperatorResets, OperatorSubmits,
                OrganisationUpdates,                 path, bridge
  <2>2. KeptInv' /\ Held \subseteq Held'
    BY <2>1, AgentHolds
  <2>3. QED
    BY <2>1, <2>2, StillHeld
<1>6. QED
  BY <1>2, <1>3, <1>4, <1>5 DEF PathNext, Disturbance

-----------------------------------------------------------------------------
(* The inductive invariant of the path.                                    *)

PathInv ==
  /\ TypeOK /\ ViewInv
  /\ BridgeInv /\ AgentInv
  /\ KeptInv /\ NothingVanishes

\* The bridge after an answer: somebody was waiting for it, or nothing changes.
LEMMA AnswerStep ==
  ASSUME BridgeInv, AgentInv, NEW q \in requests,
         NEW outcome \in {"ok", "permanent", "transient"}, Answer(q, outcome)
  PROVE  BridgeInv'
<1>1. /\ UNCHANGED <<line, hand, spool, work, batch, last>>
      /\ post' = IF q.awaited THEN outcome ELSE post
  BY DEF Answer
<1>2. q.awaited => ~ Idle
  BY DEF AgentInv, WaitInv, Awaited, BridgeInv, PostInv
<1>3. /\ post' \in {"none", "waiting", "ok", "permanent", "transient"}
      /\ post' = post \/ ~ Idle
  BY <1>1, <1>2 DEF BridgeInv, PostInv
<1>4. QED
  BY <1>1, <1>3, AnswerBridge

\* The bridge's invariant survives every step of the path.
LEMMA BridgeStep ==
  BridgeInv /\ AgentInv /\ [PathNext]_path => BridgeInv'
<1> SUFFICES ASSUME BridgeInv, AgentInv, [PathNext]_path
             PROVE  BridgeInv'
  OBVIOUS
<1>1. CASE Emit
  BY <1>1, EmitBridge
<1>2. CASE SendRequest
  <2>1. /\ UNCHANGED <<line, hand, spool, work, batch, last>>
        /\ post' = "waiting" /\ ~ Idle
    BY <1>2 DEF SendRequest, Send
  <2>2. QED
    BY <2>1, AnswerBridge
<1>3. CASE BridgeLoop
  BY <1>3, LoopBridge
<1>4. CASE Refuse \/ CommitRequest \/ ConflictRequest \/ Outage \/ RateLimited
             \/ TimeOut
  <2>1. \E q \in requests, outcome \in {"ok", "permanent", "transient"} :
          Answer(q, outcome)
    BY <1>4 DEF Refuse, CommitRequest, ConflictRequest, Outage, RateLimited,
                Dismissed, TimeOut, Awaited
  <2>2. QED
    BY <2>1, AnswerStep
<1>5. CASE BridgeCrash
  BY <1>5, CrashBridge
<1>6. CASE EndorseRequest \/ Listener \/ ListenerCrash \/ OperatorInvalidates
             \/ OperatorResets \/ OrganisationUpdates \/ UNCHANGED path
  <2>1. UNCHANGED <<line, hand, spool, work, batch, post, last>>
    BY <1>6 DEF EndorseRequest, Listener, ListenerCrash, OperatorInvalidates,
                OperatorResets, OperatorSubmits, OrganisationUpdates, path,
                bridge
  <2>2. post' \in {"none", "waiting", "ok", "permanent", "transient"}
    BY <2>1 DEF BridgeInv, PostInv
  <2>3. QED
    BY <2>1, <2>2, AnswerBridge
<1>7. QED
  BY <1>1, <1>2, <1>3, <1>4, <1>5, <1>6 DEF PathNext, Agent, Disturbance

\* The requests at hand, and the one that is waited for, after every step.
LEMMA AgentStep ==
  TypeOK /\ BridgeInv /\ AgentInv /\ [PathNext]_path => AgentInv'
<1> SUFFICES ASSUME TypeOK, BridgeInv, AgentInv, [PathNext]_path
             PROVE  AgentInv'
  OBVIOUS
<1>1. CASE SendRequest
  BY <1>1, SendAgent
<1>2. CASE BridgeLoop
  <2>1. post # "waiting" /\ post' # "waiting"
    BY <1>2, LoopBridge
  <2>2. UNCHANGED <<world, requests>>
    BY <1>2 DEF BridgeLoop, ledger
  <2>3. QED
    BY <2>1, <2>2, AgentKept
<1>3. CASE Refuse \/ ConflictRequest \/ Outage \/ RateLimited
  <2>1. PICK q \in requests, outcome \in {"ok", "permanent", "transient"} :
          Answer(q, outcome) /\ requests' = requests \ {q} /\ UNCHANGED world
    BY <1>3 DEF Refuse, ConflictRequest, Outage, RateLimited, Dismissed,
                Awaited, ledger
  <2>2. QED
    BY <2>1, LeaveAgent
<1>4. CASE EndorseRequest
  BY <1>4, EndorseAgent
<1>5. CASE CommitRequest
  BY <1>5, CommitAgent
<1>6. CASE TimeOut
  BY <1>6, TimeOutAgent
<1>7. CASE BridgeCrash
  BY <1>7, CrashAgent
<1>8. CASE OperatorInvalidates \/ OperatorResets
  <2>1. CASE OperatorInvalidates
    BY <2>1, InvalidateShown, OperatorAgent DEF OperatorInvalidates, IsInvalidate
  <2>2. CASE OperatorResets
    <3>1. Did1 \in Dids
      BY PathAssumption DEF PathAssumption
    <3>2. QED
      BY <2>2, <3>1, ResetShown, OperatorAgent DEF OperatorResets, IsReset
  <2>3. QED
    BY <1>8, <2>1, <2>2
<1>9. CASE OrganisationUpdates
  BY <1>9, UpdateAgent
<1>10. CASE Emit \/ Listener \/ ListenerCrash \/ UNCHANGED path
  <2>1. UNCHANGED <<world, requests, hand, batch, post>>
    BY <1>10 DEF Emit, LineArrives, Listener, ListenerCrash, path, bridge,
                 ledger
  <2>2. QED
    BY <2>1, AgentKept
<1>11. QED
  BY <1>1, <1>2, <1>3, <1>4, <1>5, <1>6, <1>7, <1>8, <1>9, <1>10
     DEF PathNext, Agent, Disturbance

\* The world before the first frame: one passport, and its binding.
LEMMA PathWorld ==
  ASSUME PathInit
  PROVE  /\ DOMAIN world = Keys
         /\ world[Passport1] = Passport(Did1)
         /\ world[Did1] = Binding(Passport1, NoFc)
         /\ \A k \in Keys \ {Passport1, Did1} : world[k] = Nil
         /\ since = [d \in Dids |-> {}]
<1>1. /\ Passport1 \in Passports /\ Passport1 \in Keys
      /\ Did1 \in Dids /\ Did1 \in Keys /\ Did1 # Passport1
  BY PathAssumption, LedgerAssumption
     DEF PathAssumption, LedgerAssumption, Keys
<1>2. QED
  BY <1>1 DEF PathInit

\* The passport, its binding and nothing else are of their types.
LEMMA PathTypeInit == PathInit => TypeOK
<1> SUFFICES ASSUME PathInit
             PROVE  TypeOK
  OBVIOUS
<1>1. Passport1 \in Passports /\ Did1 \in Dids
  BY PathAssumption DEF PathAssumption
<1>2. ASSUME NEW p \in Passports
      PROVE  PassportDoc(world[p])
  BY <1>1, PathWorld, PassportKey DEF PassportDoc
<1>3. ASSUME NEW d \in Dids
      PROVE  DidDoc(world[d])
  <2>1. CASE d = Did1
    BY <1>1, <2>1, PathWorld DEF DidDoc
  <2>2. CASE d # Did1
    BY <1>1, <2>2, PathWorld, DidKey DEF DidDoc
  <2>3. QED
    BY <2>1, <2>2
<1>4. ASSUME NEW r \in Ids
      PROVE  RecordDoc(world[r])
  BY <1>1, PathWorld, RecordKey DEF RecordDoc
<1>5. since \in [Dids -> SUBSET Ids]
  BY PathWorld
<1>6. QED
  BY <1>2, <1>3, <1>4, <1>5, PathWorld DEF TypeOK

\* Nothing has been signed, posted or written yet.
LEMMA PathInvInit == PathInit => PathInv
<1> SUFFICES ASSUME PathInit
             PROVE  PathInv
  OBVIOUS
<1>1. TypeOK
  BY PathTypeInit
<1>2. ViewInv
  BY ViewInvInit DEF PathInit
<1>3. BridgeInv
  BY BridgeInvInit DEF PathInit
<1>4. AgentInv
  BY AgentInvInit DEF PathInit, BridgeInit
<1>5. KeptInv
  BY DEF PathInit, BridgeInit, KeptInv
<1>6. NothingVanishes
  <2>1. last = -1
    BY DEF PathInit
  <2>2. \A f \in Counters : ~ (f <= last)
    BY <2>1, CountersNat, SMT
  <2>3. QED
    BY <2>2 DEF NothingVanishes
<1>7. QED
  BY <1>1, <1>2, <1>3, <1>4, <1>5, <1>6 DEF PathInv

\* Each part's invariant, from those of the parts it depends on.
LEMMA PathInvStep == PathInv /\ [PathNext]_path => PathInv'
<1> SUFFICES ASSUME PathInv, [PathNext]_path
             PROVE  PathInv'
  OBVIOUS
<1> USE DEF PathInv
<1>1. [Next]_ledger
  BY LedgerStep
<1>2. TypeOK'
  BY <1>1, TypeStep
<1>3. ViewInv'
  BY ViewStep
<1>4. BridgeInv' /\ AgentInv'
  BY BridgeStep, AgentStep
<1>5. KeptInv' /\ NothingVanishes'
  BY KeptStep
<1>6. QED
  BY <1>2, <1>3, <1>4, <1>5

\* The invariant of the path: every part's own, and what ties the parts together.
THEOREM PathInvariant == PathSpec => []PathInv
BY PathInvInit, PathInvStep, PTL DEF PathSpec

-----------------------------------------------------------------------------
(* What follows from it.                                                   *)

\* What the path's type invariant says: at most one post is awaited, and it is
\* that of the frame the bridge has at hand.
LEMMA PathTypes == PathInv => PathTypeOK
<1> SUFFICES ASSUME PathInv
             PROVE  PathTypeOK
  OBVIOUS
<1>1. BridgeTypeOK
  BY DEF PathInv, BridgeInv, LineInv, SpoolInv, PostInv, BridgeTypeOK
<1>2. ViewTypeOK
  BY DEF PathInv, ViewInv
<1>3. DidDoc(world[Did1]) /\ \A r \in Ids : RecordDoc(world[r])
  BY PathAssumption DEF PathInv, TypeOK, PathAssumption
<1>4. Cardinality(requests) <= MaxRequests
  BY DEF PathInv, AgentInv, RequestsInv
<1>5. \A q \in Awaited : ~ Idle /\ q.fc = Posted
  BY DEF PathInv, AgentInv, WaitInv, BridgeInv, PostInv
<1>6. Cardinality(Awaited) = IF post = "waiting" THEN 1 ELSE 0
  <2>1. CASE post = "waiting"
    <3>1. Awaited # {} /\ \A q, x \in Awaited : q = x
      BY <2>1 DEF PathInv, AgentInv, WaitInv
    <3>2. PICK q \in Awaited : TRUE
      BY <3>1
    <3>3. Awaited = {q}
      BY <3>1, <3>2
    <3>4. QED
      BY <2>1, <3>3, FS_Singleton
  <2>2. CASE post # "waiting"
    BY <2>2, FS_EmptySet DEF PathInv, AgentInv, WaitInv
  <2>3. QED
    BY <2>1, <2>2
<1>7. QED
  BY <1>1, <1>2, <1>3, <1>4, <1>5, <1>6 DEF PathTypeOK

\* Type correctness: no batch over its limit, no row counted beyond its tries, one
\* post at a time, and every key of its type.
THEOREM PathTypeCorrect == PathSpec => []PathTypeOK
BY PathInvariant, PathTypes, PTL

\* Every frame the bridge has read is recorded, spooled, under way or known to be
\* gone, whatever times out, is refused, crashes or is rolled back.
THEOREM FramesKept == PathSpec => []NothingVanishes
<1>1. PathInv => NothingVanishes
  BY DEF PathInv
<1>2. QED
  BY <1>1, PathInvariant, PTL

\* The listener's checkpoint passes nothing that the read model does not show.
THEOREM ReadModelCovers == PathSpec => []CheckpointCovers
<1>1. PathInv => CheckpointCovers
  BY ViewCovers DEF PathInv
<1>2. QED
  BY <1>1, PathInvariant, PTL

\* What bridge, agent and operators do to the ledger is what the chaincode's calls
\* do, endorsed requests that commit late included.
THEOREM PathCallsLedger == PathSpec => LedgerCalls
<1>1. PathInv /\ [PathNext]_path => [Next]_ledger
  BY LedgerStep DEF PathInv
<1>2. QED
  BY <1>1, PathInvariant, PTL DEF PathSpec, LedgerCalls

-----------------------------------------------------------------------------
(* The ledger's own invariant, on the path.                                *)

\* The path starts with no records and one DID newly bound.
LEMMA PathLedgerInit == PathInit => IInv
<1> SUFFICES ASSUME PathInit
             PROVE  IInv
  OBVIOUS
<1>1. TypeOK
  BY PathTypeInit
<1>2. /\ Passport1 \in Passports /\ Did1 \in Dids
      /\ Passport(Did1).doc = "passport" /\ Nil.doc = "nil"
      /\ \A p, f : Binding(p, f).doc = "binding" /\ Binding(p, f).passport = p
  BY PathAssumption DEF PathAssumption, Passport, Nil, Binding
<1>3. Owned
  <2>1. \A r \in Ids : ~ Recorded(r)
    BY <1>2, PathWorld, RecordKey DEF Recorded
  <2>2. ASSUME NEW d \in Dids, Bound(d)
        PROVE  d = Did1
    BY <1>2, <2>2, PathWorld, DidKey DEF Bound
  <2>3. QED
    BY <1>2, <2>1, <2>2, PathWorld DEF Owned, RecordsOwned, BindingsOwned
<1>4. \A d \in Dids : since[d] = {}
  BY PathWorld
<1>5. InOrder
  <2>1. Founded
    BY PathAssumption DEF PathAssumption, Founded
  <2>2. QED
    BY <1>4, <2>1 DEF InOrder, History, Covers, ValidCountersDistinct, Protected
<1>6. OneHolder
  <2>1. \A r \in Ids : ~ Recorded(r)
    BY <1>2, PathWorld, RecordKey DEF Recorded
  <2>2. QED
    BY <2>1 DEF OneHolder, Unkeyed, OnePassportPerDid
<1>7. QED
  BY <1>1, <1>3, <1>5, <1>6 DEF IInv

\* Two valid records since the last reset never have the same counter: a frame
\* that is posted again after its post was given up, or taken from the spool
\* though its live post was recorded all the same, is not recorded next to its
\* first record, unless that has been invalidated or the counter reset.
THEOREM PathCountersDistinct == PathSpec => []ValidCountersDistinct
<1>1. PathInv /\ IInv /\ [PathNext]_path => IInv'
  BY LedgerStep, IInvStep DEF PathInv
<1>2. IInv => ValidCountersDistinct
  BY DEF IInv, InOrder
<1>3. QED
  BY <1>1, <1>2, PathLedgerInit, PathInvariant, PTL DEF PathSpec
=============================================================================
