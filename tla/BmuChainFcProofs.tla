-------------------------- MODULE BmuChainFcProofs --------------------------
(***************************************************************************)
(* Proofs about BmuChainFc: type correctness, and that the counters signed *)
(* rise across boots for every epoch size, queue depth and number of boots *)
(* that NoWrap allows, provided the probe read of a configured counter     *)
(* does not fail.                                                          *)
(***************************************************************************)
EXTENDS BmuChainFc, TLAPS

-----------------------------------------------------------------------------
(* Arithmetic and sequences.                                               *)

\* Below the modulus the uint32 is the number itself.
LEMMA ModBelow ==
  ASSUME NEW x \in Nat, NEW m \in Nat, x < m
  PROVE  x % m = x
BY SMT

\* A reduced counter fits.
LEMMA ModInRange ==
  ASSUME NEW x \in Nat
  PROVE  x % FcModulus \in Fc
BY BmuAssumption, SMT DEF BmuAssumption, Fc

\* An epoch starts at a natural number.
LEMMA EpochStartNat ==
  ASSUME NEW e \in Nat
  PROVE  e * EpochStep \in Nat
BY BmuAssumption, SMT DEF BmuAssumption

\* The next epoch starts one step further.
LEMMA NextEpoch ==
  ASSUME NEW e \in Nat
  PROVE  (e + 1) * EpochStep = e * EpochStep + EpochStep
BY BmuAssumption, SMT DEF BmuAssumption

\* An earlier epoch starts no later.
LEMMA EpochMonotone ==
  ASSUME NEW d \in Nat, NEW e \in Nat, d <= e
  PROVE  d * EpochStep <= e * EpochStep
<1>1. PICK k \in Nat : e = d + k
  BY SMT
<1>2. e * EpochStep = d * EpochStep + k * EpochStep
  BY <1>1, BmuAssumption, SMT DEF BmuAssumption
<1>3. k * EpochStep \in Nat /\ d * EpochStep \in Nat
  BY EpochStartNat
<1>4. QED
  BY <1>2, <1>3, SMT

-----------------------------------------------------------------------------
(* Type correctness needs no hypothesis on the bounds.                     *)

LEMMA TypeInit == Init => TypeOK
<1> SUFFICES ASSUME Init
             PROVE  TypeOK
  OBVIOUS
<1>1. 0 \in Fc
  BY BmuAssumption, SMT DEF BmuAssumption, Fc
<1>2. procQ \in Seq(Fc) /\ Len(procQ) <= ProcDepth
  BY BmuAssumption, SMT DEF BmuAssumption, Init
<1>3. frames \in 0 .. MaxFrames /\ boots \in 0 .. MaxBoots
  BY BmuAssumption, SMT DEF BmuAssumption, Init
<1>4. QED
  BY <1>1, <1>2, <1>3 DEF Init, TypeOK, NoItem

LEMMA TypeStep == TypeOK /\ [Next]_vars => TypeOK'
<1> SUFFICES ASSUME TypeOK, [Next]_vars
             PROVE  TypeOK'
  OBVIOUS
<1> USE BmuAssumption DEF BmuAssumption, TypeOK, flash, ram
<1>1. CASE PowerOn
  BY <1>1, SMT DEF PowerOn, Fc, NoItem, Booting
<1>2. CASE PowerLoss
  BY <1>2, SMT DEF PowerLoss, Fc, NoItem, Booting
<1>3. CASE ConfigureSkipped
  BY <1>3 DEF ConfigureSkipped, Booting
<1>4. CASE ConfigureWipes
  BY <1>4 DEF ConfigureWipes, Booting
<1>5. CASE BootRead
  <2>1. CounterValue \in Fc
    BY EpochStartNat, ModInRange DEF CounterValue
  <2>2. QED
    BY <1>5, <2>1 DEF BootRead, Booting
<1>6. CASE BMU_AdvanceFcEpoch
  BY <1>6 DEF BMU_AdvanceFcEpoch, Booting
<1>7. CASE ReadAfterAdvance
  <2>1. CounterValue \in Fc
    BY EpochStartNat, ModInRange DEF CounterValue
  <2>2. QED
    BY <1>7, <2>1 DEF ReadAfterAdvance, Booting
<1>8. CASE Halt
  BY <1>8 DEF Halt, Booting
<1>9. CASE KeyExchangeOk
  BY <1>9 DEF KeyExchangeOk
<1>10. CASE AcceptFrame
  <2>1. (chainFc + 1) % FcModulus \in Fc
    <3>1. chainFc + 1 \in Nat
      BY SMT DEF Fc
    <3>2. QED
      BY <3>1, ModInRange
  <2>2. frames' \in 0 .. MaxFrames
    BY <1>10, SMT DEF AcceptFrame
  <2>3. procQ' \in Seq(Fc) /\ Len(procQ') <= ProcDepth
    BY <1>10, SMT DEF AcceptFrame, Enqueued
  <2>4. QED
    BY <1>10, <2>1, <2>2, <2>3 DEF AcceptFrame
<1>11. CASE Resync
  BY <1>11 DEF Resync
<1>12. CASE TakeForSigning
  BY <1>12, SMT DEF TakeForSigning
<1>13. CASE EmitSigned
  BY <1>13 DEF EmitSigned, NoItem
<1>14. CASE UNCHANGED vars
  BY <1>14 DEF vars
<1>15. CASE HseNotReady
  BY <1>15 DEF HseNotReady, Booting
<1>16. QED
  BY <1>1, <1>2, <1>3, <1>4, <1>5, <1>6, <1>7, <1>8, <1>9, <1>10, <1>11,
     <1>12, <1>13, <1>14, <1>15
  DEF Next, Boot, Protocol, Signing, BMU_ConfigureFcCounter

\* Every state of the BMU keeps to its types: no queue outgrows its depth and
\* no counter leaves the uint32.
THEOREM TypeCorrect == Spec => []TypeOK
BY TypeInit, TypeStep, PTL DEF Spec

-----------------------------------------------------------------------------
(* The inductive invariant.  SignedAboveHistory and PipelineOrdered are not  *)
(* inductive alone: that a boot counts above every earlier one rests on what *)
(* is in flash between boots.                                                *)

\* Before its advance a boot has moved the epoch of earlier boots at most.
EpochBehindBoots ==
  /\ rp <= boots
  /\ pc \in {"configure", "read", "advance"} => rp < boots

\* Nothing was counted before the slot was configured, and a boot past its
\* configuration step has a configured slot.
VirginFlash ==
  /\ ~configured => rp = 0 /\ lastSigned = -1
  /\ pc \in {"read", "reread", "run"} => configured

\* Nothing has been signed beyond the epoch in flash; once it is advanced,
\* nothing has been signed from it.
SignedWithinEpoch ==
  /\ lastSigned < (rp + 1) * EpochStep
  /\ pc = "reread" => lastSigned < rp * EpochStep

\* No frame is under way unless the protocol runs.
IdleUnlessRunning ==
  pc # "run" => procQ = <<>> /\ inHand = NoItem /\ frames = 0

\* A running boot counts its frames up from its epoch, and hands them on in
\* order.
RunningInEpoch ==
  pc = "run" =>
    /\ chainFc = rp * EpochStep + frames
    /\ lastSigned < chainFc
    /\ inHand < chainFc

IInv ==
  /\ TypeOK
  /\ EpochBehindBoots
  /\ VirginFlash
  /\ SignedWithinEpoch
  /\ IdleUnlessRunning
  /\ RunningInEpoch
  /\ SignedAboveHistory
  /\ PipelineOrdered

\* Within the bounds, no counter of a boot reaches the wrap.
LEMMA BelowWrap ==
  ASSUME NoWrap, NEW e \in 0 .. MaxBoots, NEW f \in 0 .. MaxFrames
  PROVE  /\ e * EpochStep \in Nat
         /\ e * EpochStep + f < FcModulus
         /\ (e * EpochStep) % FcModulus = e * EpochStep
<1> USE BmuAssumption DEF BmuAssumption, NoWrap
<1>1. e \in Nat /\ e <= MaxBoots
  BY SMT
<1>2. e * EpochStep \in Nat /\ MaxBoots * EpochStep \in Nat
  BY <1>1, EpochStartNat
<1>3. e * EpochStep <= MaxBoots * EpochStep
  BY <1>1, EpochMonotone
<1>4. e * EpochStep + f < FcModulus /\ e * EpochStep < FcModulus
  BY <1>2, <1>3, SMT
<1>5. QED
  BY <1>2, <1>4, ModBelow

LEMMA IInvInit == Init => IInv
<1> SUFFICES ASSUME Init
             PROVE  IInv
  OBVIOUS
<1>1. TypeOK
  BY TypeInit
<1>2. SignedWithinEpoch
  BY BmuAssumption, SMT DEF BmuAssumption, Init, SignedWithinEpoch
<1>3. EpochBehindBoots /\ VirginFlash /\ IdleUnlessRunning /\ RunningInEpoch
  BY SMT DEF Init, EpochBehindBoots, VirginFlash, IdleUnlessRunning,
         RunningInEpoch, NoItem
<1>4. SignedAboveHistory /\ PipelineOrdered
  BY SMT DEF Init, SignedAboveHistory, PipelineOrdered, NoItem
<1>5. QED
  BY <1>1, <1>2, <1>3, <1>4 DEF IInv

\* Switching on or off keeps what is signed and what is in flash, and empties
\* the rest.
LEMMA PowerStep ==
  ASSUME IInv, PowerOn \/ PowerLoss
  PROVE  IInv'
<1>1. TypeOK'
  BY TypeStep DEF IInv, Next
<1> USE DEF IInv, TypeOK, PowerOn, PowerLoss
<1>2. EpochBehindBoots' /\ VirginFlash'
  BY BmuAssumption, SMT DEF BmuAssumption, EpochBehindBoots, VirginFlash
<1>3. SignedWithinEpoch'
  BY DEF SignedWithinEpoch
<1>4. IdleUnlessRunning' /\ RunningInEpoch'
  BY DEF IdleUnlessRunning, RunningInEpoch
<1>5. SignedAboveHistory' /\ PipelineOrdered'
  BY SMT DEF SignedAboveHistory, PipelineOrdered
<1>6. QED
  BY <1>1, <1>2, <1>3, <1>4, <1>5

\* Every step of the boot sequence, as long as the probe read of a configured
\* counter does not fail.
LEMMA BootStep ==
  ASSUME NoWrap, "probe" \notin HseFaults, IInv, Boot
  PROVE  IInv'
<1>1. TypeOK'
  BY TypeStep DEF IInv, Next
<1>2. SignedAboveHistory' /\ PipelineOrdered'
  <2>1. procQ' = <<>> /\ inHand' = NoItem
    BY DEF IInv, IdleUnlessRunning, Boot, HseNotReady, BMU_ConfigureFcCounter,
       ConfigureSkipped, ConfigureWipes, BootRead, BMU_AdvanceFcEpoch,
       ReadAfterAdvance, Halt, ram, Booting
  <2>2. QED
    BY <2>1, SMT DEF SignedAboveHistory, PipelineOrdered
<1> USE DEF flash, ram, IInv, TypeOK, EpochBehindBoots, VirginFlash,
        SignedWithinEpoch, IdleUnlessRunning
<1>3. CASE HseNotReady \/ ConfigureSkipped \/ BootRead \/ Halt
  <2>1. UNCHANGED <<configured, rp, lastSigned, frames, boots, procQ, inHand>>
        /\ pc # "run" /\ pc' \in {"read", "advance", "halted"}
        /\ (pc' # "halted" => pc \in {"configure", "read"})
        /\ (pc' = "read" => configured)
    BY <1>3 DEF HseNotReady, ConfigureSkipped, ProbeSucceeds, BootRead, Halt
  <2>2. EpochBehindBoots' /\ VirginFlash'
    BY <2>1
  <2>3. SignedWithinEpoch' /\ IdleUnlessRunning' /\ RunningInEpoch'
    BY <2>1 DEF RunningInEpoch
  <2>4. QED
    BY <1>1, <1>2, <2>2, <2>3
<1>4. CASE ConfigureWipes
  <2>1. ~configured /\ rp = 0 /\ lastSigned = -1 /\ rp' = 0
    BY <1>4 DEF ConfigureWipes, ProbeMayFail
  <2>2. EpochBehindBoots' /\ VirginFlash' /\ IdleUnlessRunning'
        /\ RunningInEpoch'
    BY <1>4, <2>1 DEF ConfigureWipes, RunningInEpoch
  <2>3. SignedWithinEpoch'
    BY <1>4, <2>1, SMT DEF ConfigureWipes
  <2>4. QED
    BY <1>1, <1>2, <2>2, <2>3
<1>5. CASE BMU_AdvanceFcEpoch
  <2>1. rp' = rp + 1 /\ pc' = "reread" /\ rp < boots
    BY <1>5 DEF BMU_AdvanceFcEpoch
  <2>2. EpochBehindBoots' /\ IdleUnlessRunning' /\ RunningInEpoch'
    BY <1>5, <2>1, SMT DEF BMU_AdvanceFcEpoch, RunningInEpoch
  <2>3. VirginFlash'
    BY <1>5 DEF BMU_AdvanceFcEpoch
  <2>4. SignedWithinEpoch'
    BY <1>5, <2>1, NextEpoch, EpochStartNat, BmuAssumption, SMT
    DEF BMU_AdvanceFcEpoch, BmuAssumption, Fc
  <2>5. QED
    BY <1>1, <1>2, <2>2, <2>3, <2>4
<1>6. CASE ReadAfterAdvance
  <2>1. UNCHANGED <<configured, rp, lastSigned, frames, boots>>
        /\ pc' = "run" /\ pc = "reread" /\ frames = 0
    BY <1>6 DEF ReadAfterAdvance
  <2>2. EpochBehindBoots' /\ VirginFlash' /\ SignedWithinEpoch'
        /\ IdleUnlessRunning'
    BY <2>1
  <2>3. rp \in 0 .. MaxBoots
    BY BmuAssumption, SMT DEF BmuAssumption
  <2>4. chainFc' = rp * EpochStep /\ rp * EpochStep \in Nat
    BY <1>6, <2>3, BelowWrap, BmuAssumption DEF ReadAfterAdvance,
       CounterValue, BmuAssumption
  <2>5. RunningInEpoch'
    BY <1>6, <2>1, <2>3, <2>4, SMT DEF ReadAfterAdvance, RunningInEpoch, NoItem
  <2>6. QED
    BY <1>1, <1>2, <2>2, <2>5
<1>7. QED
  BY <1>3, <1>4, <1>5, <1>6 DEF Boot, BMU_ConfigureFcCounter

\* Every step of the protocol task.
LEMMA ProtocolStep ==
  ASSUME NoWrap, IInv, Protocol
  PROVE  IInv'
<1>1. TypeOK'
  BY TypeStep DEF IInv, Next
<1> USE DEF flash, IInv, TypeOK
<1>2. pc = "run" /\ UNCHANGED <<configured, rp, pc, inHand, lastSigned, boots>>
  BY DEF Protocol, KeyExchangeOk, AcceptFrame, Resync
<1>3. EpochBehindBoots' /\ VirginFlash' /\ SignedWithinEpoch'
      /\ IdleUnlessRunning' /\ SignedAboveHistory'
  BY <1>2 DEF EpochBehindBoots, VirginFlash, SignedWithinEpoch,
              IdleUnlessRunning, SignedAboveHistory
<1>4. CASE KeyExchangeOk \/ Resync
  <2>1. procQ' = <<>> /\ UNCHANGED <<chainFc, frames>>
    BY <1>4 DEF KeyExchangeOk, Resync
  <2>2. RunningInEpoch' /\ PipelineOrdered'
    BY <1>2, <2>1, SMT DEF RunningInEpoch, PipelineOrdered
  <2>3. QED
    BY <1>1, <1>3, <2>2
<1>5. CASE AcceptFrame
  <2>1. frames' = frames + 1 /\ frames' \in 0 .. MaxFrames
    BY <1>1, <1>5 DEF AcceptFrame
  <2>2. rp \in 0 .. MaxBoots
    BY BmuAssumption, SMT DEF BmuAssumption, EpochBehindBoots
  <2>3. /\ rp * EpochStep \in Nat
        /\ rp * EpochStep + frames' < FcModulus
    BY <2>1, <2>2, BelowWrap
  <2>4. chainFc = rp * EpochStep + frames /\ lastSigned < chainFc
        /\ inHand < chainFc
    BY <1>2 DEF RunningInEpoch
  <2>5. chainFc' = chainFc + 1
    <3>1. chainFc + 1 = rp * EpochStep + frames'
      BY <2>1, <2>3, <2>4, SMT
    <3>2. chainFc + 1 \in Nat /\ chainFc + 1 < FcModulus
      BY <2>3, <3>1, SMT DEF Fc
    <3>3. QED
      BY <1>5, <3>2, ModBelow, BmuAssumption DEF AcceptFrame, BmuAssumption
  <2>6. RunningInEpoch'
    BY <1>2, <2>1, <2>3, <2>4, <2>5, SMT DEF RunningInEpoch, Fc, NoItem
  <2>7. PipelineOrdered'
    <3>1. CASE Len(procQ) < ProcDepth
      <4>1. procQ' = Append(procQ, chainFc)
        BY <1>5, <3>1 DEF AcceptFrame, Enqueued
      <4>2. /\ Len(procQ') = Len(procQ) + 1
            /\ \A i \in 1 .. Len(procQ) : procQ'[i] = procQ[i]
            /\ procQ'[Len(procQ) + 1] = chainFc
            /\ \A i \in 1 .. Len(procQ') :
                 i \in 1 .. Len(procQ) \/ i = Len(procQ) + 1
            /\ \A i \in 1 .. Len(procQ) : procQ[i] \in Fc
        BY <4>1, SMT
      <4>3. ASSUME NEW i \in 1 .. Len(procQ')
            PROVE  inHand' < procQ'[i] /\ lastSigned' < procQ'[i]
                   /\ procQ'[i] < chainFc'
        BY <1>2, <2>4, <2>5, <4>2, SMT DEF PipelineOrdered, Fc, NoItem
      <4>4. ASSUME NEW i \in 1 .. Len(procQ'), NEW j \in 1 .. Len(procQ'), i < j
            PROVE  procQ'[i] < procQ'[j]
        <5>1. i \in 1 .. Len(procQ)
          BY <4>2, <4>4, SMT
        <5>2. QED
          BY <4>2, <4>4, <5>1, SMT DEF PipelineOrdered
      <4>5. QED
        BY <4>3, <4>4 DEF PipelineOrdered
    <3>2. CASE ~(Len(procQ) < ProcDepth)
      <4>1. procQ' = procQ
        BY <1>5, <3>2 DEF AcceptFrame, Enqueued
      <4>2. \A i \in 1 .. Len(procQ) : procQ[i] \in Fc
        BY SMT
      <4>3. \A x \in Fc : x < chainFc => x < chainFc'
        BY <2>5, SMT DEF Fc
      <4>4. QED
        BY <1>2, <4>1, <4>2, <4>3 DEF PipelineOrdered
    <3>3. QED
      BY <3>1, <3>2
  <2>8. QED
    BY <1>1, <1>3, <2>6, <2>7
<1>6. QED
  BY <1>4, <1>5 DEF Protocol

\* Every step of the signing task.
LEMMA SigningStep ==
  ASSUME NoWrap, IInv, Signing
  PROVE  IInv'
<1>1. TypeOK'
  BY TypeStep DEF IInv, Next
<1> USE DEF flash, IInv, TypeOK
<1>2. pc = "run" /\ UNCHANGED <<configured, rp, pc, chainFc, frames, boots>>
  BY DEF Signing, TakeForSigning, EmitSigned
<1>3. EpochBehindBoots' /\ IdleUnlessRunning' /\ VirginFlash'
  BY <1>2 DEF EpochBehindBoots, IdleUnlessRunning, VirginFlash
<1>4. CASE TakeForSigning
  <2>1. /\ procQ # <<>> /\ inHand = NoItem /\ lastSigned' = lastSigned
        /\ inHand' = procQ[1]
        /\ Len(procQ) >= 1 /\ Len(procQ') = Len(procQ) - 1
        /\ \A i \in 1 .. Len(procQ') : procQ'[i] = procQ[i + 1]
        /\ \A i \in 1 .. Len(procQ) : procQ[i] \in Fc
    BY <1>4, SMT DEF TakeForSigning
  <2>2. SignedWithinEpoch' /\ RunningInEpoch' /\ SignedAboveHistory'
    BY <1>2, <2>1, SMT DEF SignedWithinEpoch, RunningInEpoch, PipelineOrdered,
                           SignedAboveHistory
  <2>3. ASSUME NEW i \in 1 .. Len(procQ')
        PROVE  inHand' < procQ'[i] /\ lastSigned' < procQ'[i]
               /\ procQ'[i] < chainFc'
    <3>1. i + 1 \in 1 .. Len(procQ) /\ 1 \in 1 .. Len(procQ) /\ 1 < i + 1
      BY <2>1, <2>3, SMT
    <3>2. QED
      BY <1>2, <2>1, <2>3, <3>1 DEF PipelineOrdered
  <2>4. ASSUME NEW i \in 1 .. Len(procQ'), NEW j \in 1 .. Len(procQ'), i < j
        PROVE  procQ'[i] < procQ'[j]
    <3>1. i + 1 \in 1 .. Len(procQ) /\ j + 1 \in 1 .. Len(procQ)
          /\ i + 1 < j + 1
      BY <2>1, <2>4, SMT
    <3>2. QED
      BY <2>1, <2>4, <3>1 DEF PipelineOrdered
  <2>5. QED
    BY <1>1, <1>3, <2>2, <2>3, <2>4 DEF PipelineOrdered
<1>5. CASE EmitSigned
  <2>1. inHand \in Fc /\ lastSigned' = inHand /\ inHand' = NoItem
        /\ procQ' = procQ
    BY <1>5 DEF EmitSigned
  <2>2. inHand < chainFc
    BY <1>2 DEF RunningInEpoch
  <2>3. RunningInEpoch' /\ SignedAboveHistory'
    BY <1>2, <2>1, <2>2, SMT DEF RunningInEpoch, SignedAboveHistory, NoItem, Fc
  <2>4. PipelineOrdered'
    <3>1. \A i \in 1 .. Len(procQ) : procQ[i] \in Fc
      BY SMT
    <3>2. \A x \in Fc : NoItem < x
      BY SMT DEF NoItem, Fc
    <3>3. QED
      BY <1>2, <2>1, <3>1, <3>2 DEF PipelineOrdered
  <2>5. SignedWithinEpoch'
    <3>1. chainFc = rp * EpochStep + frames /\ frames <= EpochStep
      BY <1>2, BmuAssumption, SMT DEF RunningInEpoch, NoWrap, BmuAssumption
    <3>2. QED
      BY <1>2, <2>1, <2>2, <3>1, NextEpoch, EpochStartNat, BmuAssumption, SMT
      DEF SignedWithinEpoch, BmuAssumption, Fc
  <2>6. QED
    BY <1>1, <1>3, <2>3, <2>4, <2>5
<1>6. QED
  BY <1>4, <1>5 DEF Signing

LEMMA IInvStep ==
  ASSUME NoWrap, "probe" \notin HseFaults, IInv, [Next]_vars
  PROVE  IInv'
<1>1. CASE UNCHANGED vars
  BY <1>1 DEF vars, IInv, TypeOK, EpochBehindBoots, VirginFlash,
     SignedWithinEpoch, IdleUnlessRunning, RunningInEpoch, SignedAboveHistory,
     PipelineOrdered
<1>2. QED
  BY <1>1, PowerStep, BootStep, ProtocolStep, SigningStep DEF Next

LEMMA IInvCorrect ==
  ASSUME NoWrap, "probe" \notin HseFaults
  PROVE  Spec => []IInv
BY IInvInit, IInvStep, PTL DEF Spec

-----------------------------------------------------------------------------
(* The theorems.                                                           *)

\* What the signing task is about to print is above everything printed before,
\* across any number of restarts.
THEOREM SignedRises ==
  ASSUME NoWrap, "probe" \notin HseFaults
  PROVE  Spec => []SignedAboveHistory
<1>1. IInv => SignedAboveHistory
  BY DEF IInv
<1>2. QED
  BY <1>1, IInvCorrect, PTL

\* The frames between the rewrite and the signature keep their order, through
\* drops, key exchanges, resyncs and restarts.
THEOREM PipelineKeepsOrder ==
  ASSUME NoWrap, "probe" \notin HseFaults
  PROVE  Spec => []PipelineOrdered
<1>1. IInv => PipelineOrdered
  BY DEF IInv
<1>2. QED
  BY <1>1, IInvCorrect, PTL

\* A boot starts in an epoch nothing was signed from.
THEOREM EpochIsFresh ==
  ASSUME NoWrap, "probe" \notin HseFaults
  PROVE  Spec => []FreshEpoch
<1>1. ASSUME IInv
      PROVE  FreshEpoch
  BY <1>1, EpochStartNat, SMT
  DEF IInv, TypeOK, RunningInEpoch, FreshEpoch, Fc
<1>2. QED
  BY <1>1, IInvCorrect, PTL

\* The part of the invariant the epoch needs, which no bound enters.
LEMMA VirginStep ==
  ASSUME TypeOK, VirginFlash, [Next]_vars
  PROVE  VirginFlash'
<1> USE DEF TypeOK, VirginFlash, flash, ram
<1>1. CASE PowerOn \/ PowerLoss
  BY <1>1 DEF PowerOn, PowerLoss
<1>2. CASE Boot
  BY <1>2 DEF Boot, HseNotReady, BMU_ConfigureFcCounter, ConfigureSkipped,
     ProbeSucceeds, ConfigureWipes, BootRead, BMU_AdvanceFcEpoch, ReadAfterAdvance, Halt
<1>3. CASE Protocol
  BY <1>3 DEF Protocol, KeyExchangeOk, AcceptFrame, Resync
<1>4. CASE Signing
  BY <1>4 DEF Signing, TakeForSigning, EmitSigned
<1>5. CASE UNCHANGED vars
  BY <1>5 DEF vars
<1>6. QED
  BY <1>1, <1>2, <1>3, <1>4, <1>5 DEF Next

\* The counter in flash never goes back when the probe read can be trusted,
\* however long the boots and however many.
THEOREM EpochRises ==
  ASSUME "probe" \notin HseFaults
  PROVE  Spec => EpochNeverFalls
<1>1. Init => VirginFlash
  BY DEF Init, VirginFlash
<1>2. ASSUME TypeOK, VirginFlash, [Next]_vars
      PROVE  [rp' >= rp]_vars
  <2> USE DEF TypeOK, flash, ram
  <2>1. CASE PowerOn \/ PowerLoss
    BY <1>2, <2>1, SMT DEF PowerOn, PowerLoss
  <2>2. CASE Boot
    BY <1>2, <2>2, SMT DEF Boot, HseNotReady, BMU_ConfigureFcCounter,
       ConfigureSkipped, ConfigureWipes, ProbeMayFail, VirginFlash, BootRead,
       BMU_AdvanceFcEpoch, ReadAfterAdvance, Halt
  <2>3. CASE Protocol
    BY <1>2, <2>3, SMT DEF Protocol, KeyExchangeOk, AcceptFrame, Resync
  <2>4. CASE Signing
    BY <1>2, <2>4, SMT DEF Signing, TakeForSigning, EmitSigned
  <2>5. QED
    BY <1>2, <2>1, <2>2, <2>3, <2>4 DEF Next
<1>3. QED
  BY <1>1, <1>2, VirginStep, TypeCorrect, PTL DEF Spec, EpochNeverFalls

\* The BMU implements the rising counter: every step emits a larger counter or
\* leaves the last one alone.
THEOREM Refinement ==
  ASSUME NoWrap, "probe" \notin HseFaults
  PROVE  Spec => ImplementsFcSource
<1>1. Init => Abstract!Init
  BY DEF Init, Abstract!Init
<1>2. ASSUME IInv, [Next]_vars
      PROVE  [Abstract!Emit]_lastSigned
  <2> USE <1>2 DEF IInv, TypeOK, flash, ram
  <2>1. CASE EmitSigned
    BY <2>1, SMT DEF EmitSigned, SignedAboveHistory, Abstract!Emit, Fc, NoItem
  <2>2. CASE ~EmitSigned
    <3>1. lastSigned' = lastSigned
      BY <2>2 DEF Next, Boot, HseNotReady, Protocol, Signing, PowerOn, PowerLoss,
         BMU_ConfigureFcCounter, ConfigureSkipped, ConfigureWipes, BootRead,
         BMU_AdvanceFcEpoch, ReadAfterAdvance, Halt, KeyExchangeOk,
         AcceptFrame, Resync, TakeForSigning, vars
    <3>2. QED
      BY <3>1
  <2>3. QED
    BY <2>1, <2>2
<1>3. QED
  BY <1>1, <1>2, IInvCorrect, PTL
  DEF Spec, ImplementsFcSource, Abstract!Spec
=============================================================================
