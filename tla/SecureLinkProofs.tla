-------------------------- MODULE SecureLinkProofs --------------------------
(***************************************************************************)
(* Proofs about SecureLink, for any number of seeds, any modulus, window,  *)
(* failure limit and queue depth, and every fault: type correctness, that  *)
(* no frame is authenticated under one key and encrypted under another,    *)
(* that no counter is accepted twice under a key; and, as long as the      *)
(* restore of the session key does not fail, that the right key is in the  *)
(* CMU's RAM slot.                                                         *)
(*                                                                         *)
(* One inductive invariant, LinkInv, carries them all.  Its parts: TypeInv *)
(* (what each state implies about the keys it uses), SlotInv (the RAM      *)
(* slot, with and without csecMutex), HistoryInv (a seed offered to the    *)
(* BMU, or about to be, has never been used).                              *)
(***************************************************************************)
EXTENDS SecureLink, TLAPS

-----------------------------------------------------------------------------
(* Constants, numbers and queues.                                          *)

\* The PSK, the seeds and the absence of a key are told apart.
LEMMA Names ==
  /\ Psk # NoKey /\ Psk \notin Seeds /\ NoKey \notin Seeds /\ NoKey \notin Keys
  /\ NoFrame \notin Frame
<1>1. Psk # NoKey
  BY SMT DEF Psk, NoKey
<1>2. NoKey \notin Keys
  BY <1>1, LinkAssumption DEF LinkAssumption, Keys
<1>3. NoFrame \notin Frame
  BY <1>2, SMT DEF NoFrame, Frame
<1>4. QED
  BY <1>1, <1>2, <1>3, LinkAssumption DEF LinkAssumption

\* The parameters are numbers, and both counters hold 0 and 1.
LEMMA Numbers ==
  /\ FcModulus \in Nat /\ FcModulus >= 2
  /\ FcWindow \in Nat /\ FcWindow >= 1 /\ FcWindow < FcModulus
  /\ MaxFail \in Nat /\ MaxFail >= 1
  /\ CtrlDepth \in Nat /\ CtrlDepth >= 1
  /\ MaxFaults \in Nat
  /\ 0 \in Fc /\ 1 \in Fc
  /\ Fc \subseteq Nat
BY LinkAssumption, SMT DEF LinkAssumption, Fc

\* A counter stays a uint32.
LEMMA NextInRange ==
  ASSUME NEW t \in Fc
  PROVE  (t + 1) % FcModulus \in Fc
BY Numbers, SMT DEF Fc

\* Where the end of the window wraps, the window is empty: the counter after
\* one in the window never wraps.
LEMMA WindowBounds ==
  ASSUME bExp \in Fc, NEW t \in Window
  PROVE  t \in Fc /\ t >= bExp /\ (t + 1) % FcModulus = t + 1
<1>1. /\ t \in Nat /\ t < FcModulus /\ t >= bExp
      /\ t < (bExp + FcWindow) % FcModulus
  BY Numbers, SMT DEF Window, Fc
<1>2. (bExp + FcWindow) % FcModulus < FcModulus
  BY Numbers, SMT DEF Fc
<1>3. t + 1 < FcModulus
  BY <1>1, <1>2, Numbers, SMT DEF Fc
<1>4. (t + 1) % FcModulus = t + 1
  BY <1>1, <1>3, Numbers, SMT
<1>5. QED
  BY <1>1, <1>4 DEF Window

\* xQueueSend keeps ctrlQueue within its depth.
LEMMA KeyQueuedType ==
  ASSUME NEW q \in Seq(Seeds), Len(q) <= CtrlDepth, NEW s \in Seeds
  PROVE  /\ KeyQueued(q, s) \in Seq(Seeds)
         /\ Len(KeyQueued(q, s)) <= CtrlDepth
BY Numbers, SMT DEF KeyQueued

\* What is in ctrlQueue after xQueueSend was in it, or is the new frame.
LEMMA KeyQueuedItems ==
  ASSUME NEW q \in Seq(Seeds), NEW s \in Seeds,
         NEW i \in 1 .. Len(KeyQueued(q, s))
  PROVE  \/ i \in 1 .. Len(q) /\ KeyQueued(q, s)[i] = q[i]
         \/ KeyQueued(q, s)[i] = s
<1>1. CASE Len(q) < CtrlDepth
  BY <1>1, SMT DEF KeyQueued
<1>2. CASE ~(Len(q) < CtrlDepth)
  BY <1>2, SMT DEF KeyQueued
<1>3. QED
  BY <1>1, <1>2

\* xQueueReceive returns an entry; the others move up by one.
LEMMA QueueHead ==
  ASSUME NEW q \in Seq(Seeds), q # <<>>
  PROVE  /\ 1 \in 1 .. Len(q) /\ Head(q) = q[1] /\ Head(q) \in Seeds
         /\ Tail(q) \in Seq(Seeds) /\ Len(Tail(q)) = Len(q) - 1
         /\ \A i \in 1 .. Len(Tail(q)) :
              i + 1 \in 1 .. Len(q) /\ Tail(q)[i] = q[i + 1]
BY SMT

-----------------------------------------------------------------------------
(* Types.                                                                  *)

\* Where a key is loaded or used there is one; a BMU in OPERATIONAL has failures
\* left.
SeedInv ==
  /\ cState \in {"key_exchange", "wait_ack", "operational"} => cSeed \in Seeds
  /\ cState = "operational" => cSess = cSeed
  /\ cTx = "maced" => cFrame \in Frame
  /\ bState = "operational" => bKey \in Seeds /\ bFail < MaxFail

TypeInv == TypeOK /\ SeedInv

\* Both boards start with keys, counters and queues in range.
LEMMA TypeInit == Init => TypeInv
<1>1. <<>> \in Seq(Seeds) /\ Len(<<>>) = 0
  BY SMT
<1>2. QED
  BY <1>1, Names, Numbers, SMT
     DEF Init, TypeInv, TypeOK, SeedInv, Control, Keys

\* A fault is counted within the bound.
LEMMA FaultType ==
  ASSUME NEW k, Fault(k), nFaults \in 0 .. MaxFaults
  PROVE  nFaults' \in 0 .. MaxFaults
BY Numbers, SMT DEF Fault

\* Every step keeps the types.
LEMMA TypeStep == TypeInv /\ [Next]_vars => TypeInv'
<1> SUFFICES ASSUME TypeInv, [Next]_vars
             PROVE  TypeInv'
  OBVIOUS
<1> USE DEF TypeInv, TypeOK, SeedInv, Control, Keys, Ok
<1>0. nFaults' \in 0 .. MaxFaults
  <2>1. CASE UNCHANGED nFaults
    BY <2>1
  <2>2. CASE \E k \in FaultKinds : Fault(k)
    BY <2>2, FaultType
  <2>3. QED
    BY <2>1, <2>2
       DEF Next, CmuProtocol, CanTx, BmuCanRx, BmuProtocol, Environment, vars,
           FaultKinds,
           CmuInit, CmuSendKeyExchange, CmuAckTimeout, CmuAckGood, CmuAckBad,
           CmuResyncGood, CmuResyncBad, CmuResync, CanTxCheck, CanTxMac,
           CanTxSend, BmuRxKey, BmuRxData, BmuKeyExchange,
           BmuKeyExchangeFails, BmuAccept, BmuReject, BmuSendResync,
           BmuResync, Noise, CmuReset, BmuReset, ResyncFrame
<1>1. CASE CmuInit
  BY <1>0, <1>1, Numbers, SMT
     DEF CmuInit, cmb, bmu, queue, bmb, tx
<1>2. CASE CmuSendKeyExchange
  BY <1>0, <1>2, SMT DEF CmuSendKeyExchange, cmb, bmu, queue, bmb, tx
<1>3. CASE CmuAckTimeout
  BY <1>0, <1>3, SMT DEF CmuAckTimeout, cmb, bmu, queue, bmb, tx
<1>4. CASE CmuAckGood
  BY <1>0, <1>4, Numbers, SMT DEF CmuAckGood, cmb, bmu, queue, bmb, tx
<1>5. CASE CmuAckBad
  BY <1>0, <1>5, SMT DEF CmuAckBad, cmb, bmu, queue, bmb, tx
<1>6. CASE CmuResyncGood
  BY <1>0, <1>6, SMT DEF CmuResyncGood, cmb, bmu, queue, bmb, tx
<1>7. CASE CmuResyncBad
  BY <1>0, <1>7, SMT DEF CmuResyncBad, RestoredKey, cmb, bmu, queue, bmb, tx
<1>8. CASE CmuResync
  BY <1>0, <1>8, Numbers, SMT DEF CmuResync, cmb, bmu, queue, bmb, tx
<1>9. CASE CanTxCheck
  BY <1>0, <1>9, SMT DEF CanTxCheck, cmu, cmb, bmu, queue, bmb, tx
<1>10. CASE CanTxMac
  <2>1. cFc' \in Fc
    BY <1>10, NextInRange DEF CanTxMac
  <2>2. [fc |-> cFc', mac |-> cRam, enc |-> NoKey] \in Frame
    BY <2>1 DEF Frame
  <2>3. QED
    BY <1>0, <1>10, <2>1, <2>2, SMT DEF CanTxMac, cmu, cmb, bmu, queue, bmb, tx
<1>11. CASE CanTxSend
  <2>1. [cFrame EXCEPT !.enc = cRam] \in Frame
    BY <1>11, SMT DEF CanTxSend, Frame
  <2>2. QED
    BY <1>0, <1>11, <2>1, SMT DEF CanTxSend, cmu, cmb, bmu, queue, bmb, tx
<1>12. CASE BmuRxKey
  <2>1. keyMb \in Seeds
    BY <1>12 DEF BmuRxKey
  <2>2. QED
    BY <1>0, <1>12, <2>1, KeyQueuedType, SMT
       DEF BmuRxKey, cmu, cmb, bmu, queue, bmb, tx
<1>13. CASE BmuRxData
  BY <1>0, <1>13, SMT DEF BmuRxData, cmu, cmb, bmu, queue, bmb, tx
<1>14. CASE BmuKeyExchange
  <2>1. Head(ctrlQ) \in Seeds
    BY <1>14, QueueHead DEF BmuKeyExchange
  <2>2. <<>> \in Seq(Seeds) /\ Len(<<>>) <= CtrlDepth
    BY Numbers, SMT
  <2>3. QED
    BY <1>0, <1>14, <2>1, <2>2, Numbers, SMT
       DEF BmuKeyExchange, ImportSession, cmu, cmb, bmu, queue, bmb, tx
<1>15. CASE BmuKeyExchangeFails
  <2>1. Head(ctrlQ) \in Seeds /\ Tail(ctrlQ) \in Seq(Seeds)
        /\ Len(Tail(ctrlQ)) <= CtrlDepth
    BY <1>15, QueueHead, Numbers, SMT DEF BmuKeyExchangeFails
  <2>2. QED
    BY <1>0, <1>15, <2>1, Numbers, SMT
       DEF BmuKeyExchangeFails, ImportSession, cmu, cmb, bmu, queue, bmb, tx
<1>16. CASE BmuAccept
  <2>1. dataQ.fc \in Fc /\ bKey \in Seeds
    BY <1>16 DEF BmuAccept, Frame, Fc
  <2>2. (dataQ.fc + 1) % FcModulus \in Fc
    BY <2>1, NextInRange
  <2>3. QED
    BY <1>0, <1>16, <2>1, <2>2, Numbers, SMT
       DEF BmuAccept, cmu, cmb, bmu, queue, bmb, tx
<1>17. CASE BmuReject
  BY <1>0, <1>17, Numbers, SMT DEF BmuReject, cmu, cmb, bmu, queue, bmb, tx
<1>18. CASE BmuSendResync
  BY <1>0, <1>18, SMT
     DEF BmuSendResync, ResyncFrame, cmu, cmb, bmu, queue, bmb, tx
<1>19. CASE BmuResync
  <2>2. <<>> \in Seq(Seeds) /\ Len(<<>>) <= CtrlDepth
    BY Numbers, SMT
  <2>3. QED
    BY <1>0, <1>19, <2>2, Numbers, SMT
       DEF BmuResync, cmu, cmb, bmu, queue, bmb, tx
<1>20. CASE Noise
  BY <1>0, <1>20, SMT DEF Noise, cmu, cmb, bmu, queue, bmb, tx
<1>21. CASE CmuReset
  BY <1>0, <1>21, Numbers, SMT DEF CmuReset, cmu, cmb, bmu, queue, bmb, tx
<1>22. CASE BmuReset
  <2>2. <<>> \in Seq(Seeds) /\ Len(<<>>) <= CtrlDepth
    BY Numbers, SMT
  <2>3. QED
    BY <1>0, <1>22, <2>2, Numbers, SMT
       DEF BmuReset, cmu, cmb, bmu, queue, bmb, tx
<1>23. CASE UNCHANGED vars
  BY <1>23 DEF vars
<1>24. QED
  BY <1>1, <1>2, <1>3, <1>4, <1>5, <1>6, <1>7, <1>8, <1>9, <1>10, <1>11,
     <1>12, <1>13, <1>14, <1>15, <1>16, <1>17, <1>18, <1>19, <1>20, <1>21,
     <1>22, <1>23
     DEF Next, CmuProtocol, CanTx, BmuCanRx, BmuProtocol, Environment

-----------------------------------------------------------------------------
(* The RAM slot.                                                           *)

\* While the CMU builds a key frame or waits for the answer, it has the PSK.
PskInSlot == cState \in {"init", "key_exchange", "wait_ack"} => cRam = Psk

\* A frame authenticated under a session key still finds that key in the slot:
\* csecMutex holds off the resync, and where a session key is loaded without the
\* mutex, in WAIT_ACK, the slot held the PSK, so the frame was made with it.
SlotInv ==
  /\ PskInSlot
  /\ cFrame.enc = NoKey
  /\ cTx = "maced" /\ cFrame.mac \in Seeds => cRam = cFrame.mac
  /\ MacAndCipherAgree

\* The CMU powers up with the PSK in the slot and no frame.
LEMMA SlotInit == Init => SlotInv
BY Names, SMT DEF Init, SlotInv, PskInSlot, MacAndCipherAgree, NoFrame

\* Every step keeps slot and frames together.
LEMMA SlotStep == TypeInv /\ SlotInv /\ [Next]_vars => SlotInv'
<1> SUFFICES ASSUME TypeInv, SlotInv, [Next]_vars
             PROVE  SlotInv'
  OBVIOUS
<1> USE DEF SlotInv, PskInSlot, MacAndCipherAgree, cmu, cmb, bmu, queue, bmb, tx
<1>1. CASE CmuProtocol
  <2>1. UNCHANGED <<cTx, cFrame, dataMb, dataQ>>
    BY <1>1
       DEF CmuProtocol, CmuInit, CmuSendKeyExchange, CmuAckTimeout, CmuAckGood,
           CmuAckBad, CmuResyncGood, CmuResyncBad, CmuResync
  <2>2. PskInSlot'
    BY <1>1, SMT
       DEF CmuProtocol, CmuInit, CmuSendKeyExchange, CmuAckTimeout, CmuAckGood,
           CmuAckBad, CmuResyncGood, CmuResyncBad, CmuResync
  <2>3. cTx = "maced" /\ cFrame.mac \in Seeds => cRam' = cRam
    BY <1>1, Names, SMT
       DEF CmuProtocol, CmuInit, CmuSendKeyExchange, CmuAckTimeout, CmuAckGood,
           CmuAckBad, CmuResyncGood, CmuResyncBad, CmuResync, MutexFree
  <2>4. QED
    BY <2>1, <2>2, <2>3
<1>2. CASE CanTxCheck
  BY <1>2, SMT DEF CanTxCheck
<1>3. CASE CanTxMac
  BY <1>3, SMT DEF CanTxMac
<1>4. CASE CanTxSend
  <2>1. cFrame \in Frame
    BY <1>4 DEF CanTxSend, TypeInv, SeedInv
  <2>2. CASE dataMb' = [cFrame EXCEPT !.enc = cRam]
    <3>1. dataMb'.mac = cFrame.mac /\ dataMb'.enc = cRam
      BY <2>1, <2>2 DEF Frame
    <3>2. QED
      BY <1>4, <3>1, Names, SMT DEF CanTxSend, NoFrame
  <2>3. CASE UNCHANGED dataMb
    BY <1>4, <2>3, Names, SMT DEF CanTxSend, NoFrame
  <2>4. QED
    BY <1>4, <2>2, <2>3 DEF CanTxSend
<1>5. CASE BmuCanRx
  BY <1>5, Names, SMT DEF BmuCanRx, BmuRxKey, BmuRxData, NoFrame
<1>6. CASE BmuProtocol
  BY <1>6, Names, SMT
     DEF BmuProtocol, BmuKeyExchange, BmuKeyExchangeFails, BmuAccept, BmuReject,
         BmuSendResync, BmuResync, NoFrame
<1>7. CASE Environment
  BY <1>7, Names, SMT DEF Environment, Noise, CmuReset, BmuReset, NoFrame
<1>8. CASE UNCHANGED vars
  BY <1>8, SMT DEF vars
<1>9. QED
  BY <1>1, <1>2, <1>3, <1>4, <1>5, <1>6, <1>7, <1>8 DEF Next, CanTx

-----------------------------------------------------------------------------
(* Counters accepted under a key.                                          *)

\* The seed the CMU is offering has no accepted counter, nor any frame under it.
FreshSeed ==
  cState \in {"key_exchange", "wait_ack"} =>
    best[cSeed] = 0 /\ \A f \in {cFrame, dataQ, dataMb} : f.mac # cSeed

\* So has every seed the BMU in INIT could still take.
FreshOffers ==
  bState = "init" =>
    /\ keyMb # NoKey => best[keyMb] = 0
    /\ \A i \in 1 .. Len(ctrlQ) : best[ctrlQ[i]] = 0

\* The BMU in OPERATIONAL expects a counter above those it accepted.
AboveBest == bState = "operational" => bExp >= 1 /\ best[bKey] < bExp

HistoryInv == FreshSeed /\ FreshOffers /\ AboveBest

\* At power-up nothing was offered or accepted.
LEMMA HistoryInit == Init => HistoryInv
<1>1. Len(<<>>) = 0
  BY SMT
<1>2. QED
  BY <1>1, SMT DEF Init, HistoryInv, FreshSeed, FreshOffers, AboveBest

\* CmuInit draws a seed that nothing holds; until the answer is in, no frame is
\* made under it, since CMU_CanTxTask finds the PSK.
LEMMA FreshSeedStep ==
  ASSUME TypeInv, SlotInv, HistoryInv, [Next]_vars
  PROVE  FreshSeed'
<1> SUFFICES ASSUME (cState \in {"key_exchange", "wait_ack"})'
             PROVE  /\ best'[cSeed'] = 0
                    /\ cFrame'.mac # cSeed'
                    /\ dataQ'.mac # cSeed'
                    /\ dataMb'.mac # cSeed'
  BY DEF FreshSeed
<1> USE DEF HistoryInv, FreshSeed, cmu, cmb, bmu, queue, bmb, tx
<1>1. CASE CmuInit
  <2>1. PICK s \in Seeds :
          ~Held(s) /\ cSeed' = s /\ best' = [best EXCEPT ![s] = 0]
    BY <1>1, SMT DEF CmuInit
  <2>2. best'[s] = 0
    BY <2>1 DEF TypeInv, TypeOK
  <2>3. QED
    BY <1>1, <2>1, <2>2 DEF CmuInit, Held
<1>2. CASE cState \in {"key_exchange", "wait_ack"}
  <2>1. cSeed \in Seeds
    BY <1>2 DEF TypeInv, SeedInv
  <2>2. CASE CmuProtocol
    BY <1>2, <2>2, SMT
       DEF CmuProtocol, CmuInit, CmuSendKeyExchange, CmuAckTimeout, CmuAckGood,
           CmuAckBad, CmuResyncGood, CmuResyncBad, CmuResync
  <2>3. CASE CanTxCheck
    BY <1>2, <2>3, SMT DEF CanTxCheck
  <2>4. CASE CanTxMac
    <3>1. cRam # cSeed
      BY <1>2, <2>1, Names DEF SlotInv, PskInSlot
    <3>2. QED
      BY <1>2, <2>4, <3>1, SMT DEF CanTxMac
  <2>5. CASE CanTxSend
    <3>1. cFrame \in Frame
      BY <2>5 DEF CanTxSend, TypeInv, SeedInv
    <3>2. [cFrame EXCEPT !.enc = cRam].mac = cFrame.mac
      BY <3>1 DEF Frame
    <3>3. cFrame' = NoFrame /\ NoFrame.mac # cSeed
      BY <2>1, <2>5, Names DEF CanTxSend, NoFrame
    <3>4. QED
      BY <1>2, <2>5, <3>2, <3>3 DEF CanTxSend
  <2>6. CASE BmuCanRx
    BY <1>2, <2>1, <2>6, Names, SMT DEF BmuCanRx, BmuRxKey, BmuRxData, NoFrame
  <2>7. CASE BmuAccept
    <3>1. bKey # cSeed
      BY <1>2, <2>7 DEF BmuAccept, Verifies
    <3>2. best'[cSeed] = best[cSeed]
      BY <2>1, <2>7, <3>1 DEF BmuAccept, TypeInv, TypeOK
    <3>3. QED
      BY <1>2, <2>1, <2>7, <3>2, Names, SMT DEF BmuAccept, NoFrame
  <2>8. CASE BmuProtocol /\ ~BmuAccept
    BY <1>2, <2>1, <2>8, Names, SMT
       DEF BmuProtocol, BmuKeyExchange, BmuKeyExchangeFails, BmuReject,
           BmuSendResync, BmuResync, NoFrame
  <2>9. CASE Environment
    BY <1>2, <2>1, <2>9, Names, SMT
       DEF Environment, Noise, CmuReset, BmuReset, NoFrame
  <2>10. CASE UNCHANGED vars
    BY <1>2, <2>10 DEF vars
  <2>11. QED
    BY <2>2, <2>3, <2>4, <2>5, <2>6, <2>7, <2>8, <2>9, <2>10 DEF Next, CanTx
<1>3. CASE ~CmuInit /\ cState \notin {"key_exchange", "wait_ack"}
  BY <1>3, SMT
     DEF Next, CmuProtocol, CanTx, BmuCanRx, BmuProtocol, Environment, vars,
         CmuSendKeyExchange, CmuAckTimeout, CmuAckGood,
         CmuAckBad, CmuResyncGood, CmuResyncBad, CmuResync, CanTxCheck,
         CanTxMac, CanTxSend, BmuRxKey, BmuRxData, BmuKeyExchange,
         BmuKeyExchangeFails, BmuAccept, BmuReject, BmuSendResync, BmuResync,
         Noise, CmuReset, BmuReset
<1>4. QED
  BY <1>1, <1>2, <1>3

\* A seed reaches the BMU from KEY_EXCHANGE only; entering INIT, from RESYNC or by
\* a reset, leaves no older key frame behind.
LEMMA FreshOffersStep ==
  ASSUME TypeInv, SlotInv, HistoryInv, [Next]_vars
  PROVE  FreshOffers'
<1> SUFFICES ASSUME bState' = "init"
             PROVE  /\ keyMb' # NoKey => best'[keyMb'] = 0
                    /\ \A i \in 1 .. Len(ctrlQ') : best'[ctrlQ'[i]] = 0
  BY DEF FreshOffers
<1> USE DEF HistoryInv, FreshOffers, cmu, cmb, bmu, queue, bmb, tx
<1>0. Len(<<>>) = 0
  BY SMT
<1>1. CASE BmuResync
  BY <1>0, <1>1, SMT DEF BmuResync, MailboxPolled
<1>2. CASE BmuReset
  BY <1>0, <1>2, SMT DEF BmuReset
<1>3. CASE bState = "init"
  <2>1. CASE CmuInit
    <3>1. CASE UNCHANGED best
      BY <1>3, <2>1, <3>1 DEF CmuInit
    <3>2. CASE \E s \in Seeds : best' = [best EXCEPT ![s] = 0]
      <4>1. \A t \in Seeds : best[t] = 0 => best'[t] = 0
        BY <3>2 DEF TypeInv, TypeOK
      <4>2. \A i \in 1 .. Len(ctrlQ) : ctrlQ[i] \in Seeds
        BY SMT DEF TypeInv, TypeOK
      <4>3. keyMb # NoKey => keyMb \in Seeds
        BY DEF TypeInv, TypeOK
      <4>4. QED
        BY <1>3, <2>1, <4>1, <4>2, <4>3 DEF CmuInit
    <3>3. QED
      BY <2>1, <3>1, <3>2, SMT DEF CmuInit
  <2>2. CASE CmuSendKeyExchange
    BY <1>3, <2>2, SMT DEF CmuSendKeyExchange, FreshSeed
  <2>3. CASE BmuRxKey
    <3>1. keyMb \in Seeds /\ ctrlQ \in Seq(Seeds)
      BY <2>3 DEF BmuRxKey, TypeInv, TypeOK
    <3>2. ASSUME NEW i \in 1 .. Len(ctrlQ')
          PROVE  best[ctrlQ'[i]] = 0
      <4>1. \/ i \in 1 .. Len(ctrlQ) /\ ctrlQ'[i] = ctrlQ[i]
            \/ ctrlQ'[i] = keyMb
        BY <2>3, <3>1, KeyQueuedItems DEF BmuRxKey
      <4>2. QED
        BY <1>3, <2>3, <4>1 DEF BmuRxKey
    <3>3. QED
      BY <2>3, <3>2 DEF BmuRxKey
  <2>4. CASE BmuKeyExchangeFails
    <3>1. \A i \in 1 .. Len(ctrlQ') :
            i + 1 \in 1 .. Len(ctrlQ) /\ ctrlQ'[i] = ctrlQ[i + 1]
      BY <2>4, QueueHead DEF BmuKeyExchangeFails, TypeInv, TypeOK
    <3>2. QED
      BY <1>3, <2>4, <3>1 DEF BmuKeyExchangeFails
  <2>5. CASE /\ [Next]_vars
             /\ ~(CmuInit \/ CmuSendKeyExchange \/ BmuRxKey
                    \/ BmuKeyExchangeFails \/ BmuResync \/ BmuReset)
    BY <1>3, <2>5, SMT
       DEF Next, CmuProtocol, CanTx, BmuCanRx, BmuProtocol, Environment, vars,
           CmuAckTimeout, CmuAckGood, CmuAckBad, CmuResyncGood, CmuResyncBad,
           CmuResync, CanTxCheck, CanTxMac, CanTxSend, BmuRxData,
           BmuKeyExchange, BmuAccept, BmuReject, BmuSendResync, Noise, CmuReset
  <2>6. QED
    BY <1>1, <1>2, <2>1, <2>2, <2>3, <2>4, <2>5
<1>4. CASE bState # "init" /\ ~BmuResync /\ ~BmuReset
  BY <1>4, SMT
     DEF Next, CmuProtocol, CanTx, BmuCanRx, BmuProtocol, Environment, vars,
         CmuInit, CmuSendKeyExchange, CmuAckTimeout, CmuAckGood,
         CmuAckBad, CmuResyncGood, CmuResyncBad, CmuResync, CanTxCheck,
         CanTxMac, CanTxSend, BmuRxKey, BmuRxData, BmuKeyExchange,
         BmuKeyExchangeFails, BmuAccept, BmuReject, BmuSendResync,
         Noise, CmuReset
<1>5. QED
  BY <1>1, <1>2, <1>3, <1>4

\* The import of a key begins at 1 with a seed never used; accepting a counter
\* expects the next one, which does not wrap.
LEMMA AboveBestStep ==
  ASSUME TypeInv, SlotInv, HistoryInv, [Next]_vars
  PROVE  AboveBest'
<1> SUFFICES ASSUME bState' = "operational"
             PROVE  bExp' >= 1 /\ best'[bKey'] < bExp'
  BY DEF AboveBest
<1> USE DEF HistoryInv, AboveBest, cmu, cmb, bmu, queue, bmb, tx
<1>1. CASE BmuKeyExchange
  <2>1. Head(ctrlQ) = ctrlQ[1] /\ 1 \in 1 .. Len(ctrlQ)
    BY <1>1, QueueHead DEF BmuKeyExchange, TypeInv, TypeOK
  <2>2. best[bKey'] = 0
    BY <1>1, <2>1 DEF BmuKeyExchange, ImportSession, FreshOffers
  <2>3. QED
    BY <1>1, <2>2, SMT DEF BmuKeyExchange, ImportSession
<1>2. CASE bState = "operational"
  <2>1. bKey \in Seeds /\ best \in [Seeds -> Fc] /\ bExp \in Fc
    BY <1>2 DEF TypeInv, TypeOK, SeedInv
  <2>2. CASE CmuInit
    <3>1. CASE UNCHANGED best
      BY <1>2, <2>2, <3>1 DEF CmuInit
    <3>2. CASE \E s \in Seeds : ~Held(s) /\ best' = [best EXCEPT ![s] = 0]
      <4>1. best'[bKey] = best[bKey]
        BY <2>1, <3>2 DEF Held
      <4>2. QED
        BY <1>2, <2>2, <4>1 DEF CmuInit
    <3>3. QED
      BY <2>2, <3>1, <3>2, SMT DEF CmuInit
  <2>3. CASE BmuAccept
    <3>1. dataQ.fc \in Window /\ dataQ.fc \in Fc
      BY <2>3 DEF BmuAccept, Verifies, Window
    <3>2. bExp' = dataQ.fc + 1 /\ dataQ.fc >= bExp
      BY <2>1, <2>3, <3>1, WindowBounds DEF BmuAccept
    <3>3. best'[bKey] = dataQ.fc /\ bKey' = bKey
      BY <2>1, <2>3 DEF BmuAccept
    <3>4. dataQ.fc \in Nat /\ bExp \in Nat /\ bExp >= 1
      BY <1>2, <2>1, <3>1, Numbers
    <3>5. QED
      BY <3>2, <3>3, <3>4, SMT
  <2>4. CASE [Next]_vars /\ ~CmuInit /\ ~BmuAccept /\ ~BmuKeyExchange
    BY <1>2, <2>4, SMT
       DEF Next, CmuProtocol, CanTx, BmuCanRx, BmuProtocol, Environment, vars,
           CmuSendKeyExchange, CmuAckTimeout, CmuAckGood, CmuAckBad,
           CmuResyncGood, CmuResyncBad, CmuResync, CanTxCheck, CanTxMac,
           CanTxSend, BmuRxKey, BmuRxData, BmuKeyExchangeFails, BmuReject,
           BmuSendResync, BmuResync, Noise, CmuReset, BmuReset
  <2>5. QED
    BY <1>1, <2>2, <2>3, <2>4
<1>3. CASE bState # "operational" /\ ~BmuKeyExchange
  BY <1>3, SMT
     DEF Next, CmuProtocol, CanTx, BmuCanRx, BmuProtocol, Environment, vars,
         CmuInit, CmuSendKeyExchange, CmuAckTimeout, CmuAckGood,
         CmuAckBad, CmuResyncGood, CmuResyncBad, CmuResync, CanTxCheck,
         CanTxMac, CanTxSend, BmuRxKey, BmuRxData,
         BmuKeyExchangeFails, BmuAccept, BmuReject, BmuSendResync, BmuResync,
         Noise, CmuReset, BmuReset
<1>4. QED
  BY <1>1, <1>2, <1>3

-----------------------------------------------------------------------------
(* The inductive invariant, and what follows from it.                      *)

\* The three parts together.
LinkInv == TypeInv /\ SlotInv /\ HistoryInv

\* The inductive invariant holds at power-up.
LEMMA LinkInvInit == Init => LinkInv
BY TypeInit, SlotInit, HistoryInit DEF LinkInv

\* Every step keeps it.
LEMMA LinkInvStep == LinkInv /\ [Next]_vars => LinkInv'
BY TypeStep, SlotStep, FreshSeedStep, FreshOffersStep, AboveBestStep
   DEF LinkInv, HistoryInv

\* The inductive invariant holds of the link under every fault.
THEOREM LinkInvariant == Spec => []LinkInv
BY LinkInvInit, LinkInvStep, PTL DEF Spec

\* Keys, counters, queues and the failure count stay in range.
THEOREM TypeCorrect == Spec => []TypeOK
<1>1. LinkInv => TypeOK
  BY DEF LinkInv, TypeInv
<1>2. QED
  BY <1>1, LinkInvariant, PTL

\* No frame leaves CMU_CanTxTask authenticated under a session key and encrypted
\* under another key, whatever resyncs and resets fall in between.
THEOREM NoMixedFrames == Spec => []MacAndCipherAgree
<1>1. LinkInv => MacAndCipherAgree
  BY DEF LinkInv, SlotInv
<1>2. QED
  BY <1>1, LinkInvariant, PTL

\* Every counter the BMU would accept is above all it has accepted under that key:
\* through wraps, repeated key frames, resyncs and resets of either board.
THEOREM NoCounterTwice == Spec => []WindowAboveHistory
<1>1. LinkInv => WindowAboveHistory
  <2>1. SUFFICES ASSUME LinkInv, bState = "operational", NEW t \in Window
                 PROVE  t > best[bKey]
    BY DEF WindowAboveHistory
  <2>2. bExp \in Fc /\ bKey \in Seeds /\ best[bKey] \in Fc
    BY <2>1 DEF LinkInv, TypeInv, TypeOK, SeedInv
  <2>3. t \in Fc /\ t >= bExp
    BY <2>2, WindowBounds
  <2>4. best[bKey] < bExp
    BY <2>1 DEF LinkInv, HistoryInv, AboveBest
  <2>5. bExp \in Nat /\ best[bKey] \in Nat /\ t \in Nat
    BY <2>2, <2>3, Numbers
  <2>6. QED
    BY <2>3, <2>4, <2>5, SMT
<1>2. QED
  BY <1>1, LinkInvariant, PTL

\* Unless the restore of the session key fails, the CMU in OPERATIONAL has the key
\* of the seed it exchanged in the RAM slot, and before that the PSK.
THEOREM RightKey ==
  ASSUME "restore" \notin Faults
  PROVE  Spec => []RightKeyInSlot
<1>1. Init => RightKeyInSlot
  BY SMT DEF Init, RightKeyInSlot
<1>2. RightKeyInSlot /\ LinkInv /\ [Next]_vars => RightKeyInSlot'
  <2>0. SUFFICES ASSUME RightKeyInSlot, LinkInv, [Next]_vars
                 PROVE  RightKeyInSlot'
    OBVIOUS
  <2>1. PskInSlot'
    BY <2>0, SlotStep DEF LinkInv, SlotInv
  <2>2. (cState = "operational" => cRam = cSess /\ cSess = cSeed)'
    BY <2>0, SMT
       DEF RightKeyInSlot, Next, CmuProtocol, CanTx, BmuCanRx, BmuProtocol,
           Environment, vars, cmu, cmb, bmu, queue, bmb, tx,
           CmuInit, CmuSendKeyExchange, CmuAckTimeout, CmuAckGood,
           CmuAckBad, CmuResyncGood, CmuResyncBad, CmuResync, RestoredKey,
           Fault, CanTxCheck, CanTxMac, CanTxSend, BmuRxKey, BmuRxData,
           BmuKeyExchange, BmuKeyExchangeFails, BmuAccept, BmuReject,
           BmuSendResync, BmuResync, Noise, CmuReset, BmuReset
  <2>3. QED
    BY <2>1, <2>2 DEF RightKeyInSlot, PskInSlot
<1>3. QED
  BY <1>1, <1>2, LinkInvariant, PTL DEF Spec
=============================================================================
