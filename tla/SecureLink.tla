----------------------------- MODULE SecureLink -----------------------------
(***************************************************************************)
(* The secured CAN-FD link between the CMU (battery side) and the BMU:     *)
(* key exchange, authenticated data frames with a freshness counter, and   *)
(* resynchronisation after repeated failures.                              *)
(*                                                                         *)
(* CMU, src/CMU_BMS_S32K144/src/main.c: CMU_ProtocolTask (priority 2) runs *)
(* the state machine, CMU_CanTxTask (priority 1) sends data; both use the  *)
(* one RAM key slot of the CSEc, the second under csecMutex always, the    *)
(* first only in OPERATIONAL and RESYNC.                                   *)
(* BMU, src/BMU_BMS_S32K344/src/main.c: BMU_CanRxTask (priority 3) moves   *)
(* frames from the CAN mailboxes to queues, BMU_ProtocolTask (priority 2)  *)
(* runs the state machine.                                                 *)
(*                                                                         *)
(* A step of a task runs to its next blocking point or to where a lower-   *)
(* priority task's steps could fall in between.  Cryptography is ideal: a  *)
(* frame is good under the one key that made it, and the key derived from  *)
(* a seed is the seed.  Mailboxes hold the newest frame until it is read,  *)
(* whether or not the software is polling.  The CMU is enrolled in the     *)
(* whitelist and UART data keeps coming.                                   *)
(***************************************************************************)
EXTENDS Integers, Sequences, FiniteSets

CONSTANTS
  Seeds,         \* session seeds; one is drawn again only when nothing holds it
  FcModulus,     \* both frame counters are uint32
  FcWindow,      \* FC_WINDOW_SIZE
  MaxFail,       \* MAX_CMAC_FAIL_COUNT
  CtrlDepth,     \* RX_QUEUE_LENGTH, the depth of ctrlQueue
  MaxFc,         \* bound: data frames sent in one session
  Faults,        \* the kinds of fault that may happen
  MaxFaults      \* bound: faults in a behaviour

Psk    == "psk"      \* PreSharedKey
NoKey  == "none"

FaultKinds == {"kxLoss", "kxLate", "dataLoss", "ackLoss", "resyncLoss",
               "noise", "cmuReset", "bmuReset", "cmuCrypto", "bmuCrypto",
               "restore", "resyncMac"}

ASSUME LinkAssumption ==
  /\ Seeds # {} /\ Psk \notin Seeds /\ NoKey \notin Seeds
  /\ FcModulus \in Nat \ {0}
  /\ FcWindow \in 1 .. FcModulus - 1
  /\ MaxFail \in Nat \ {0}
  /\ CtrlDepth \in Nat \ {0}
  /\ MaxFc \in Nat
  /\ MaxFaults \in Nat
  /\ Faults \subseteq FaultKinds

VARIABLES
  cState,        \* CMU g_proto_state
  cSeed,         \* CMU g_seed
  cRam,          \* the key in the CSEc RAM slot
  cSess,         \* CMU g_session_key, the plain copy
  cFc,           \* CMU g_freshness_counter
  cTx,           \* where CMU_CanTxTask stands: idle, armed or maced
  cFrame,        \* the frame it is building
  ackMb,         \* CMU mailbox for 0x16: none, good or bad
  resyncMb,      \* CMU mailbox for 0x17: none, good or bad
  bState,        \* BMU g_proto_state; "resent" is RESYNC with the request out
  bKey,          \* the session key imported into the HSE
  bExp,          \* BMU g_expected_fc
  bFail,         \* BMU g_cmac_fail_count
  ctrlQ,         \* ctrlQueue: seeds of key-exchange frames
  dataQ,         \* dataQueue: one frame, overwritten
  keyMb,         \* BMU mailbox for 0x15
  dataMb,        \* BMU mailbox for 0x14
  best,          \* history: the highest counter accepted under each key
  nFaults        \* bound: faults so far

cmu   == <<cState, cSeed, cRam, cSess, cFc>>
tx    == <<cTx, cFrame>>
cmb   == <<ackMb, resyncMb>>
bmu   == <<bState, bKey, bExp, bFail>>
queue == <<ctrlQ, dataQ>>
bmb   == <<keyMb, dataMb>>
vars  == <<cState, cSeed, cRam, cSess, cFc, cTx, cFrame, ackMb, resyncMb,
           bState, bKey, bExp, bFail, ctrlQ, dataQ, keyMb, dataMb,
           best, nFaults>>

Fc      == 0 .. FcModulus - 1
Keys    == Seeds \cup {Psk}
NoFrame == [fc |-> 0, mac |-> NoKey, enc |-> NoKey]
Frame   == [fc : Fc, mac : Keys, enc : Keys \cup {NoKey}]
Control == {"none", "good", "bad"}

TypeOK ==
  /\ cState \in {"init", "key_exchange", "wait_ack", "operational", "resync",
                 "error"}
  /\ cSeed \in Seeds \cup {NoKey} /\ cSess \in Seeds \cup {NoKey}
  /\ cRam \in Keys
  /\ cFc \in Fc
  /\ cTx \in {"idle", "armed", "maced"}
  /\ cFrame \in Frame \cup {NoFrame}
  /\ ackMb \in Control /\ resyncMb \in Control
  /\ bState \in {"init", "operational", "resync", "resent", "error"}
  /\ bKey \in Seeds \cup {NoKey}
  /\ bExp \in Fc
  /\ bFail \in 0 .. MaxFail
  /\ ctrlQ \in Seq(Seeds) /\ Len(ctrlQ) <= CtrlDepth
  /\ dataQ \in Frame \cup {NoFrame} /\ dataMb \in Frame \cup {NoFrame}
  /\ keyMb \in Seeds \cup {NoKey}
  /\ best \in [Seeds -> Fc]
  /\ nFaults \in 0 .. MaxFaults

Init ==
  /\ cState = "init" /\ cSeed = NoKey /\ cRam = Psk /\ cSess = NoKey
  /\ cFc = 0 /\ cTx = "idle" /\ cFrame = NoFrame
  /\ ackMb = "none" /\ resyncMb = "none"
  /\ bState = "init" /\ bKey = NoKey /\ bExp = 0 /\ bFail = 0
  /\ ctrlQ = <<>> /\ dataQ = NoFrame /\ keyMb = NoKey /\ dataMb = NoFrame
  /\ best = [s \in Seeds |-> 0]
  /\ nFaults = 0

-----------------------------------------------------------------------------
Ok == UNCHANGED nFaults

Fault(kind) ==
  /\ kind \in Faults
  /\ nFaults < MaxFaults
  /\ nFaults' = nFaults + 1

\* Where a seed, or a key derived from it, can still have an effect.
Held(s) ==
  \/ s = bKey \/ s = keyMb
  \/ \E i \in 1 .. Len(ctrlQ) : ctrlQ[i] = s
  \/ \E f \in {cFrame, dataQ, dataMb} : s \in {f.mac, f.enc}

-----------------------------------------------------------------------------
(* Mutations: what the named definition would be with a bug in its lines.  *)

CtrlQueueUnbounded(q, s) == Append(q, s)                  \* of KeyQueued
RestoreForgotten         == Psk                           \* of RestoredKey
MutexDropped             == TRUE                          \* of MutexFree
MailboxKept              == TRUE                          \* of MailboxPolled
ResyncUnderSessionKey    == "bad"                         \* of ResyncFrame
WindowWithoutOverflow    ==                               \* of Window
  {t \in Fc : (t - bExp) % FcModulus < FcWindow}

-----------------------------------------------------------------------------
(* CMU_ProtocolTask.                                                       *)

\* INIT: a fresh seed, encrypted under the key in the RAM slot.
CmuInit ==
  /\ cState = "init"
  /\ \/ /\ \E s \in Seeds :
             /\ ~Held(s)
             /\ cSeed' = s
             /\ best' = [best EXCEPT ![s] = 0]
        /\ cState' = "key_exchange"
        /\ Ok
     \/ /\ Fault("cmuCrypto")
        /\ cState' = "error"
        /\ UNCHANGED <<cSeed, best>>
  /\ UNCHANGED <<cRam, cSess, cFc, tx, cmb, bmu, queue, bmb>>

\* KEY_EXCHANGE: the frame is on the bus, or the wait for it ends first; it
\* may still go out afterwards.
CmuSendKeyExchange ==
  /\ cState = "key_exchange"
  /\ \/ cState' = "wait_ack" /\ keyMb' = cSeed /\ Ok
     \/ Fault("kxLoss") /\ UNCHANGED <<cState, keyMb>>
     \/ Fault("kxLate") /\ keyMb' = cSeed /\ UNCHANGED cState
  /\ UNCHANGED <<cSeed, cRam, cSess, cFc, tx, cmb, bmu, queue, dataMb, best>>

\* WAIT_ACK: no answer within the poll; send again, with the same seed.
CmuAckTimeout ==
  /\ cState = "wait_ack"
  /\ ackMb = "none"
  /\ cState' = "key_exchange"
  /\ UNCHANGED <<cSeed, cRam, cSess, cFc, tx, cmb, bmu, queue, bmb, best,
                 nFaults>>

\* WAIT_ACK: a good answer loads the session key over the PSK.
CmuAckGood ==
  /\ cState = "wait_ack"
  /\ ackMb = "good"
  /\ ackMb' = "none"
  /\ \/ /\ cSess' = cSeed /\ cRam' = cSeed /\ cFc' = 0
        /\ cState' = "operational"
        /\ Ok
     \/ /\ Fault("cmuCrypto")
        /\ cState' \in {"wait_ack", "error"}
        /\ UNCHANGED <<cSess, cRam, cFc>>
  /\ UNCHANGED <<cSeed, tx, resyncMb, bmu, queue, bmb, best>>

\* WAIT_ACK: a wrong CMAC is ignored; a wrong marker ends the wait.
CmuAckBad ==
  /\ cState = "wait_ack"
  /\ ackMb = "bad"
  /\ ackMb' = "none"
  /\ cState' \in {"wait_ack", "key_exchange"}
  /\ UNCHANGED <<cSeed, cRam, cSess, cFc, tx, resyncMb, bmu, queue, bmb, best,
                 nFaults>>

\* csecMutex is not held by CMU_CanTxTask.
MutexFree == cTx # "maced"

\* OPERATIONAL, a good resync request: the PSK stays in the RAM slot.
CmuResyncGood ==
  /\ cState = "operational"
  /\ resyncMb = "good"
  /\ MutexFree
  /\ resyncMb' = "none"
  /\ cRam' = Psk
  /\ cState' = "resync"
  /\ UNCHANGED <<cSeed, cSess, cFc, tx, ackMb, bmu, queue, bmb, best, nFaults>>

\* The session key loaded back over the PSK after a failed verification.
RestoredKey == cSess

\* OPERATIONAL, a request that fails verification, or whose verification
\* fails: the session key is loaded back; a failure of that load is ignored.
CmuResyncBad ==
  /\ cState = "operational"
  /\ MutexFree
  /\ resyncMb' = "none"
  /\ \/ resyncMb = "bad" /\ cRam' = RestoredKey /\ Ok
     \/ resyncMb = "bad" /\ cRam' = Psk /\ Fault("restore")
     \/ resyncMb = "good" /\ cRam' = RestoredKey /\ Fault("cmuCrypto")
  /\ UNCHANGED <<cState, cSeed, cSess, cFc, tx, ackMb, bmu, queue, bmb, best>>

\* RESYNC: the PSK again, the counter to zero, and on to INIT.
CmuResync ==
  /\ cState = "resync"
  /\ MutexFree
  /\ cRam' = Psk
  /\ \/ cState' = "init" /\ cFc' = 0 /\ Ok
     \/ cState' = "error" /\ cFc' = cFc /\ Fault("cmuCrypto")
  /\ UNCHANGED <<cSeed, cSess, tx, cmb, bmu, queue, bmb, best>>

-----------------------------------------------------------------------------
(* CMU_CanTxTask.  It looks at the state before it takes the mutex.        *)

CanTxCheck ==
  /\ cTx = "idle"
  /\ cState = "operational"
  /\ cTx' = "armed"
  /\ UNCHANGED <<cmu, cFrame, cmb, bmu, queue, bmb, best, nFaults>>

\* Under the mutex: count, and authenticate with the key in the RAM slot.
CanTxMac ==
  /\ cTx = "armed"
  /\ cFc < MaxFc
  /\ cFc' = (cFc + 1) % FcModulus
  /\ \/ /\ cFrame' = [fc |-> cFc', mac |-> cRam, enc |-> NoKey]
        /\ cTx' = "maced"
        /\ Ok
     \/ cTx' = "idle" /\ Fault("cmuCrypto") /\ UNCHANGED cFrame
  /\ UNCHANGED <<cState, cSeed, cRam, cSess, cmb, bmu, queue, bmb, best>>

\* Still under the mutex: encrypt with the key in the RAM slot, send, release.
CanTxSend ==
  /\ cTx = "maced"
  /\ cTx' = "idle"
  /\ cFrame' = NoFrame
  /\ \/ dataMb' = [cFrame EXCEPT !.enc = cRam] /\ Ok
     \/ Fault("dataLoss") /\ UNCHANGED dataMb
  /\ UNCHANGED <<cmu, cmb, bmu, queue, keyMb, best>>

-----------------------------------------------------------------------------
(* BMU_CanRxTask.  Key frames are polled outside OPERATIONAL, data frames   *)
(* in OPERATIONAL; an unpolled mailbox keeps its frame.                     *)

\* xQueueSend with no wait: a full queue drops the frame.
KeyQueued(q, s) == IF Len(q) < CtrlDepth THEN Append(q, s) ELSE q

BmuRxKey ==
  /\ bState # "operational"
  /\ keyMb # NoKey
  /\ ctrlQ' = KeyQueued(ctrlQ, keyMb)
  /\ keyMb' = NoKey
  /\ UNCHANGED <<cmu, tx, cmb, bmu, dataQ, dataMb, best, nFaults>>

BmuRxData ==
  /\ bState = "operational"
  /\ dataMb # NoFrame
  /\ dataQ' = dataMb
  /\ dataMb' = NoFrame
  /\ UNCHANGED <<cmu, tx, cmb, bmu, ctrlQ, keyMb, best, nFaults>>

-----------------------------------------------------------------------------
(* BMU_ProtocolTask.                                                       *)

\* BMU_HandleKeyExchange up to the import of the session key.
ImportSession(s) == bKey' = s /\ bExp' = 1 /\ bFail' = 0

\* INIT: a key exchange that is answered.  The BMU does not learn whether the
\* answer arrives.
BmuKeyExchange ==
  /\ bState = "init"
  /\ ctrlQ # <<>>
  /\ ImportSession(Head(ctrlQ))
  /\ bState' = "operational"
  /\ ctrlQ' = <<>>
  /\ dataQ' = NoFrame
  /\ \/ ackMb' = "good" /\ Ok
     \/ Fault("ackLoss") /\ UNCHANGED ackMb
  /\ UNCHANGED <<cmu, tx, resyncMb, bmb, best>>

\* INIT: a key exchange that fails before the import, or, with the session key
\* imported, at the CMAC of the answer.
BmuKeyExchangeFails ==
  /\ bState = "init"
  /\ ctrlQ # <<>>
  /\ Fault("bmuCrypto")
  /\ ImportSession(Head(ctrlQ)) \/ UNCHANGED <<bKey, bExp, bFail>>
  /\ ctrlQ' = Tail(ctrlQ)
  /\ UNCHANGED <<cmu, tx, cmb, bState, dataQ, bmb, best>>

\* The counters BMU_VerifySecuredData tries: the end of the loop is a uint32.
Window == {t \in Fc : t >= bExp /\ t < (bExp + FcWindow) % FcModulus}

Verifies(f) == f.mac = bKey /\ f.enc = bKey /\ f.fc \in Window

BmuAccept ==
  /\ bState = "operational"
  /\ dataQ # NoFrame
  /\ Verifies(dataQ)
  /\ dataQ' = NoFrame
  /\ bExp' = (dataQ.fc + 1) % FcModulus
  /\ bFail' = 0
  /\ best' = [best EXCEPT ![bKey] = dataQ.fc]
  /\ UNCHANGED <<cmu, tx, cmb, bState, bKey, ctrlQ, bmb, nFaults>>

BmuReject ==
  /\ bState = "operational"
  /\ dataQ # NoFrame
  /\ \/ ~Verifies(dataQ) /\ Ok
     \/ Verifies(dataQ) /\ Fault("bmuCrypto")
  /\ dataQ' = NoFrame
  /\ bFail' = bFail + 1
  /\ bState' = IF bFail' >= MaxFail THEN "resync" ELSE "operational"
  /\ UNCHANGED <<cmu, tx, cmb, bKey, bExp, ctrlQ, bmb, best>>

\* The request is authenticated under the PSK, which the CMU checks it with.
ResyncFrame == "good"

\* RESYNC, first half: BMU_SendResyncRequest.  The state goes on whether or
\* not a request was built and arrives.
BmuSendResync ==
  /\ bState = "resync"
  /\ bState' = "resent"
  /\ \/ resyncMb' = ResyncFrame /\ Ok
     \/ Fault("resyncLoss") /\ UNCHANGED resyncMb
     \/ Fault("resyncMac") /\ UNCHANGED resyncMb
  /\ UNCHANGED <<cmu, tx, ackMb, bKey, bExp, bFail, queue, bmb, best>>

\* RESYNC, second half: queues and counters are reset.  Before that the task
\* prints a line, 9 ms of busy waiting in which BMU_CanRxTask polls the key
\* mailbox several times: what was in it is in ctrlQueue, and is dropped here.
MailboxPolled == keyMb = NoKey

BmuResync ==
  /\ bState = "resent"
  /\ MailboxPolled
  /\ ctrlQ' = <<>>
  /\ dataQ' = NoFrame
  /\ bFail' = 0
  /\ bExp' = 0
  /\ \/ bState' = "init" /\ Ok
     \/ bState' = "error" /\ Fault("bmuCrypto")
  /\ UNCHANGED <<cmu, tx, cmb, bKey, bmb, best>>

-----------------------------------------------------------------------------
(* The environment: foreign control frames, and boards that restart.  A    *)
(* foreign frame on top of a good one is the loss of the good one as well, *)
(* a fault of its own.                                                     *)

Noise ==
  /\ Fault("noise")
  /\ \/ ackMb = "none" /\ ackMb' = "bad" /\ UNCHANGED resyncMb
     \/ resyncMb = "none" /\ resyncMb' = "bad" /\ UNCHANGED ackMb
  /\ UNCHANGED <<cmu, tx, bmu, queue, bmb, best>>

CmuReset ==
  /\ Fault("cmuReset")
  /\ cState' = "init" /\ cSeed' = NoKey /\ cRam' = Psk /\ cSess' = NoKey
  /\ cFc' = 0 /\ cTx' = "idle" /\ cFrame' = NoFrame
  /\ ackMb' = "none" /\ resyncMb' = "none"
  /\ UNCHANGED <<bmu, queue, bmb, best>>

BmuReset ==
  /\ Fault("bmuReset")
  /\ bState' = "init" /\ bKey' = NoKey /\ bExp' = 0 /\ bFail' = 0
  /\ ctrlQ' = <<>> /\ dataQ' = NoFrame /\ keyMb' = NoKey /\ dataMb' = NoFrame
  /\ UNCHANGED <<cmu, tx, cmb, best>>

-----------------------------------------------------------------------------
CmuProtocol == CmuInit \/ CmuSendKeyExchange \/ CmuAckTimeout \/ CmuAckGood
                 \/ CmuAckBad \/ CmuResyncGood \/ CmuResyncBad \/ CmuResync
CanTx       == CanTxCheck \/ CanTxMac \/ CanTxSend
BmuCanRx    == BmuRxKey \/ BmuRxData
BmuProtocol == BmuKeyExchange \/ BmuKeyExchangeFails \/ BmuAccept \/ BmuReject
                 \/ BmuSendResync \/ BmuResync
Environment == Noise \/ CmuReset \/ BmuReset

Next == CmuProtocol \/ CanTx \/ BmuCanRx \/ BmuProtocol \/ Environment

Spec == Init /\ [][Next]_vars

\* Every task is scheduled again and again.  The two steps that another task
\* can disable in between are strongly fair: csecMutex passes to its waiter
\* when released, and the print before the reset ends whatever arrives.
Fairness ==
  /\ WF_vars(CmuInit \/ CmuSendKeyExchange \/ CmuAckTimeout \/ CmuAckGood
               \/ CmuAckBad)
  /\ SF_vars(CmuResyncGood \/ CmuResyncBad \/ CmuResync)
  /\ WF_vars(CanTx)
  /\ WF_vars(BmuRxKey) /\ WF_vars(BmuRxData)
  /\ WF_vars(BmuKeyExchange) /\ WF_vars(BmuAccept \/ BmuReject)
  /\ WF_vars(BmuSendResync) /\ SF_vars(BmuResync)

FairSpec == Spec /\ Fairness

-----------------------------------------------------------------------------
(* Properties.                                                             *)

\* While the CMU sends data the RAM slot holds the session key of the seed it
\* exchanged, and the PSK whenever a key frame is built or an answer checked:
\* a request that fails verification leaves nothing behind (CMU main.c
\* 799-808: a missing restore makes the BMU refuse every frame).
RightKeyInSlot ==
  /\ cState = "operational" => cRam = cSess /\ cSess = cSeed
  /\ cState \in {"init", "key_exchange", "wait_ack"} => cRam = Psk

\* A frame authenticated under a session key is encrypted under the same one:
\* csecMutex keeps a resync from changing the slot between the two.
MacAndCipherAgree ==
  \A f \in {cFrame, dataMb, dataQ} :
    f.mac \in Seeds => f.enc \in {f.mac, NoKey}

\* Every counter the BMU would accept now is above every counter it accepted
\* under this key, through wraps of the uint32, repeated key frames, resyncs
\* and restarts of either board.
WindowAboveHistory ==
  bState = "operational" => \A t \in Window : t > best[bKey]

\* Both ends are in the same session and can talk.
Synced ==
  /\ cState = "operational" /\ bState = "operational"
  /\ cRam = cSess /\ bKey = cSess

\* The link always comes back.
Recovers == []<>Synced

\* firmware/README.md 203-206: after MAX_CMAC_FAIL_COUNT failures the BMU asks
\* for a resync, and the key exchange starts over.
ResyncRestartsExchange ==
  (bState = "resync") ~> (cState \in {"init", "key_exchange", "wait_ack"})
=============================================================================
