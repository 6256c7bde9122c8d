----------------------------- MODULE BmuChainFc -----------------------------
(***************************************************************************)
(* The freshness counter the BMU signs and sends towards the ledger, from  *)
(* the flash of the HSE to the [SIGN] line on the UART.                    *)
(*                                                                         *)
(* src/BMU_BMS_S32K344/src/main.c:                                         *)
(*   - main() configures the HSE monotonic counter (read-first guard) and  *)
(*     reads it before the scheduler starts;                               *)
(*   - BMU_ProtocolTask advances it by one epoch, reads it again, and then *)
(*     runs the protocol: every verified frame is rewritten with           *)
(*     g_chain_fc and handed to procQueue, which drops it when full;       *)
(*   - BMU_DataProcessTask, of a lower priority, takes frames out of       *)
(*     procQueue, signs them and prints the [SIGN] line.                   *)
(*                                                                         *)
(* Only the rollover-protected part of the counter is in flash; the        *)
(* volatile part is lost at power-off.  The firmware only ever adds whole  *)
(* epochs, so the volatile part is always 0 and the counter is rp epochs.  *)
(*                                                                         *)
(* A frame is its counter: nothing else of it matters here.  Cryptography, *)
(* the key exchange and CMU-side counters are in SecureLink.               *)
(***************************************************************************)
EXTENDS Integers, Sequences

CONSTANTS
  EpochStep,     \* HSE_COUNTER_EPOCH_STEP, 2^24 in the build
  FcModulus,     \* g_chain_fc is a uint32: 2^32 in the build
  ProcDepth,     \* PROC_QUEUE_LENGTH
  MaxBoots,      \* bound: how often the board is switched on
  MaxFrames,     \* bound: frames verified during one boot
  HseFaults      \* HSE services that may fail, of those in HseServices

HseServices == {"ready", "probe", "config", "read", "advance", "import"}

ASSUME BmuAssumption ==
  /\ EpochStep \in Nat \ {0}
  /\ FcModulus \in Nat \ {0}
  /\ ProcDepth \in Nat \ {0}
  /\ MaxBoots \in Nat
  /\ MaxFrames \in Nat
  /\ HseFaults \subseteq HseServices

\* What "rises across boots" needs: no boot outlives its epoch, and the boots
\* together stay below the wrap of the uint32 (main.c 1177-1179).
NoWrap ==
  /\ MaxFrames <= EpochStep
  /\ MaxBoots * EpochStep + MaxFrames < FcModulus

VARIABLES
  configured,    \* flash: the HSE counter slot has been configured
  rp,            \* flash: the rollover-protected part, in epochs
  pc,            \* where the boot sequence stands
  link,          \* g_proto_state
  chainFc,       \* g_chain_fc
  procQ,         \* procQueue: the counters of the frames in it
  inHand,        \* the item BMU_DataProcessTask holds, or NoItem
  lastSigned,    \* history: the counter of the last [SIGN] line, -1 before any
  frames,        \* bound: frames verified during this boot
  boots          \* bound: boots so far

flash == <<configured, rp>>
ram   == <<link, chainFc, procQ, inHand>>
vars  == <<configured, rp, pc, link, chainFc, procQ, inHand,
           lastSigned, frames, boots>>

NoItem == -1

Fc == 0 .. FcModulus - 1

\* The low 32 bits of what HSE_SRV_ID_READ_COUNTER returns.
CounterValue == (rp * EpochStep) % FcModulus

Booting == {"configure", "read", "advance", "reread"}

TypeOK ==
  /\ configured \in BOOLEAN
  /\ rp \in Nat
  /\ pc \in Booting \cup {"off", "run", "halted"}
  /\ link \in {"init", "operational", "error"}
  /\ chainFc \in Fc
  /\ procQ \in Seq(Fc)
  /\ Len(procQ) <= ProcDepth
  /\ inHand \in Fc \cup {NoItem}
  /\ lastSigned \in Fc \cup {-1}
  /\ frames \in 0 .. MaxFrames
  /\ boots \in 0 .. MaxBoots

Init ==
  /\ configured = FALSE
  /\ rp = 0
  /\ pc = "off"
  /\ link = "init"
  /\ chainFc = 0
  /\ procQ = <<>>
  /\ inHand = NoItem
  /\ lastSigned = -1
  /\ frames = 0
  /\ boots = 0

-----------------------------------------------------------------------------
(* Mutations: what the named definition would be with a bug in its lines.  *)

ProbeUnreliable == TRUE                                     \* of ProbeMayFail

QueueUnbounded(q, item) == Append(q, item)                  \* of Enqueued

AdvanceLost ==                                              \* of BMU_AdvanceFcEpoch
  /\ pc = "advance"
  /\ configured
  /\ pc' = "reread"
  /\ UNCHANGED <<flash, ram, lastSigned, frames, boots>>

AdvanceSkipped ==                                           \* of BootRead
  /\ pc = "read"
  /\ chainFc' = CounterValue
  /\ link' = "init"
  /\ pc' = "run"
  /\ UNCHANGED <<flash, procQ, inHand, lastSigned, frames, boots>>

ExchangeRereads ==                                          \* of KeyExchangeOk
  /\ pc = "run"
  /\ link = "init"
  /\ link' = "operational"
  /\ procQ' = <<>>
  /\ chainFc' = CounterValue
  /\ UNCHANGED <<flash, pc, inHand, lastSigned, frames, boots>>

-----------------------------------------------------------------------------
(* The boot sequence.  Power may fail between any two of these steps.      *)

\* Power on; RAM starts from its initial values.
PowerOn ==
  /\ pc = "off"
  /\ boots < MaxBoots
  /\ boots' = boots + 1
  /\ pc' = "configure"
  /\ link' = "init"
  /\ chainFc' = 0
  /\ procQ' = <<>>
  /\ inHand' = NoItem
  /\ frames' = 0
  /\ UNCHANGED <<configured, rp, lastSigned>>

PowerLoss ==
  /\ pc # "off"
  /\ pc' = "off"
  /\ link' = "init"
  /\ chainFc' = 0
  /\ procQ' = <<>>
  /\ inHand' = NoItem
  /\ frames' = 0
  /\ UNCHANGED <<configured, rp, lastSigned, boots>>

\* BMU_WaitHseReady gives up: nothing is configured, read or imported, and the
\* tasks start in ERROR, the advance of the epoch included.
HseNotReady ==
  /\ pc = "configure"
  /\ "ready" \in HseFaults
  /\ link' = "error"
  /\ pc' = "advance"
  /\ UNCHANGED <<flash, chainFc, procQ, inHand, lastSigned, frames, boots>>

\* The probe read answers whether the slot is configured, unless it fails.
ProbeSucceeds == configured
ProbeMayFail  == ~configured \/ "probe" \in HseFaults

\* Read-first guard: an answered probe leaves the counter alone.
ConfigureSkipped ==
  /\ pc = "configure"
  /\ ProbeSucceeds
  /\ pc' = "read"
  /\ UNCHANGED <<flash, ram, lastSigned, frames, boots>>

\* Any other response of the probe is taken for "not configured", and
\* configuring a slot sets its counter to zero.
ConfigureWipes ==
  /\ pc = "configure"
  /\ ProbeMayFail
  /\ configured' = TRUE
  /\ rp' = 0
  /\ pc' = "read"
  /\ UNCHANGED <<ram, lastSigned, frames, boots>>

BMU_ConfigureFcCounter == ConfigureSkipped \/ ConfigureWipes

\* The pre-scheduler read, and the state the tasks start from.
BootRead ==
  /\ pc = "read"
  /\ chainFc' = CounterValue
  /\ \/ link' = "init"
     \/ link' = "error" /\ "import" \in HseFaults
  /\ pc' = "advance"
  /\ UNCHANGED <<flash, procQ, inHand, lastSigned, frames, boots>>

\* HSE_SRV_ID_INCREMENT_COUNTER by one epoch, which reaches the flash.
BMU_AdvanceFcEpoch ==
  /\ pc = "advance"
  /\ configured
  /\ rp' = rp + 1
  /\ pc' = "reread"
  /\ UNCHANGED <<configured, ram, lastSigned, frames, boots>>

\* The read after the advance, which ends the boot sequence.
ReadAfterAdvance ==
  /\ pc = "reread"
  /\ chainFc' = CounterValue
  /\ pc' = "run"
  /\ UNCHANGED <<flash, link, procQ, inHand, lastSigned, frames, boots>>

\* BMU_ReadFcCounter after three failures, BMU_AdvanceFcEpoch and main() after
\* one: the caller spins, and no lower-priority task runs again.
Halt ==
  /\ \/ pc = "configure" /\ ProbeMayFail /\ "config" \in HseFaults
     \/ pc \in {"read", "reread"} /\ "read" \in HseFaults
     \/ pc = "advance" /\ (~configured \/ "advance" \in HseFaults)
  /\ pc' = "halted"
  /\ UNCHANGED <<flash, ram, lastSigned, frames, boots>>

-----------------------------------------------------------------------------
(* BMU_ProtocolTask once it runs.                                          *)

\* INIT: a key exchange succeeds; the three queues are reset.
KeyExchangeOk ==
  /\ pc = "run"
  /\ link = "init"
  /\ link' = "operational"
  /\ procQ' = <<>>
  /\ UNCHANGED <<flash, pc, chainFc, inHand, lastSigned, frames, boots>>

\* xQueueSend with no wait: a full queue drops the item.
Enqueued(q, item) == IF Len(q) < ProcDepth THEN Append(q, item) ELSE q

\* OPERATIONAL: a frame passes verification, is rewritten with g_chain_fc and
\* handed over or dropped; the counter moves on either way.
AcceptFrame ==
  /\ pc = "run"
  /\ link = "operational"
  /\ frames < MaxFrames
  /\ frames' = frames + 1
  /\ procQ' = Enqueued(procQ, chainFc)
  /\ chainFc' = (chainFc + 1) % FcModulus
  /\ UNCHANGED <<flash, pc, link, inHand, lastSigned, boots>>

\* RESYNC after MAX_CMAC_FAIL_COUNT failures: queues are reset, g_chain_fc is
\* kept, and the PSK is imported again.
Resync ==
  /\ pc = "run"
  /\ link = "operational"
  /\ procQ' = <<>>
  /\ \/ link' = "init"
     \/ link' = "error" /\ "import" \in HseFaults
  /\ UNCHANGED <<flash, pc, chainFc, inHand, lastSigned, frames, boots>>

-----------------------------------------------------------------------------
(* BMU_DataProcessTask.  The queue may be reset, and further frames may    *)
(* arrive, while it holds an item.                                         *)

TakeForSigning ==
  /\ pc = "run"
  /\ inHand = NoItem
  /\ procQ # <<>>
  /\ inHand' = Head(procQ)
  /\ procQ' = Tail(procQ)
  /\ UNCHANGED <<flash, pc, link, chainFc, lastSigned, frames, boots>>

\* The [SIGN] line is out.
EmitSigned ==
  /\ pc = "run"
  /\ inHand # NoItem
  /\ lastSigned' = inHand
  /\ inHand' = NoItem
  /\ UNCHANGED <<flash, pc, link, chainFc, procQ, frames, boots>>

-----------------------------------------------------------------------------
Boot     == HseNotReady \/ BMU_ConfigureFcCounter \/ BootRead \/ BMU_AdvanceFcEpoch
              \/ ReadAfterAdvance \/ Halt
Protocol == KeyExchangeOk \/ AcceptFrame \/ Resync
Signing  == TakeForSigning \/ EmitSigned

Next == PowerOn \/ PowerLoss \/ Boot \/ Protocol \/ Signing

Spec == Init /\ [][Next]_vars

-----------------------------------------------------------------------------
(* Properties.                                                             *)

\* Whatever the signing task is about to print is above every counter printed
\* before, in this boot or an earlier one: main.c 414-421 "guaranteeing
\* cross-boot monotonicity".
SignedAboveHistory == inHand # NoItem => inHand > lastSigned

\* The frames between the rewrite and the signature stay in counter order, and
\* none of them has a counter still to be given out (main.c 1453-1460): no
\* reset, drop or restart lets two frames share a counter.
PipelineOrdered ==
  /\ \A i \in 1 .. Len(procQ) :
       /\ inHand < procQ[i]
       /\ lastSigned < procQ[i]
       /\ procQ[i] < chainFc
  /\ \A i, j \in 1 .. Len(procQ) : i < j => procQ[i] < procQ[j]

\* A running boot counts in an epoch no earlier boot has signed from: what is
\* in flash was advanced before the first frame (main.c 1388-1397), wherever
\* power failed in the boots before.
FreshEpoch ==
  pc = "run" /\ frames = 0 => lastSigned < rp * EpochStep

\* The counter in flash never goes back: main.c 338-341 calls the
\* configuration "idempotent via read-first guard".
EpochNeverFalls == [][rp' >= rp]_vars

\* The BMU implements the rising counter the ledger relies on.
Abstract == INSTANCE FcSource WITH last <- lastSigned

ImplementsFcSource == Abstract!Spec
=============================================================================
