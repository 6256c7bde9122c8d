# Verification of the BMS secure communication chain

TLA+ models, TLC runs and TLAPS proofs for the path a battery measurement takes
from the battery management hardware to the passport ledger. Paths such as
`main.c` below are relative to the repository; "BMU main.c" is
`BMU_BMS_S32K344/src/main.c`, "CMU main.c" is `CMU_BMS_S32K144/src/main.c`, and
the chaincode is `chaincode/passport-contract/`.

The core question is freshness. Three counters have to stay in step: the CMU's
per-session counter, which the BMU checks in a window; the BMU's own counter
`g_chain_fc`, which has to rise for ever because the ledger refuses anything
that is not above the last one; and `lastFc` on the ledger, which concurrent
transactions, invalidations, resets and repairs all move. Around it stand the
documents that make a record mean something: the passport, its credentials, and
the read model they are shown from.

## 1. The system

```
Simulink -> dataProcess.py -> CMU ==CAN-FD==> BMU --UART--> serial_to_agent.py
         -> bmu-agent -> Fabric chaincode -> block events -> cloud-agent -> MongoDB
```

### Components

| Component | State | Operations | Correct when | Here |
|---|---|---|---|---|
| BMU chain counter (BMU main.c 338-446, 1101-1208, 1377-1575) | HSE counter slot in flash, `g_chain_fc`, `procQueue`, the frame being signed | boot sequence, epoch advance, rewrite of a verified frame, signing | counters signed only rise, across any restart | `BmuChainFc` |
| Secured link (CMU main.c 397-948, BMU main.c 619-936, 1311-1508) | two protocol state machines, CSEc RAM key slot, session key, window, mailboxes, queues, `csecMutex` | key exchange, secured data, resync | no counter accepted twice under a key, one key per frame, the link comes back | `SecureLink` |
| `lastFc` ledger (`bmu_tx.go`, `helpers.go`) | a record per frame, a `lastFc` key per DID binding it to a passport | record, invalidate, reset, repair, create | no counter valid twice since a reset, bindings stay, records stay | `FcLedger`, `FcLedgerFabric` |
| Passport lifecycle (`passport_tx.go`) | passport document with status, logs, links; materials | 15 transactions | no update lost, the status moves along its arrows, no key taken over | `PassportLifecycle`, `PassportFabric` |
| Credentials (`vc_tx.go`) | credentials, requests, verifications, verdicts | issue, revoke, verify, request, approve, reject | decided once, references lead to what they name, the verdict is the newest event's | `Credentials`, `PassportFabric` |
| UART bridge (`firmware/tools/serial_to_agent.py`) | driver's buffer, SQLite spool, retry counts, the open database transaction | read, post, spool, retry | "no loss while the agent is down" (README.md 431) | `BridgeSpool`, `TelemetryPath`; event lines and pairing not |
| bmu-agent (`routes/`, `services/`) | requests in flight, gateway pool, DID cache, overlay | ingest, passport and credential routes | a request given up by its client does no harm | ingest outcomes in `TelemetryPath`; pool and cache not |
| cloud-agent (`services/fabric-listener.js`, `initial-sync.js`) | read model, block checkpoint | initial sync, block processing | no block left out, the read model catches up | listener in `ReadModel`; the initial sync not |
| UART framing CMU side, `dataProcess.py` | receive buffer | poll, parse | a frame is whole or dropped | not modelled yet |
| Queries, mcp-monitor, webapp | none of their own | read | - | not modelled: read-only |
| Vendored code (RTD, FreeRTOS, HSE demo, TweetNaCl), network scripts, wiki | - | - | - | not modelled: outside the project's own logic |

### Interactions

* CMU to BMU: CAN IDs 0x15 (key exchange) and 0x14 (data); BMU to CMU: 0x16
  (answer) and 0x17 (resync request). Each ID has one receive mailbox, which keeps
  the newest frame until it is polled.
* Inside a board: FreeRTOS tasks of fixed priority with queues that drop when full
  (`ctrlQueue`, `procQueue`) or overwrite (`dataQueue`), and `csecMutex` around the
  one RAM key slot of the CMU, which not every user of the slot takes.
* BMU to ledger: the `[SIGN]` line with its counter, through bridge and agent. The
  bridge waits five seconds for an answer; the agent does not notice when it stops
  waiting, and its submission may still commit.
* Ledger to read model: every block, with transactions found invalid still in it,
  goes to the listener, which writes MongoDB and then its checkpoint.
* Clients to ledger: a transaction is simulated on an endorser, ordered, and
  validated against what it read.

### Hard behaviour

Restarts between any two steps of the boot sequence; HSE and CSEc services that
fail; lost, late, repeated and foreign CAN frames; a state checked before a lock
is taken; queues emptied while another task holds an item; uint32 wrap; two
transactions endorsed against the same state; a rich query whose result is not
checked again; data left by earlier chaincode. `PROJECT.json` lists each of these
at its line, with the properties that cover it or the reason none does yet.

## 2. Modules

| Module | Models | State and actions |
|---|---|---|
| `FcSource` | what the BMU promises the ledger | `last`; `Emit`: a larger counter, gaps allowed |
| `BmuChainFc` | flash to `[SIGN]` line | `configured`, `rp` are the HSE slot; `chainFc` is `g_chain_fc`; `procQ`, `inHand` the frames under way. One action per step of the boot (`HseNotReady`, `ConfigureSkipped`/`ConfigureWipes`, `BootRead`, `BMU_AdvanceFcEpoch`, `ReadAfterAdvance`, `Halt`), of the protocol task (`KeyExchangeOk`, `AcceptFrame`, `Resync`) and of the signing task; `PowerLoss` in between |
| `BmuChainFcProofs` | theorems about it | |
| `SecureLink` | CMU and BMU protocol tasks, `CMU_CanTxTask`, `BMU_CanRxTask` | one action per state and outcome of each task, faults named in `Faults` |
| `FcLedger` | the chaincode calls, each atomic | `world` is the world state; `Can...` holds a call's checks, `...Tx` the keys it reads and writes, `Apply` its effect |
| `FcLedgerFabric` | the same calls, endorsed and committed apart | `pending`; `Endorse...`, `Commit` with MVCC validation |
| `FcLedgerProofs`, `FcLedgerFabricProofs` | theorems about them | |
| `PassportLifecycle` | the calls of `passport_tx.go` | `world` holds every document under its key; an operator per call gives the set of transactions it can make now, each with the keys it has read and the one document it writes; `committed` and `newest` are history |
| `Credentials` | the calls of `vc_tx.go`, on the same keys | one operator per call; `Calls` is all of them, `Next` one of them taking effect |
| `PassportFabric` | both, endorsed and committed apart | `pending`; `Endorse`, `Commit`, and `Submit` for a call with nothing in between |
| `CredentialsProofs`, `PassportFabricProofs` | theorems about them | |
| `BridgeSpool` | the loop of `serial_to_agent.py` | `line`, `hand`, `batch`, `post` are where the loop is; `spool` the rows as committed (a frame's tries), `work` as the open database transaction has them; frames arrive with rising counters, so the order of row ids is that of counters |
| `ReadModel` | the block listener | `stage` and `at` are where it is in a block; `shown`, `latest` what MongoDB holds |
| `TelemetryPath` | BMU, bridge, agent, ledger, Fabric and listener together | `requests`: posts the agent is handling and calls of operators, each endorsed first and later committed (`CommitRequest`) or found invalid (`ConflictRequest`); an action per answer, and one per kind of disturbance |
| `SecureLinkProofs`, `ReadModelProofs`, `TelemetryPathProofs` | theorems about the link and the path; `ReadModelProofs` has the listener's invariant and lemmas only | |
| `MC...` | instances for TLC | fault sets, symmetry, old ledger contents |

`BmuChainFc` implements `FcSource` (property `ImplementsFcSource`);
`FcLedgerFabric` implements `FcLedger` (property `Serializable`): whatever is
endorsed against a stale state, every commit is a call made in the state it
commits to. `PassportFabric` implements `Credentials` in the same sense, and every
commit of `TelemetryPath` is a call of `FcLedger` (`LedgerCalls`). For the rich
queries this is not Fabric's doing; it rests on every new record of a DID also
writing the `lastFc` key, which the query's caller has read.

### What is abstracted

* Cryptography is ideal: a frame is good under the one key that made it, and a
  session key is the seed it was derived from. A seed is drawn again only when
  nothing holds it, so a small set stands for fresh random seeds.
* A data frame is its counter, key of CMAC and key of encryption; battery values,
  UIDs (the CMU is enrolled in the whitelist) and UART input are left out.
* In `BmuChainFc` the link is `init`, `operational` or `error`; which frames verify
  is `SecureLink`'s subject. The two RX drivers' polling loops are one step.
* The volatile part of the HSE counter is always 0, because only whole epochs are
  added; the counter is `rp` epochs.
* On the ledger, callers pass the MSP checks, a passport is its DID, a record is
  passport, DID, counter and status. Audit logs are left out, and so is the BMU
  snapshot that `InvalidateBMURecord` still updates where an old one exists.
* A passport keeps what a later call looks at: status, bindings, links, verdict, and
  which organisations have logged. All other fields and logs are one counter of
  edits, which is what a lost update would show in. A credential's type is its
  issuer's; the battery manufacturer alone creates passports. The DID binding that a
  creation also writes is `FcLedger`'s. All kinds of documents share one namespace,
  as they do in the chaincode.
* In `TelemetryPath` a frame is its counter and a block is one transaction. The
  agent's checks of form, signature and binding pass; its cache and gateway pool are
  left out. The `[DATA]` line that the bridge may pair with a frame only adds fields
  the agent does not read, and event lines change no state.
* MongoDB takes every write, and a checkpoint exists when the listener starts. A
  crash is followed by a restart. A passport update is its document written back:
  `lastBmuDataId` is a field of it (types.go 193) which `RecordBMUData` never sets, so
  each update erases what the listener had projected until the next record comes.
* Updates of the passport by organisations (`OrganisationUpdates`) take effect at once
  in `TelemetryPath`; that they, too, can be found invalid is `PassportFabric`'s subject.
  Operators' invalidations and resets are endorsed and committed apart, like frames.
* A passport may be created with any DID whose `lastFc` key is missing, another
  passport's included: the chaincode looks for the key only, and so does `CanCreate`.
  Where the other passport has records from before those keys were bound, they are
  `Forgotten`: the new binding starts with no high water. `HighWaterCovers` and
  `ValidCountersDistinct` are about all records but these (`Protected`).

## 3. Runs

| Run | Checks | Result |
|---|---|---|
| `BmuChainFc` | `TypeOK`, `SignedAboveHistory`, `PipelineOrdered`, `FreshEpoch`, `EpochNeverFalls`, `ImplementsFcSource` | holds, 5,069 states |
| `BmuProbe` | `EpochNeverFalls` with a failing probe | violated |
| `BmuUptime` | `SignedAboveHistory` with more frames than an epoch | violated |
| `LinkSafety` | `TypeOK`, `RightKeyInSlot`, `MacAndCipherAgree`, `WindowAboveHistory` | holds |
| `LinkRecovery` | `Recovers`, `ResyncRestartsExchange` | holds, 95,813 states |
| `LinkResyncAbandoned` | `ResyncRestartsExchange` when the request's CMAC fails | violated |
| `LinkBoardReset` | `Recovers` when the BMU restarts | violated |
| `LedgerFabric` | `FabricTypeOK`, `HighWaterCovers`, `ValidCountersDistinct`, `RecordsOwned`, `OnePassportPerDid`, `BindingStays`, `RecordsStay`, `Serializable` | holds, 220,845 states |
| `LedgerReset` | `ResetIsFinal` | violated |
| `PassportFabric` | `FabricTypeOK`, `ReferencesHold`, `NoUpdateLost`, `VerdictsAgree`, `UsedOnlyBound`, `ServiceCalledIn`, `LifeFollowsArrows`, `DecisionsStay`, `NeverReplaced`, `Serializable` | holds, 317,814 states |
| `TelemetryPath` | `PathTypeOK`, `NothingVanishes`, `ValidCountersDistinct`, `CheckpointCovers`, `LedgerCalls`, `SpoolSettles`, `ReadModelCatchesUp` | holds, 670,420 states |
| `BridgeOutage` | `NoLoss` | violated |

### Bounds, and why they are enough

* `BmuChainFc`: epoch of 4 for 2^24, modulus 21 for 2^32, queue of 2, four boots,
  four frames a boot. A frame more, or a boot more, is just outside `NoWrap`, so the
  run sits on the edge; the queue fills, is reset with a frame in hand, and every
  boot step is cut by a power loss at least once. The proofs remove these bounds.
* `LinkSafety`: three seeds (one in use, one being exchanged, one stale), counters
  modulo 5 with a window of 2 so that the window meets the wrap, two failures to a
  resync, `ctrlQueue` of 2, two faults. Two faults are needed for a stale key frame
  to meet a repeated exchange. The seeds are interchangeable, so symmetry is sound.
* `LinkRecovery`: one fault is enough to leave the normal path, and after it the
  protocol must find back by itself; the build's three failures to a resync are
  kept. No symmetry, since liveness is checked.
  `MaxFc` bounds the counter of one session: beyond it `CMU_CanTxTask` stops
  sending, which can only make recovery harder.
* `LedgerFabric`: two passports and DIDs, one of them from before bindings existed
  (its `lastFc` key missing or numeric), records under three transaction ids and
  one client id, counters 1 to 3, two transactions in flight. Two are enough for
  every conflict of a pair; three records in order let the newest be invalidated and
  the one before it take its place. Transaction ids are interchangeable. The second
  passport may be created with either DID, so that its creation and the repair of the
  first race for a missing key, and the old records of one passport come to stand
  beside the new ones of the other.
* `PassportFabric`: one passport with six edits, enough to take it through its whole
  life and back from maintenance and analysis; other documents only exist or change
  status once. There are two verdicts, so that the newest event can be told from an
  older one; they are interchangeable, and so are the other keys. One transaction is
  pending while any other call may commit in between, which is every pair of calls;
  longer chains of pending transactions only repeat it, and `Serializes` proves it for
  any number.
* `TelemetryPath`: three frames above `--min-fc` and one below, two tries for 50, a
  batch of two for ten, a buffer of one line, two requests, and two disturbances of
  eight kinds. One time-out already makes a late commit meet a retry and spools two
  rows; the second disturbance is the crash within the batch, the invalidation of
  what a retry would record again, or the restart between a block and its
  checkpoint. `MaxBehind` keeps the listener within two blocks of the channel: one
  half done, one behind it, which is all a restart can tell apart. An operator's call
  takes one of the two requests, so it meets the frame in the other.
* Deadlock is not checked: the behaviours end at the bounds, and a board that has
  halted stays halted.

### Fairness

`FairSpec` makes every task's step weakly fair: a FreeRTOS task blocks or delays
in every loop, so all are scheduled again and again, and the CAN polling loops are
bounded. Two steps are strongly fair, because another task can disable them
between two attempts: those that take `csecMutex`, which FreeRTOS hands to its
waiter when it is released, and the end of the BMU's RESYNC, which is preceded by
a line printed by busy waiting that ends whatever arrives. During that wait
`BMU_CanRxTask`, of higher priority, polls the key mailbox several times, so what
was in it is dropped by the queue reset; `MailboxPolled` states this. Faults are
never fair.

`Recovers` is checked under lost or late key frames, lost data, one foreign control
frame and a failed restore of the session key. It does not hold when the answer
to a key exchange is lost (the BMU is OPERATIONAL and no longer polls key frames),
when a board restarts alone, or when a crypto service puts a board into ERROR,
which nothing leaves; those faults are in `LinkSafety` only.

`PathFairness` makes the bridge's loop, the agent's handlers and the listener's
callback weakly fair. A post ends after five seconds whatever the agent does, so the
loop is never blocked for ever; the agent handles a request to its end; block events
are awaited one after another. `Emit` and the disturbances are not fair, and there
are finitely many of both: `SpoolSettles` is about a BMU that has fallen silent.

### What the violations show

1. `BmuProbe`: any response of the probe read but OK is taken for "not configured",
   and configuring sets the counter to zero (main.c 363, against the "read-first
   guard" of its comment).
2. `BmuUptime`: a boot of more than 2^24 frames, about 39 days at 200 ms, runs into
   the epoch of the next boot, which signs the same counters again.
3. `LinkResyncAbandoned`: a resync request that cannot be built is dropped, and the
   state machine goes on as if it were sent (main.c 913).
4. `LinkBoardReset`: a BMU that restarts alone is not noticed by the CMU, against
   the documents that call it automatic and without loss.
5. `LedgerReset`: after `ResetFCForDID`, invalidating the newest record recomputes
   the high water over records from before the reset and blocks the BMU again.
6. `BridgeOutage`: after one failed post the next live frame is posted first
   (serial_to_agent.py 463). The spooled frame is then below `lastFc`, and its tries
   are used up on refusals, against "no loss" of README.md 431.
Two more cases are exceptions spelled out in properties that hold; without the
exception TLC shows the case.

* `Forgotten`, in `HighWaterCovers` and `ValidCountersDistinct`: a passport created with
  the DID of another that has records but no `lastFc` key yet takes the binding with no
  high water (helpers.go 1412), and the old counters are accepted again, against
  "reject replay/stale BMU data" of bmu_tx.go 224. A repair would have rebuilt the high
  water from the records. `OnePassportPerDid` says that this ends with the old records.
* `Misled`, in `ReadModelCatchesUp`: an invalidation reads the `lastFc` key, which every
  frame writes. If a frame commits first, Fabric drops the invalidation, but the
  listener, which does not look at validation codes (fabric-listener.js 131), shows the
  record INVALIDATED for good though it is VALID on the ledger, against the
  synchronised copy that server.js 6 promises.

`TelemetryPath` holds, but what it shows has edges worth knowing. `NothingVanishes`
counts a dead row as kept, since it stays in `spool.db`, and a line dropped by a full
buffer as known to be gone. `ValidCountersDistinct` is about valid records since the
last reset: a frame whose record was invalidated, or that precedes a reset, may be
recorded again by a retry. `ReadModelCatchesUp` says nothing of records the listener
shows that are not on the ledger at all. `CheckpointCovers` lets the current fields of a
passport be empty after an update of it. In `PassportFabric`, `ReferencesHold` does not
say that the evidence of a verification is still active; the code does not look.

## 4. Proofs

TLAPS proves, for every value of the constants:

**`BmuChainFcProofs`**

* `TypeCorrect`, from `BmuAssumption` alone.
* `SignedRises`, `PipelineKeepsOrder`, `EpochIsFresh` and `Refinement`
  (`Spec => ImplementsFcSource`), from `NoWrap` (no boot outlives its epoch, and the
  boots together stay below the wrap) and `"probe" \notin HseFaults`. `BmuUptime` and
  `BmuProbe` show that neither hypothesis can be dropped.
* `EpochRises`, from `"probe" \notin HseFaults` alone.

The invariant `IInv` adds to the properties what they rest on between boots:
`EpochBehindBoots` (the epoch in flash counts boots at most), `VirginFlash`
(nothing was signed before the slot was configured, so wiping a slot that is
really unconfigured loses nothing), `SignedWithinEpoch` (nothing signed is beyond
the epoch in flash, and below it once advanced), `IdleUnlessRunning` and
`RunningInEpoch` (`g_chain_fc` is the epoch plus the frames of this boot).
`SignedAboveHistory` alone is not inductive: it says nothing of a board that is
off. There is one lemma per group of actions (`PowerStep`, `BootStep`,
`ProtocolStep`, `SigningStep`).

**`FcLedgerProofs`** (the calls one at a time, `FcLedger!Spec`)

* `TypeCorrect`, `RecordsAreKept`, `BindingsAreKept`, `RecordsAreOwned`,
  `OnePassport`, `HighWater`, `CountersDistinct`, from `LedgerAssumption`: whichever
  passports share a DID, and whatever earlier chaincode left under it.

The invariant has four layers: `TypeOK`; `Owned` (records and bindings belong to
passports that have their DID); `OneHolder`, which adds to `OnePassportPerDid` that a
record whose DID is not bound yet is an old one; and `InOrder`, which adds that not only
a bound `lastFc` but also a legacy one covers the protected records. `HighWaterCovers`
is not inductive without this: a repair turns a legacy key into a binding, and an
invalidation of the newest record moves the high water down. A creation that takes a
missing key keeps it because, by `OneHolder`, all that is recorded under such a key is
old, and, by `Founded`, the new passport is none of the old ones, so all of it is
forgotten at that step. Each layer is proved call by call, on top of those below.

**`FcLedgerFabricProofs`** (`FabricSpec`), from `PendingAssumption` as well

* `Serializes`: `FabricSpec => FcLedger!Spec`, for any number of transactions in
  flight; `FabricTypeCorrect`; and each theorem of `FcLedgerProofs` for `FabricSpec`.

The invariant is `Current` (every pending transaction is one the chaincode would make
now) with `OwnIds` (no two make the same record under a transaction's id). The read
set alone does not carry it: `QueryKept` shows that a record which would change the
answer of a rich query comes with a write of the `lastFc` key, which the query's
caller has read; and `OwnIds` covers the automatic ids, which nobody looks up.

**`CredentialsProofs`** (the calls one at a time, `Credentials!Spec`), from
`LifecycleAssumption` and `IssuersAssumption`

* `TypeCorrect`, `References`, `OnlyBoundIsUsed`, `OnlyWhereCalled`, `UpdatesAreKept`,
  `VerdictsFollowEvents`, and the action properties `NothingReplaced`,
  `DecisionsAreFinal`, `LifeKeepsToArrows`: every property of the run.

The 24 calls are sorted once (`CallKinds`): each is a creation under a free key, an
update of a passport (`PassportUpdate`), or a decision about a credential or request.
All proofs go by these kinds, not by calls. Two properties needed strengthening:
`Used` joins status, binding and logs (which organisation has written says how far
the passport has come), and `Complete` says of keys that are not passports yet that
nothing was ever committed to them.

**`PassportFabricProofs`** (`FabricSpec`), from `PendingAssumption` as well

* `Serializes`: `FabricSpec => Credentials!Spec`. What a call returns depends only on
  the documents it has read (`Unaffected`, from one `Same...` lemma per kind of call),
  so a pending transaction that has survived validation is still among `Calls`
  (`Current`), and its commit is a step of `Next`.
* `FabricTypeCorrect`, and each theorem of `CredentialsProofs` for `FabricSpec`.

**`SecureLinkProofs`** (`SecureLink!Spec`), from `LinkAssumption`, for every set of
faults

* `TypeCorrect`, `NoMixedFrames` and `NoCounterTwice`.
* `RightKey`, from `"restore" \notin Faults`: a restore that fails leaves the PSK in the
  slot, as `LinkRecovery` exercises.

`LinkInv` has three layers. `TypeInv` adds to `TypeOK` which states have a key.
`SlotInv` says that the key a frame was authenticated with is still in the RAM slot
until it is encrypted. It is true with the mutex, and also where `CMU_ProtocolTask`
loads a key without it: in WAIT_ACK the slot held the PSK, so a frame that is then
half built is no session frame. `HistoryInv` says where a seed can be before its
counter has started: the one the CMU offers, and those the BMU in INIT could still
take, have accepted nothing, and no frame was made under them. `WindowAboveHistory`
alone is not inductive, because it says nothing of a key until the BMU imports it.
`WindowBounds` covers the wrap: where the end of the window wraps the window is empty,
so the counter after an accepted one never does.

**`TelemetryPathProofs`** with the lemmas of **`ReadModelProofs`** (`PathSpec`), from
`PathAssumption`, `BridgeAssumption`, `RecordsAssumption` and `LedgerAssumption`

* `PathInvariant`, and from it `PathTypeCorrect`, `FramesKept`, `PathCallsLedger` and
  `ReadModelCovers`.
* `PathCountersDistinct`, from the ledger's `IInv`. By `PathAssumption` the path starts
  with no records of earlier chaincode, so there is nothing to forget.

`PathInv` ties the parts together. `BridgeInv`: rows of the open transaction are among
the committed ones, the batch is of rows that are not dead, and an answer belongs to
something posted. `AgentInv`: a request's transaction is one the chaincode would still
make unless it is marked outdated, whether a post or an operator's, and the bridge
waits for at most one request, that of the frame at hand; so a late commit is a call
like any other (`CommitCalls`). `KeptInv`: what the bridge was told "ok" about, and
every row deleted in the open transaction, is on the ledger; without it
`NothingVanishes` would not survive the commit of the batch, nor `LiveOk`. `ViewInv`:
every record at or before the checkpoint, and in the block at hand once it is
upserted, is shown in that version or a later one. Each conjunct is proved action by
action; the ledger's own theorems are reused through `LedgerStep`.

Every proof is checked to its last leaf, and every property and inductive invariant
was model-checked before it was proved.

**Only model-checked.** What is left is liveness: `Recovers` and
`ResyncRestartsExchange` of the link, `SpoolSettles` and `ReadModelCatchesUp` of the
path. Liveness under fairness and anything with ENABLED is out of this prover's reach
and stays with TLC, and so would induction over data and RECURSIVE operators, of which
the modules use none. The violated properties have no theorem, of course.

## 5. Plan

Done, in this order: the counter at its source (`BmuChainFc`), the link that feeds
it (`SecureLink`), the ledger that consumes it (`FcLedger`, `FcLedgerFabric`), the
passport and its credentials (`PassportLifecycle`, `Credentials`, `PassportFabric`),
the bridge, the listener and the whole path (`BridgeSpool`, `ReadModel`,
`TelemetryPath`).

Every safety property of a run now has its theorem. Worth proving next: what a frame on
the path owes to its source (nothing is recorded that the BMU has not signed), and
an abstract link of which `SecureLink` is an implementation.

Not modelled, and why:

* the agent's DID cache and gateway pool: the next components to model; until then a
  request they cut off is an outage of `TelemetryPath`;
* UART framing of the CMU and the feeder: the frames they lose never get a counter, so
  nothing above depends on them;
* the initial sync of cloud-agent, which fills an empty read model before the listener
  starts;
* queries, mcp-monitor and webapp, which only read; scripts and wiki; vendored code.
