---------------------------- MODULE TelemetryPath ----------------------------
(***************************************************************************)
(* A signed frame's way from the UART to the read model: the bridge        *)
(* (BridgeSpool), the ingest route of bmu-agent                            *)
(* (src/bmu-agent/routes/bmu.routes.js), the ledger (FcLedger) on Fabric,  *)
(* and the block listener (ReadModel).                                     *)
(*                                                                         *)
(* The path is that of one BMU, whose passport exists and is bound and     *)
(* whose frames pass the agent's checks of form, signature and binding.    *)
(* The agent handles a request to its end even when the bridge has stopped *)
(* waiting for it; Fabric validates a transaction against what it read.    *)
(* What the environment may do to the path is in Disturbances: a post      *)
(* timing out, the agent or its peers not answering, the agent's rate      *)
(* limit, a crash of the bridge or of the listener, an operator asking to  *)
(* invalidate a record or to reset lastFc, an organisation updating the    *)
(* passport (PassportLifecycle).                                           *)
(***************************************************************************)
EXTENDS FcLedger, BridgeSpool, ReadModel

CONSTANTS
  Passport1,        \* the passport
  Did1,             \* its DID
  Disturbances,     \* what may go wrong or be interfered with
  MaxDisturbances,  \* bound: how often
  MaxRequests       \* bound: requests the agent has at hand

ASSUME PathAssumption ==
  /\ Passport1 \in Passports /\ Did1 \in Dids
  /\ DOMAIN Enrolled = {} /\ DOMAIN OldRecords = {}
  /\ Records = Ids
  /\ ClientIds \subseteq Nat
  /\ Disturbances \subseteq {"timeout", "outage", "limit", "crash", "restart",
                             "invalidate", "reset", "update"}
  /\ MaxDisturbances \in Nat
  /\ MaxRequests \in Nat \ {0}

VARIABLES
  last,          \* the counter of the newest frame the BMU has signed
  requests,      \* what the agent is handling: [fc, tx, stale, awaited], the
                 \* frames posted and the calls of operators
  disturbed      \* how often the path has been disturbed

path == <<ledger, bridge, view, last, requests, disturbed>>

NoTx       == [op |-> "none"]
Endorsed(q) == q.tx # NoTx
Awaited    == {q \in requests : q.awaited}

PathTypeOK ==
  /\ BridgeTypeOK
  /\ ViewTypeOK
  /\ DidDoc(world[Did1])
  /\ \A r \in Ids : RecordDoc(world[r])
  /\ Cardinality(requests) <= MaxRequests
  /\ \A q \in Awaited : ~Idle /\ q.fc = Posted
  /\ Cardinality(Awaited) = IF post = "waiting" THEN 1 ELSE 0

PathInit ==
  /\ world = [k \in Keys |-> IF k = Passport1 THEN Passport(Did1)
                             ELSE IF k = Did1 THEN Binding(Passport1, NoFc)
                             ELSE Nil]
  /\ since = [d \in Dids |-> {}]
  /\ BridgeInit
  /\ ViewInit
  /\ last = -1
  /\ requests = {}
  /\ disturbed = 0

Disturb(what) ==
  /\ what \in Disturbances /\ disturbed < MaxDisturbances
  /\ disturbed' = disturbed + 1

Undisturbed == UNCHANGED disturbed

-----------------------------------------------------------------------------
(* The agent and Fabric.                                                   *)

\* The BMU signs its next frame: FcSource, one counter at a time.
Emit ==
  /\ last + 1 \in Counters
  /\ last' = last + 1
  /\ LineArrives(last')
  /\ UNCHANGED <<ledger, view, requests>> /\ Undisturbed

\* The bridge posts the frame in hand or the next row of its batch.
SendRequest ==
  /\ Cardinality(requests) < MaxRequests
  /\ Send
  /\ requests' = requests \cup
       {[fc |-> Posted, tx |-> NoTx, stale |-> FALSE, awaited |-> TRUE]}
  /\ UNCHANGED <<ledger, view, last>> /\ Undisturbed

\* Request q is answered; nobody may be waiting any more.
Answer(q, outcome) ==
  /\ post' = IF q.awaited THEN outcome ELSE post
  /\ UNCHANGED <<line, hand, spool, work, batch, lost, last>>

\* The chaincode refuses the counter: 400.
Refuse ==
  \E q \in requests :
    /\ ~Endorsed(q) /\ ~NextFc(Passport1, Did1, q.fc)
    /\ requests' = requests \ {q}
    /\ Answer(q, "permanent")
    /\ UNCHANGED <<ledger, view>> /\ Undisturbed

\* A random record id: any that was never used will do.  ClientIds bounds how
\* many there are.
UsedIds ==
  {r \in Ids : world[r] # Nil} \cup UNION {RecordsIn(n) : n \in DOMAIN blocks}
    \cup UNION {DOMAIN q.tx.writes : q \in {x \in requests : Endorsed(x)}}

FreshId(r) ==
  /\ r \in ClientIds \ UsedIds
  /\ \A s \in ClientIds \ UsedIds : r <= s

EndorseRequest ==
  \E q \in requests, r \in ClientIds :
    /\ FreshId(r)
    /\ ~Endorsed(q) /\ CanRecord(r, Passport1, Did1, q.fc)
    /\ requests' = (requests \ {q}) \cup
         {[q EXCEPT !.tx = RecordTx(r, Passport1, Did1, q.fc, {r, Passport1})]}
    /\ UNCHANGED <<ledger, bridge, view, last>> /\ Undisturbed

\* A transaction takes effect: its block goes out, and what has read the keys it
\* wrote will be found invalid.
Outdated(qs, keys) ==
  {IF Endorsed(q) /\ q.tx.reads \cap keys # {}
   THEN [q EXCEPT !.stale = TRUE] ELSE q : q \in qs}

RecordBlock(t, valid) ==
  [valid |-> valid, passport |-> FALSE,
   docs |-> [r \in DOMAIN t.writes \cap Ids |-> t.writes[r]]]

TakesEffect(t, others) ==
  /\ Apply(t)
  /\ BlockArrives(RecordBlock(t, TRUE))
  /\ requests' = Outdated(others, DOMAIN t.writes)

CommitRequest ==
  \E q \in requests :
    /\ Endorsed(q) /\ ~q.stale
    /\ TakesEffect(q.tx, requests \ {q})
    /\ Answer(q, "ok")
    /\ Undisturbed

\* MVCC_READ_CONFLICT: in a block, without effect, and a 500 for the client.
ConflictRequest ==
  \E q \in requests :
    /\ Endorsed(q) /\ q.stale
    /\ BlockArrives(RecordBlock(q.tx, FALSE))
    /\ requests' = requests \ {q}
    /\ Answer(q, "transient")
    /\ UNCHANGED ledger /\ Undisturbed

-----------------------------------------------------------------------------
(* Disturbances.                                                           *)

\* The post ends before anything has been submitted.
Dismissed(outcome) ==
  \E q \in Awaited :
    /\ ~Endorsed(q)
    /\ requests' = requests \ {q}
    /\ Answer(q, outcome)
    /\ UNCHANGED <<ledger, view>>

\* The agent is not reached, or it does not reach the ledger: 5xx.
Outage == Dismissed("transient") /\ Disturb("outage")

\* 429, which the bridge takes for a refusal of the frame.
RateLimited == Dismissed("permanent") /\ Disturb("limit")

\* Five seconds are over, the request goes on.
TimeOut ==
  \E q \in Awaited :
    /\ requests' = (requests \ {q}) \cup {[q EXCEPT !.awaited = FALSE]}
    /\ Answer(q, "transient")
    /\ UNCHANGED <<ledger, view>>
    /\ Disturb("timeout")

BridgeCrash ==
  /\ Crash
  /\ requests' = {[q EXCEPT !.awaited = FALSE] : q \in requests}
  /\ UNCHANGED <<ledger, view, last>>
  /\ Disturb("crash")

ListenerCrash ==
  /\ RestartListener
  /\ UNCHANGED <<ledger, bridge, last, requests>>
  /\ Disturb("restart")

\* An operator's call (routes /invalidate, /reset-fc) goes to Fabric as a frame
\* does: it is endorsed now, to be committed or found invalid among the frames.
\* Nobody at the bridge waits for it.
OperatorSubmits(t) ==
  /\ Cardinality(requests) < MaxRequests
  /\ requests' = requests \cup
       {[fc |-> NoFc, tx |-> t, stale |-> FALSE, awaited |-> FALSE]}
  /\ UNCHANGED <<ledger, bridge, view, last>>

OperatorInvalidates ==
  /\ \E r \in Ids : CanInvalidate(r) /\ OperatorSubmits(InvalidateTx(r))
  /\ Disturb("invalidate")

OperatorResets ==
  /\ CanReset(Did1) /\ OperatorSubmits(ResetTx(Did1))
  /\ Disturb("reset")

\* Any update of the passport puts its document back, at once here, and records
\* endorsed on the older one are dropped.  What it changes is nothing to this path.
OrganisationUpdates ==
  /\ BlockArrives([valid |-> TRUE, passport |-> TRUE, docs |-> [r \in {} |-> None]])
  /\ requests' = Outdated(requests, {Passport1})
  /\ UNCHANGED <<ledger, bridge, last>>
  /\ Disturb("update")

-----------------------------------------------------------------------------
BridgeLoop == Loop /\ UNCHANGED <<ledger, view, last, requests>> /\ Undisturbed

Listener == Listen /\ UNCHANGED <<ledger, bridge, last, requests>> /\ Undisturbed

Agent == Refuse \/ EndorseRequest \/ CommitRequest \/ ConflictRequest

Disturbance == Outage \/ RateLimited \/ TimeOut \/ BridgeCrash \/ ListenerCrash
                 \/ OperatorInvalidates \/ OperatorResets
                 \/ OrganisationUpdates

PathNext == Emit \/ SendRequest \/ BridgeLoop \/ Agent \/ Listener \/ Disturbance

\* The bridge's loop, the agent's handlers and the listener's callback all go on
\* while there is something for them to do.
PathFairness ==
  /\ WF_path(SendRequest \/ BridgeLoop)
  /\ WF_path(Agent)
  /\ WF_path(Listener)

PathSpec == PathInit /\ [][PathNext]_path /\ PathFairness

-----------------------------------------------------------------------------
(* Properties.                                                             *)

RecordedFrames == {world[r].fc : r \in {s \in Ids : Recorded(s)}}

\* A frame that came out of the UART is recorded, spooled (for ever once dead),
\* under way, or gone in a way that is known: below --min-fc, in a full buffer,
\* in the crash of the bridge.  No answer, time-out or rolled-back batch makes
\* another one vanish.
NothingVanishes ==
  \A f \in Counters : f <= last =>
    f < MinFc \/ f \in RecordedFrames \cup DOMAIN spool \cup InSeq(line)
                         \cup InSeq(hand) \cup lost

\* Every commit on the path is a call the chaincode would make in the state it
\* commits to, so what is proved of FcLedger holds of the path: posts that were
\* given up and commit late are no exception.
LedgerCalls == [][Next]_ledger

\* When the BMU falls silent the bridge comes to rest: what it has read is
\* posted, and every row is accepted or has used up its tries.  Refused rows do
\* not hold up the rows behind them for ever.
SpoolSettles == <>[](line = <<>> /\ Idle /\ Eligible = {})

\* The last block with record r is that of a transaction Fabric found invalid.
Misled(r) ==
  \E n \in DOMAIN blocks :
    /\ r \in RecordsIn(n) /\ ~blocks[n].valid
    /\ \A m \in DOMAIN blocks : m > n => r \notin RecordsIn(m)

\* The read model catches up with the ledger: in the end it shows every record
\* with the status it has there, unless the last word on the record was an
\* invalidation that a concurrent frame made Fabric drop.
ReadModelCatchesUp ==
  <>[](\A r \in Ids : Recorded(r) /\ ~Misled(r) => shown[r] = world[r].status)

\* README.md, serial_to_agent.py: frames are spooled and tried up to 50 times, so
\* none is lost while the agent is down for a while.
NoLoss == Dead \subseteq RecordedFrames
=============================================================================
