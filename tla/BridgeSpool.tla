----------------------------- MODULE BridgeSpool -----------------------------
(***************************************************************************)
(* The bridge between the BMU's UART and the agent,                        *)
(* src/firmware/tools/serial_to_agent.py: one loop that reads a signed     *)
(* line, posts it and waits for the answer, and now and then posts again   *)
(* what the spool holds.                                                   *)
(*                                                                         *)
(* A frame is its counter.  The [DATA] line that may be paired with it     *)
(* only adds fields the agent does not read; event lines change nothing.   *)
(* Frames come with rising counters, each once, and the buffer is first in *)
(* first out.  So a frame has one row in the spool, and the order of the   *)
(* rows' ids, in which they are posted again, is that of their counters.   *)
(* An answer is what post_to_agent_status makes of it: ok, permanent (4xx) *)
(* or transient (5xx, no connection, time-out), after a second login where *)
(* the first answer was 401.  A crash is followed by a restart.            *)
(***************************************************************************)
EXTENDS Integers, Sequences, FiniteSets

CONSTANTS
  MaxLine,       \* lines the serial driver holds while the loop is busy
  MaxTries,      \* 50: tries before a row is left for dead
  MaxBatch,      \* 10: rows of one retry
  MinFc          \* --min-fc: frames below are skipped

ASSUME BridgeAssumption ==
  /\ MaxLine \in Nat \ {0}
  /\ MaxTries \in Nat \ {0}
  /\ MaxBatch \in Nat \ {0}
  /\ MinFc \in Nat

VARIABLES
  line,          \* frames in the driver's buffer
  hand,          \* the live frame being posted, if any
  spool,         \* the rows of spool.db, as committed: the tries of each frame
  work,          \* the same rows as the open database transaction has them
  batch,         \* frames of the running retry still to be posted
  post,          \* the post under way, or the answer to it
  lost           \* history: frames gone with the buffer or with the process

bridge == <<line, hand, spool, work, batch, post, lost>>

InSeq(s) == {s[i] : i \in DOMAIN s}

Eligible == {f \in DOMAIN spool : spool[f] < MaxTries}
Dead     == DOMAIN spool \ Eligible

BridgeTypeOK ==
  /\ Len(line) <= MaxLine /\ Len(hand) <= 1
  /\ Cardinality(batch) <= MaxBatch /\ batch \subseteq DOMAIN work
  /\ hand = <<>> \/ batch = {}
  /\ batch = {} => work = spool
  /\ \A rows \in {spool, work} : rows \in [DOMAIN rows -> 0 .. MaxTries]
  /\ post \in {"none", "waiting", "ok", "permanent", "transient"}

BridgeInit ==
  /\ line = <<>> /\ hand = <<>> /\ batch = {}
  /\ spool = [f \in {} |-> 0] /\ work = spool
  /\ post = "none"
  /\ lost = {}

Idle   == hand = <<>> /\ batch = {}
Oldest == CHOOSE f \in batch : \A g \in batch : f <= g
Posted == IF hand # <<>> THEN hand[1] ELSE Oldest

-----------------------------------------------------------------------------
(* Mutations: what the named definition would be with a bug in its lines.  *)

RefusedDeleted(rows, f) ==                                  \* of Counted
  [g \in DOMAIN rows \ {f} |-> rows[g]]

NotCounted(rows, f) == rows                                 \* of Counted

NotCommitted(rows, rest) ==                                 \* of GoOn
  /\ work' = rows /\ batch' = rest /\ post' = "none"
  /\ UNCHANGED <<line, hand, spool, lost>>

-----------------------------------------------------------------------------
(* The loop.                                                               *)

\* A signed line comes in; a full buffer loses it.
LineArrives(f) ==
  /\ IF Len(line) < MaxLine THEN line' = Append(line, f) /\ lost' = lost
                            ELSE line' = line /\ lost' = lost \cup {f}
  /\ UNCHANGED <<hand, spool, work, batch, post>>

Skip ==
  /\ Idle /\ line # <<>>
  /\ Head(line) < MinFc
  /\ line' = Tail(line)
  /\ UNCHANGED <<hand, spool, work, batch, post, lost>>

TakeLine ==
  /\ Idle /\ line # <<>>
  /\ Head(line) >= MinFc
  /\ line' = Tail(line)
  /\ hand' = <<Head(line)>>
  /\ UNCHANGED <<spool, work, batch, post, lost>>

\* Every twentieth turn: the oldest rows that are not dead.
StartRetry ==
  /\ Idle /\ Eligible # {}
  /\ batch' = {f \in Eligible :
                 Cardinality({g \in Eligible : g < f}) < MaxBatch}
  /\ UNCHANGED <<line, hand, spool, work, post, lost>>

Send ==
  /\ ~Idle /\ post = "none"
  /\ post' = "waiting"
  /\ UNCHANGED <<line, hand, spool, work, batch, lost>>

LiveOk ==
  /\ hand # <<>> /\ post = "ok"
  /\ hand' = <<>> /\ post' = "none"
  /\ UNCHANGED <<line, spool, work, batch, lost>>

Inserted(rows, f) ==
  [g \in DOMAIN rows \cup {f} |-> IF g = f THEN 0 ELSE rows[g]]

\* Whatever the reason, a live frame that was not accepted is spooled.
LiveFailed ==
  /\ hand # <<>> /\ post \in {"permanent", "transient"}
  /\ spool' = Inserted(spool, Posted) /\ work' = spool'
  /\ hand' = <<>> /\ post' = "none"
  /\ UNCHANGED <<line, batch, lost>>

Deleted(rows, f) == [g \in DOMAIN rows \ {f} |-> rows[g]]

Counted(rows, f) == [rows EXCEPT ![f] = @ + 1]

\* The rows are now these; the database transaction is committed when none of
\* the batch is left to be posted.
GoOn(rows, rest) ==
  /\ work' = rows /\ batch' = rest
  /\ spool' = IF rest = {} THEN rows ELSE spool
  /\ post' = "none"
  /\ UNCHANGED <<line, hand, lost>>

RowOk ==
  /\ batch # {} /\ post = "ok"
  /\ GoOn(Deleted(work, Posted), batch \ {Posted})

RowRefused ==
  /\ batch # {} /\ post = "permanent"
  /\ GoOn(Counted(work, Posted), batch \ {Posted})

RowFailed ==
  /\ batch # {} /\ post = "transient"
  /\ GoOn(Counted(work, Posted), {})

Crash ==
  /\ lost' = lost \cup InSeq(line) \cup InSeq(hand)
  /\ line' = <<>> /\ hand' = <<>> /\ batch' = {} /\ post' = "none"
  /\ work' = spool
  /\ UNCHANGED spool

\* The steps of the loop that touch nothing but the bridge.
Loop == Skip \/ TakeLine \/ StartRetry \/ LiveOk \/ LiveFailed
          \/ RowOk \/ RowRefused \/ RowFailed
=============================================================================
