------------------------------ MODULE ReadModel ------------------------------
(***************************************************************************)
(* What cloud-agent shows of BMU records: the block listener of            *)
(* src/cloud-agent/services/fabric-listener.js, which copies the writes of *)
(* every block into MongoDB, names the newest record in its passport, and  *)
(* saves how far it has come.                                              *)
(*                                                                         *)
(* A block is one transaction, and of its writes only BMU records and the  *)
(* passport document matter.  The chaincode puts the passport back as a    *)
(* whole, lastBmuDataId included, which it never sets (types.go 187-194):  *)
(* shown as written, it names no record.  The listener does not ask        *)
(* whether Fabric found a transaction valid.                               *)
(* MongoDB is assumed to take every write; the passport is already there,  *)
(* and so is a checkpoint: the listener has seen the blocks that set the   *)
(* channel up.                                                             *)
(***************************************************************************)
EXTENDS Integers, Sequences

CONSTANTS
  Records,       \* record ids
  None,          \* no document, no record
  MaxBehind      \* bound: blocks not yet behind the checkpoint

ASSUME RecordsAssumption ==
  /\ None \notin Records /\ None \notin {"VALID", "INVALIDATED"}
  /\ MaxBehind \in Nat \ {0}

VARIABLES
  blocks,        \* the channel: [valid, docs, passport]: the records written,
                 \* from their ids, and whether the passport is
  at,            \* the block being processed, or the next one to come
  stage,         \* what is next to be done with it
  checkpoint,    \* the block number saved in _sync_meta
  shown,         \* collection bmuRecords: the status of every record, or None
  latest         \* lastBmuDataId of the passport, or None

view == <<blocks, at, stage, checkpoint, shown, latest>>

RecordsIn(n) == DOMAIN blocks[n].docs

ViewTypeOK ==
  /\ checkpoint \in 0 .. Len(blocks)
  /\ at \in 1 .. Len(blocks) + 1
  /\ stage \in {"documents", "projection", "checkpoint"}
  /\ shown \in [Records -> {None, "VALID", "INVALIDATED"}]
  /\ latest \in Records \cup {None}

ViewInit ==
  /\ blocks = <<>> /\ at = 1 /\ stage = "documents" /\ checkpoint = 0
  /\ shown = [r \in Records |-> None]
  /\ latest = None

-----------------------------------------------------------------------------
(* Mutations: what the named definition would be with a bug in its lines.  *)

CheckpointFirst ==                                          \* of UpsertDocuments
  /\ at <= Len(blocks) /\ stage = "documents"
  /\ checkpoint' = at
  /\ shown' = [r \in Records |->
       IF r \in RecordsIn(at) THEN blocks[at].docs[r].status ELSE shown[r]]
  /\ latest' = IF blocks[at].passport THEN None ELSE latest
  /\ stage' = "projection"
  /\ UNCHANGED <<blocks, at>>

ResumeBeyond ==                                             \* of RestartListener
  /\ at' = IF at <= Len(blocks) THEN at + 1 ELSE at
  /\ stage' = "documents"
  /\ UNCHANGED <<blocks, checkpoint, shown, latest>>

-----------------------------------------------------------------------------
(* The channel and its listener.                                           *)

BlockArrives(block) ==
  /\ Len(blocks) - checkpoint < MaxBehind
  /\ blocks' = Append(blocks, block)
  /\ UNCHANGED <<at, stage, checkpoint, shown, latest>>

UpsertDocuments ==
  /\ at <= Len(blocks) /\ stage = "documents"
  /\ shown' = [r \in Records |->
       IF r \in RecordsIn(at) THEN blocks[at].docs[r].status ELSE shown[r]]
  /\ latest' = IF blocks[at].passport THEN None ELSE latest
  /\ stage' = "projection"
  /\ UNCHANGED <<blocks, at, checkpoint>>

ProjectRecord ==
  /\ stage = "projection"
  /\ IF RecordsIn(at) = {} THEN latest' = latest ELSE latest' \in RecordsIn(at)
  /\ stage' = "checkpoint"
  /\ UNCHANGED <<blocks, at, checkpoint, shown>>

SaveCheckpoint ==
  /\ stage = "checkpoint"
  /\ checkpoint' = at
  /\ at' = at + 1
  /\ stage' = "documents"
  /\ UNCHANGED <<blocks, shown, latest>>

RestartListener ==
  /\ at' = checkpoint + 1
  /\ stage' = "documents"
  /\ UNCHANGED <<blocks, checkpoint, shown, latest>>

Listen == UpsertDocuments \/ ProjectRecord \/ SaveCheckpoint

-----------------------------------------------------------------------------
(* Properties.                                                             *)

\* Whatever the checkpoint has passed is in the read model, in that version or
\* in a later one: the records, and the record its passport names, or none if
\* the passport was put back since.  A crash between the write, the projection
\* and the checkpoint never leaves a block out (startBlockListener resumes at
\* the checkpoint).
CheckpointCovers ==
  LET Before(r) == {n \in 1 .. checkpoint : r \in RecordsIn(n)}
      LastOf(S) == CHOOSE n \in S : \A m \in S : m <= n
      Named     == {n \in 1 .. checkpoint :
                      RecordsIn(n) # {} \/ blocks[n].passport}
  IN  /\ \A r \in Records : Before(r) # {} =>
           \E n \in LastOf(Before(r)) .. Len(blocks) :
             r \in RecordsIn(n) /\ shown[r] = blocks[n].docs[r].status
      /\ Named # {} =>
           \E n \in LastOf(Named) .. Len(blocks) :
             IF blocks[n].passport THEN latest = None ELSE latest \in RecordsIn(n)
=============================================================================
