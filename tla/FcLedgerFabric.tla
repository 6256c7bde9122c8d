--------------------------- MODULE FcLedgerFabric ---------------------------
(***************************************************************************)
(* FcLedger on Hyperledger Fabric.  A call is simulated against the world  *)
(* state its endorser sees; its writes wait for their turn in a block, and *)
(* validation drops a transaction if any key it read has been written      *)
(* since.  Dropping it as soon as that happens is the same thing: it can   *)
(* no longer commit.  A rich query is not run again at validation, so a    *)
(* record that appears meanwhile does not count as a change.               *)
(*                                                                         *)
(* Fabric itself is outside the repository; this is what the chaincode     *)
(* relies on.                                                              *)
(***************************************************************************)
EXTENDS FcLedger

CONSTANT MaxPending    \* bound: transactions endorsed and not committed

ASSUME PendingAssumption == MaxPending \in Nat

VARIABLE pending       \* endorsed transactions; two alike would conflict

fabric == <<world, since, pending>>

FabricTypeOK ==
  /\ TypeOK
  /\ Cardinality(pending) <= MaxPending
  /\ \A t \in pending :
       /\ t.op \in {"create", "record", "invalidate", "reset", "repair"}
       /\ t.did \in Dids
       /\ t.reads \subseteq Keys
       /\ DOMAIN t.writes \subseteq Keys

FabricInit == Init /\ pending = {}

-----------------------------------------------------------------------------
(* Mutations: what the named definition would be with a bug in its lines.  *)

ReadsNotChecked(u, written)    == TRUE                      \* of StillValid
OnlyWritesChecked(u, written)  ==                           \* of StillValid
  DOMAIN u.writes \cap written = {}

-----------------------------------------------------------------------------
Endorse(t) ==
  /\ Cardinality(pending) < MaxPending
  /\ pending' = pending \cup {t}
  /\ UNCHANGED ledger

\* A transaction id is never used twice.
Unused(r) == r \in AutoIds => \A t \in pending : r \notin DOMAIN t.writes

EndorseCreate ==
  \E p \in Passports, d \in Dids : CanCreate(p, d) /\ Endorse(CreateTx(p, d))

EndorseRecord ==
  \E r \in Ids, p \in Passports, d \in Dids, f \in Counters :
    /\ Unused(r)
    /\ CanRecord(r, p, d, f)
    /\ \E looked \in LookUps(r, p) : Endorse(RecordTx(r, p, d, f, looked))

EndorseInvalidate ==
  \E r \in Ids : CanInvalidate(r) /\ Endorse(InvalidateTx(r))

EndorseReset == \E d \in Dids : CanReset(d) /\ Endorse(ResetTx(d))

EndorseRepair ==
  \E p \in Passports, d \in Dids : CanRepair(p, d) /\ Endorse(RepairTx(p, d))

\* Nothing transaction u has read is among the keys just written.
StillValid(u, written) == u.reads \cap written = {}

Commit ==
  \E t \in pending :
    /\ Apply(t)
    /\ pending' = {u \in pending \ {t} : StillValid(u, DOMAIN t.writes)}

FabricNext == EndorseCreate \/ EndorseRecord \/ EndorseInvalidate
                \/ EndorseReset \/ EndorseRepair \/ Commit

FabricSpec == FabricInit /\ [][FabricNext]_fabric

-----------------------------------------------------------------------------
(* Properties.                                                             *)

\* Endorsing against a state that is old by the time of the commit changes
\* nothing: every commit is a call made in the state it commits to.  For the
\* rich queries this needs more than the read set, namely that every new
\* record of a DID also writes its lastFc key.
Serializable == Spec
=============================================================================
