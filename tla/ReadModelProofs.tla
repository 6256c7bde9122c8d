--------------------------- MODULE ReadModelProofs ---------------------------
(***************************************************************************)
(* Proofs about ReadModel, for any channel whose blocks are well formed:   *)
(* the checkpoint never passes a block that the read model does not show,  *)
(* in that version or a later one.  The module has no specification of its *)
(* own; here are the invariant and its steps, which TelemetryPathProofs    *)
(* puts together with the ledger that fills the channel.                   *)
(***************************************************************************)
EXTENDS ReadModel, TLAPS, WellFoundedInduction, SequenceTheorems

\* What the channel carries: records with a status, or a passport put back, not
\* both in one block.
BlockOk(b) ==
  /\ DOMAIN b.docs \subseteq Records
  /\ \A r \in DOMAIN b.docs : b.docs[r].status \in {"VALID", "INVALIDATED"}
  /\ b.passport \in BOOLEAN
  /\ b.passport => DOMAIN b.docs = {}

ChannelOk ==
  /\ \E B : blocks \in Seq(B)
  /\ \A n \in 1 .. Len(blocks) : BlockOk(blocks[n])

\* The block at hand is the one after the checkpoint.
AtNext ==
  /\ at = checkpoint + 1
  /\ stage # "documents" => at <= Len(blocks)

\* Record r is shown as block n or a later one has it.
Shows(n, r) ==
  \E m \in n .. Len(blocks) :
    r \in RecordsIn(m) /\ shown[r] = blocks[m].docs[r].status

\* The record the passport names is of block n or a later one.
Names(n) ==
  \E m \in n .. Len(blocks) :
    IF blocks[m].passport THEN latest = None ELSE latest \in RecordsIn(m)

DocumentsShown ==
  \A n \in 1 .. Len(blocks) : \A r \in RecordsIn(n) :
    n <= checkpoint \/ (n = at /\ stage # "documents") => Shows(n, r)

RecordsNamed ==
  \A n \in 1 .. Len(blocks) :
    /\ RecordsIn(n) # {} \/ blocks[n].passport
    /\ n <= checkpoint \/ (n = at /\ stage = "checkpoint")
    => Names(n)

PassportShown == stage = "projection" /\ blocks[at].passport => latest = None

ViewInv ==
  /\ ViewTypeOK /\ ChannelOk /\ AtNext
  /\ DocumentsShown /\ RecordsNamed /\ PassportShown

-----------------------------------------------------------------------------
(* Largest members.                                                        *)

\* A nonempty set of block numbers has a largest member.
LEMMA LargestBlock ==
  ASSUME NEW top \in Nat, NEW T, T \subseteq 1 .. top, T # {}
  PROVE  \E f \in T : \A g \in T : g <= f
<1> DEFINE U == {n \in Nat : \E f \in T : n = top - f}
<1> DEFINE R == {ss \in Nat \X Nat : ss[1] < ss[2]}
<1>2. IsWellFoundedOn(R, Nat)
  BY NatLessThanWellFounded DEF OpToRel
<1>3. ASSUME NEW f \in T
      PROVE  top - f \in U
  BY SMT
<1>4. U \subseteq Nat /\ U # {}
  <2>1. PICK f \in T : TRUE
    OBVIOUS
  <2>2. top - f \in U
    BY <1>3
  <2>3. QED
    BY <2>2
<1>5. \E n \in U : \A m \in U : ~ (<<m, n>> \in R)
  <2> HIDE DEF U, R
  <2> QED  BY <1>2, <1>4, WFMin, Zenon
<1>6. PICK n \in U : \A m \in U : ~ (<<m, n>> \in R)
  BY <1>5
<1>7. ASSUME NEW m \in U
      PROVE  n <= m
  <2>1. n \in Nat /\ m \in Nat
    BY <1>4
  <2>2. ~ (m < n)
    BY <1>6, <2>1
  <2>3. QED
    BY <2>1, <2>2, SMT
<1>8. PICK f \in T : n = top - f
  OBVIOUS
<1>9. ASSUME NEW g \in T
      PROVE  g <= f
  <2>1. n <= top - g
    BY <1>3, <1>7
  <2>2. QED
    BY <2>1, <1>8, SMT
<1>10. QED
  BY <1>9

-----------------------------------------------------------------------------
(* The inductive invariant.                                                *)

\* Nothing has been synchronised, and nothing was to be.
LEMMA ViewInvInit == ViewInit => ViewInv
<1> SUFFICES ASSUME ViewInit
             PROVE  ViewInv
  OBVIOUS
<1>1. <<>> \in Seq({}) /\ Len(<<>>) = 0
  BY SMT
<1>2. ViewTypeOK
  BY <1>1, SMT DEF ViewInit, ViewTypeOK
<1>3. ChannelOk /\ AtNext /\ DocumentsShown /\ RecordsNamed /\ PassportShown
  BY <1>1, SMT
     DEF ViewInit, ChannelOk, AtNext, DocumentsShown, RecordsNamed,
         PassportShown
<1>4. QED
  BY <1>2, <1>3 DEF ViewInv

\* A block at the end of the channel leaves those before it.
LEMMA BlockAppended ==
  ASSUME ViewInv, NEW b, BlockArrives(b)
  PROVE  /\ Len(blocks) \in Nat /\ Len(blocks') = Len(blocks) + 1
         /\ \A n \in 1 .. Len(blocks) : blocks'[n] = blocks[n]
         /\ blocks'[Len(blocks) + 1] = b
         /\ \E B : blocks' \in Seq(B)
<1>1. PICK B : blocks \in Seq(B)
  BY DEF ViewInv, ChannelOk
<1>2. blocks \in Seq(B \cup {b})
  BY <1>1, SeqMonotonic
<1>3. blocks' = Append(blocks, b)
  BY DEF BlockArrives
<1>4. QED
  BY <1>2, <1>3, AppendProperties, SMT

\* A new block is ahead of the listener, and hides none of those it has shown.
LEMMA BlockArrivesStep ==
  ASSUME ViewInv, NEW b, BlockOk(b), BlockArrives(b)
  PROVE  ViewInv'
<1>1. /\ Len(blocks) \in Nat /\ Len(blocks') = Len(blocks) + 1
      /\ \A n \in 1 .. Len(blocks) : blocks'[n] = blocks[n]
      /\ blocks'[Len(blocks) + 1] = b
      /\ \E B : blocks' \in Seq(B)
  BY BlockAppended
<1>2. UNCHANGED <<at, stage, checkpoint, shown, latest>>
  BY DEF BlockArrives
<1>3. /\ checkpoint \in Nat /\ checkpoint <= Len(blocks)
      /\ at = checkpoint + 1
      /\ stage # "documents" => at <= Len(blocks)
  BY <1>1, SMT DEF ViewInv, ViewTypeOK, AtNext
<1>4. ViewTypeOK'
  BY <1>1, <1>2, <1>3, SMT DEF ViewInv, ViewTypeOK
<1>5. ChannelOk'
  <2>1. ASSUME NEW n \in 1 .. Len(blocks')
        PROVE  BlockOk(blocks'[n])
    <3>1. CASE n \in 1 .. Len(blocks)
      BY <1>1, <3>1 DEF ViewInv, ChannelOk
    <3>2. CASE n = Len(blocks) + 1
      BY <1>1, <3>2
    <3>3. QED
      BY <1>1, <3>1, <3>2, SMT
  <2>2. QED
    BY <1>1, <2>1 DEF ChannelOk
<1>6. AtNext'
  BY <1>1, <1>2, <1>3, SMT DEF AtNext
<1>7. ASSUME NEW n \in 1 .. Len(blocks'),
             n <= checkpoint' \/ (n = at' /\ stage' # "documents")
      PROVE  /\ n \in 1 .. Len(blocks) /\ blocks'[n] = blocks[n]
             /\ n <= checkpoint \/ (n = at /\ stage # "documents")
  BY <1>1, <1>2, <1>3, <1>7, SMT
<1>8. DocumentsShown'
  <2> SUFFICES ASSUME NEW n \in 1 .. Len(blocks'), NEW r \in RecordsIn(n)',
                      n <= checkpoint' \/ (n = at' /\ stage' # "documents")
               PROVE  Shows(n, r)'
    BY DEF DocumentsShown
  <2>1. n \in 1 .. Len(blocks) /\ blocks'[n] = blocks[n]
    BY <1>7
  <2>2. Shows(n, r)
    BY <1>7, <2>1 DEF ViewInv, DocumentsShown, RecordsIn
  <2>3. PICK m \in n .. Len(blocks) :
          r \in RecordsIn(m) /\ shown[r] = blocks[m].docs[r].status
    BY <2>2 DEF Shows
  <2>4. m \in n .. Len(blocks') /\ blocks'[m] = blocks[m]
    BY <1>1, <2>1, <2>3, SMT
  <2>5. QED
    BY <1>2, <2>3, <2>4 DEF Shows, RecordsIn
<1>9. RecordsNamed'
  <2> SUFFICES ASSUME NEW n \in 1 .. Len(blocks'),
                      RecordsIn(n)' # {} \/ blocks'[n].passport,
                      n <= checkpoint' \/ (n = at' /\ stage' = "checkpoint")
               PROVE  Names(n)'
    BY DEF RecordsNamed
  <2>1. n \in 1 .. Len(blocks) /\ blocks'[n] = blocks[n]
    BY <1>7
  <2>2. Names(n)
    BY <1>2, <2>1 DEF ViewInv, RecordsNamed, RecordsIn
  <2>3. PICK m \in n .. Len(blocks) :
          IF blocks[m].passport THEN latest = None ELSE latest \in RecordsIn(m)
    BY <2>2 DEF Names
  <2>4. m \in n .. Len(blocks') /\ blocks'[m] = blocks[m]
    BY <1>1, <2>1, <2>3, SMT
  <2>5. QED
    BY <1>2, <2>3, <2>4 DEF Names, RecordsIn
<1>10. PassportShown'
  <2>1. CASE stage = "projection"
    <3>1. blocks'[at] = blocks[at]
      BY <1>1, <1>3, <2>1, SMT
    <3>2. QED
      BY <1>2, <3>1 DEF ViewInv, PassportShown
  <2>2. CASE stage # "projection"
    BY <1>2, <2>2 DEF PassportShown
  <2>3. QED
    BY <2>1, <2>2
<1>11. QED
  BY <1>4, <1>5, <1>6, <1>8, <1>9, <1>10 DEF ViewInv

\* The bounds of block numbers as the listener's steps need them.
LEMMA Position ==
  ASSUME ViewInv
  PROVE  /\ Len(blocks) \in Nat /\ checkpoint \in Nat
         /\ checkpoint <= Len(blocks) /\ at = checkpoint + 1
         /\ stage # "documents" => at \in 1 .. Len(blocks)
<1>1. PICK B : blocks \in Seq(B)
  BY DEF ViewInv, ChannelOk
<1>2. Len(blocks) \in Nat
  BY <1>1, LenProperties
<1>3. QED
  BY <1>2, SMT DEF ViewInv, ViewTypeOK, AtNext

\* Once its records are upserted the block is shown as it is; what it does not
\* write is shown as before.
LEMMA UpsertDocumentsStep == ViewInv /\ UpsertDocuments => ViewInv'
<1> SUFFICES ASSUME ViewInv, UpsertDocuments
             PROVE  ViewInv'
  OBVIOUS
<1>1. /\ UNCHANGED <<blocks, at, checkpoint>>
      /\ stage = "documents" /\ stage' = "projection"
      /\ at \in 1 .. Len(blocks)
      /\ shown' = [r \in Records |->
           IF r \in RecordsIn(at) THEN blocks[at].docs[r].status ELSE shown[r]]
      /\ latest' = IF blocks[at].passport THEN None ELSE latest
  BY Position, SMT DEF UpsertDocuments
<1>2. BlockOk(blocks[at])
  BY <1>1 DEF ViewInv, ChannelOk
<1>3. ViewTypeOK'
  <2>1. shown' \in [Records -> {None, "VALID", "INVALIDATED"}]
    BY <1>1, <1>2 DEF ViewInv, ViewTypeOK, BlockOk, RecordsIn
  <2>2. latest' \in Records \cup {None}
    BY <1>1 DEF ViewInv, ViewTypeOK
  <2>3. QED
    BY <1>1, <2>1, <2>2 DEF ViewInv, ViewTypeOK
<1>4. ChannelOk'
  BY <1>1 DEF ViewInv, ChannelOk
<1>5. AtNext'
  BY <1>1, Position, SMT DEF AtNext
<1>6. DocumentsShown'
  <2> SUFFICES ASSUME NEW n \in 1 .. Len(blocks), NEW r \in RecordsIn(n),
                      n <= checkpoint \/ n = at
               PROVE  Shows(n, r)'
    BY <1>1 DEF DocumentsShown, RecordsIn
  <2>0. r \in Records
    BY DEF ViewInv, ChannelOk, BlockOk, RecordsIn
  <2>1. CASE r \in RecordsIn(at)
    <3>1. at \in n .. Len(blocks)
      BY <1>1, Position, SMT
    <3>2. shown'[r] = blocks[at].docs[r].status
      BY <1>1, <2>0, <2>1
    <3>3. QED
      BY <1>1, <2>1, <3>1, <3>2 DEF Shows, RecordsIn
  <2>2. CASE r \notin RecordsIn(at)
    <3>1. n <= checkpoint
      BY <2>2
    <3>2. PICK m \in n .. Len(blocks) :
            r \in RecordsIn(m) /\ shown[r] = blocks[m].docs[r].status
      BY <3>1 DEF ViewInv, DocumentsShown, Shows
    <3>3. shown'[r] = shown[r]
      BY <1>1, <2>0, <2>2
    <3>4. QED
      BY <1>1, <3>2, <3>3 DEF Shows, RecordsIn
  <2>3. QED
    BY <2>1, <2>2
<1>7. RecordsNamed'
  <2> SUFFICES ASSUME NEW n \in 1 .. Len(blocks),
                      RecordsIn(n) # {} \/ blocks[n].passport,
                      n <= checkpoint
               PROVE  Names(n)'
    BY <1>1 DEF RecordsNamed, RecordsIn
  <2>1. CASE blocks[at].passport
    <3>1. at \in n .. Len(blocks)
      BY <1>1, Position, SMT
    <3>2. QED
      BY <1>1, <2>1, <3>1 DEF Names
  <2>2. CASE ~ blocks[at].passport
    <3>1. Names(n)
      BY DEF ViewInv, RecordsNamed
    <3>2. latest' = latest
      BY <1>1, <2>2
    <3>3. QED
      BY <1>1, <3>1, <3>2 DEF Names, RecordsIn
  <2>3. QED
    BY <2>1, <2>2
<1>8. PassportShown'
  BY <1>1 DEF PassportShown
<1>9. QED
  BY <1>3, <1>4, <1>5, <1>6, <1>7, <1>8 DEF ViewInv

\* A block with records names one of them; one with the passport has no records,
\* and what it showed stays.
LEMMA ProjectRecordStep == ViewInv /\ ProjectRecord => ViewInv'
<1> SUFFICES ASSUME ViewInv, ProjectRecord
             PROVE  ViewInv'
  OBVIOUS
<1>1. /\ UNCHANGED <<blocks, at, checkpoint, shown>>
      /\ stage = "projection" /\ stage' = "checkpoint"
      /\ at \in 1 .. Len(blocks)
      /\ IF RecordsIn(at) = {} THEN latest' = latest
                               ELSE latest' \in RecordsIn(at)
  BY Position, SMT DEF ProjectRecord
<1>2. BlockOk(blocks[at])
  BY <1>1 DEF ViewInv, ChannelOk
<1>3. ViewTypeOK'
  <2>1. latest' \in Records \cup {None}
    BY <1>1, <1>2 DEF ViewInv, ViewTypeOK, BlockOk, RecordsIn
  <2>2. QED
    BY <1>1, <2>1 DEF ViewInv, ViewTypeOK
<1>4. ChannelOk' /\ DocumentsShown' /\ PassportShown'
  <2>1. ChannelOk'
    BY <1>1 DEF ViewInv, ChannelOk
  <2>2. DocumentsShown'
    BY <1>1 DEF ViewInv, DocumentsShown, Shows, RecordsIn
  <2>3. QED
    BY <1>1, <2>1, <2>2 DEF PassportShown
<1>5. AtNext'
  BY <1>1, Position, SMT DEF AtNext
<1>6. RecordsNamed'
  <2> SUFFICES ASSUME NEW n \in 1 .. Len(blocks),
                      RecordsIn(n) # {} \/ blocks[n].passport,
                      n <= checkpoint \/ n = at
               PROVE  Names(n)'
    BY <1>1 DEF RecordsNamed, RecordsIn
  <2>0. at \in n .. Len(blocks)
    BY <1>1, Position, SMT
  <2>1. CASE RecordsIn(at) # {}
    <3>1. ~ blocks[at].passport
      BY <1>2, <2>1 DEF BlockOk, RecordsIn
    <3>2. QED
      BY <1>1, <2>0, <2>1, <3>1 DEF Names, RecordsIn
  <2>2. CASE RecordsIn(at) = {} /\ n = at
    <3>1. blocks[at].passport
      BY <2>2
    <3>2. latest' = None
      BY <1>1, <2>2, <3>1 DEF ViewInv, PassportShown
    <3>3. QED
      BY <1>1, <2>0, <3>1, <3>2 DEF Names
  <2>3. CASE RecordsIn(at) = {} /\ n <= checkpoint
    <3>1. Names(n)
      BY <2>3 DEF ViewInv, RecordsNamed
    <3>2. QED
      BY <1>1, <2>3, <3>1 DEF Names, RecordsIn
  <2>4. QED
    BY <2>1, <2>2, <2>3
<1>7. QED
  BY <1>3, <1>4, <1>5, <1>6 DEF ViewInv

\* The checkpoint moves over a block that is shown and named.
LEMMA SaveCheckpointStep == ViewInv /\ SaveCheckpoint => ViewInv'
<1> SUFFICES ASSUME ViewInv, SaveCheckpoint
             PROVE  ViewInv'
  OBVIOUS
<1>1. /\ UNCHANGED <<blocks, shown, latest>>
      /\ stage = "checkpoint" /\ stage' = "documents"
      /\ at \in 1 .. Len(blocks)
      /\ checkpoint' = at /\ at' = at + 1
  BY Position, SMT DEF SaveCheckpoint
<1>2. ViewTypeOK'
  BY <1>1, Position, SMT DEF ViewInv, ViewTypeOK
<1>3. ChannelOk'
  BY <1>1 DEF ViewInv, ChannelOk
<1>4. AtNext' /\ PassportShown'
  BY <1>1 DEF AtNext, PassportShown
<1>5. ASSUME NEW n \in 1 .. Len(blocks'),
             n <= checkpoint' \/ (n = at' /\ stage' # "documents")
      PROVE  n \in 1 .. Len(blocks) /\ (n <= checkpoint \/ n = at)
  BY <1>1, <1>5, Position, SMT
<1>6. DocumentsShown'
  <2> SUFFICES ASSUME NEW n \in 1 .. Len(blocks'), NEW r \in RecordsIn(n)',
                      n <= checkpoint' \/ (n = at' /\ stage' # "documents")
               PROVE  Shows(n, r)'
    BY DEF DocumentsShown
  <2>1. Shows(n, r)
    BY <1>1, <1>5 DEF ViewInv, DocumentsShown, RecordsIn
  <2>2. QED
    BY <1>1, <2>1 DEF Shows, RecordsIn
<1>7. RecordsNamed'
  <2> SUFFICES ASSUME NEW n \in 1 .. Len(blocks'),
                      RecordsIn(n)' # {} \/ blocks'[n].passport,
                      n <= checkpoint' \/ (n = at' /\ stage' = "checkpoint")
               PROVE  Names(n)'
    BY DEF RecordsNamed
  <2>1. n \in 1 .. Len(blocks) /\ (n <= checkpoint \/ n = at)
    BY <1>1, <1>5
  <2>2. Names(n)
    BY <1>1, <2>1 DEF ViewInv, RecordsNamed, RecordsIn
  <2>3. QED
    BY <1>1, <2>2 DEF Names, RecordsIn
<1>8. QED
  BY <1>2, <1>3, <1>4, <1>6, <1>7 DEF ViewInv

\* A listener that starts again takes up the block after the checkpoint, whatever
\* it had already done with it.
LEMMA RestartListenerStep == ViewInv /\ RestartListener => ViewInv'
<1> SUFFICES ASSUME ViewInv, RestartListener
             PROVE  ViewInv'
  OBVIOUS
<1>1. /\ UNCHANGED <<blocks, checkpoint, shown, latest>>
      /\ stage' = "documents" /\ at' = at
  BY Position DEF RestartListener
<1>2. ViewTypeOK' /\ ChannelOk' /\ AtNext' /\ PassportShown'
  BY <1>1 DEF ViewInv, ViewTypeOK, ChannelOk, AtNext, PassportShown
<1>3. DocumentsShown'
  BY <1>1 DEF ViewInv, DocumentsShown, Shows, RecordsIn
<1>4. RecordsNamed'
  BY <1>1 DEF ViewInv, RecordsNamed, Names, RecordsIn
<1>5. QED
  BY <1>2, <1>3, <1>4 DEF ViewInv

\* The invariant is about the channel and the listener alone.
LEMMA ViewKept == ViewInv /\ UNCHANGED view => ViewInv'
BY DEF view, ViewInv, ViewTypeOK, ChannelOk, AtNext, DocumentsShown, Shows,
       RecordsNamed, Names, PassportShown, RecordsIn

-----------------------------------------------------------------------------
(* What follows from it.                                                   *)

\* The last block with a record, and the last with a record or the passport, is
\* shown as it is or as a later one has it.
LEMMA ViewCovers == ViewInv => CheckpointCovers
<1> SUFFICES ASSUME ViewInv
             PROVE  CheckpointCovers
  OBVIOUS
<1> DEFINE Before(r) == {n \in 1 .. checkpoint : r \in RecordsIn(n)}
           Named     == {n \in 1 .. checkpoint :
                           RecordsIn(n) # {} \/ blocks[n].passport}
           LastOf(S) == CHOOSE n \in S : \A m \in S : m <= n
<1>1. ASSUME NEW S, S \subseteq 1 .. checkpoint, S # {}
      PROVE  LastOf(S) \in S
  BY <1>1, LargestBlock, Position
<1>2. ASSUME NEW n \in 1 .. checkpoint
      PROVE  n \in 1 .. Len(blocks) /\ n <= checkpoint
  BY Position, SMT
<1>3. ASSUME NEW r \in Records, Before(r) # {}
      PROVE  Shows(LastOf(Before(r)), r)
  <2>1. LastOf(Before(r)) \in Before(r)
    BY <1>1, <1>3
  <2>2. QED
    BY <1>2, <2>1 DEF ViewInv, DocumentsShown
<1>4. ASSUME Named # {}
      PROVE  Names(LastOf(Named))
  <2>1. LastOf(Named) \in Named
    BY <1>1, <1>4
  <2>2. QED
    BY <1>2, <2>1 DEF ViewInv, RecordsNamed
<1>5. QED
  BY <1>3, <1>4 DEF CheckpointCovers, Shows, Names
=============================================================================
