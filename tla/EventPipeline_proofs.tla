------------------------- MODULE EventPipeline_proofs -------------------------
(***************************************************************************)
(* Proofs about EventPipeline, for any number of events, hours and         *)
(* profiles, any prune cap and any number of crashes: type correctness,    *)
(* that only an exposed event can go missing, that only a dead run repeats *)
(* one, the refinement of EventDelivery, where the cursor may stand, and   *)
(* how far the counters may be from the raw files.                         *)
(***************************************************************************)
EXTENDS EventPipeline, TLAPS

\* Bump adds one to the members of S and leaves the others alone.
LEMMA BumpFact ==
  ASSUME NEW count \in [Events -> Nat], NEW S
  PROVE  /\ Bump(count, S) \in [Events -> Nat]
         /\ \A e \in Events :
              Bump(count, S)[e] = IF e \in S THEN count[e] + 1 ELSE count[e]
  BY DEF Bump

\* Init and every step of the event path keep every variable in its type.
LEMMA TypeInductive == TypeOK /\ [Next]_vars => TypeOK'
<1> SUFFICES ASSUME TypeOK, [Next]_vars PROVE TypeOK'
  OBVIOUS
<1> USE ConstantsAssumption DEF TypeOK, AggPcs, PrunePcs
<1>1. ASSUME NEW e \in Events, Emit(e) PROVE TypeOK'
  BY <1>1 DEF Emit, aggVars, pruneVars, faultVars
<1>2. CASE AggStart
  BY <1>2 DEF AggStart, diskVars, pruneVars, faultVars, historyVars
<1>3. CASE AggRead
  <2>1. PICK n \in (newPos + 1)..Len(file) :
          /\ batch' = batch \union {file[i] : i \in (newPos + 1)..n}
          /\ newPos' = n
    BY <1>3 DEF AggRead
  <2>2. batch' \in SUBSET Events
    <3>1. \A i \in (newPos + 1)..n : file[i] \in Events
      BY <2>1
    <3> QED BY <2>1, <3>1
  <2>3. newPos' \in Nat
    BY <2>1
  <2> QED BY <1>3, <2>2, <2>3 DEF AggRead, diskVars, pruneVars, faultVars, historyVars
<1>4. CASE AggRaise
  BY <1>4 DEF AggRaise, AggExit, diskVars, pruneVars, faultVars, historyVars
<1>5. CASE AggEof
  BY <1>5 DEF AggEof, diskVars, pruneVars, faultVars, historyVars
<1>6. ASSUME NEW h \in Hours, AggAppendRaw(h) PROVE TypeOK'
  <2> DEFINE bucket == {e \in batch : HourOf[e] = h}
  <2>1. /\ rawCopies' = Bump(rawCopies, bucket)
        /\ appended' = appended \union bucket
    BY <1>6 DEF AggAppendRaw
  <2>2. bucket \subseteq Events
    OBVIOUS
  <2> HIDE DEF bucket
  <2>3. rawCopies' \in [Events -> Nat]
    BY <2>1, BumpFact
  <2>4. appended' \in SUBSET Events
    BY <2>1, <2>2
  <2> QED
    BY <1>6, <2>3, <2>4 DEF AggAppendRaw, pruneVars, faultVars, historyVars
<1>7. CASE AggRawDone
  BY <1>7 DEF AggRawDone, diskVars, pruneVars, faultVars, historyVars
<1>8. ASSUME NEW ip \in IPs, AggMergeProfile(ip) PROVE TypeOK'
  <2> DEFINE group == {e \in batch : IpOf[e] = ip}
  <2>1. /\ counted' = Bump(counted, group)
        /\ folded' = folded \union group
    BY <1>8 DEF AggMergeProfile
  <2>2. group \subseteq Events
    OBVIOUS
  <2> HIDE DEF group
  <2>3. counted' \in [Events -> Nat]
    BY <2>1, BumpFact
  <2>4. folded' \in SUBSET Events
    BY <2>1, <2>2
  <2> QED
    BY <1>8, <2>3, <2>4 DEF AggMergeProfile, pruneVars, faultVars, historyVars
<1>9. CASE AggProfilesDone
  BY <1>9 DEF AggProfilesDone, diskVars, pruneVars, faultVars, historyVars
<1>10. CASE AggNodeJson
  BY <1>10, BumpFact DEF AggNodeJson, pruneVars, faultVars, historyVars
<1>11. CASE AggPersist
  BY <1>11 DEF AggPersist, AggExit, pruneVars, faultVars, historyVars
<1>12. CASE AggCrash
  BY <1>12 DEF AggCrash, AggExit, diskVars, pruneVars, historyVars
<1>13. CASE PruneStat
  BY <1>13 DEF PruneStat, diskVars, aggVars, faultVars, historyVars
<1>14. CASE PruneReadPos
  BY <1>14 DEF PruneReadPos, diskVars, aggVars, faultVars, historyVars
<1>15. CASE PruneRestat
  BY <1>15 DEF PruneRestat, PruneExit, diskVars, aggVars, faultVars, historyVars
<1>16. CASE PruneTruncate
  BY <1>16 DEF PruneTruncate, aggVars, faultVars, historyVars
<1>17. CASE PruneReset
  BY <1>17 DEF PruneReset, PruneExit, aggVars, faultVars, historyVars
<1>18. CASE PruneCrash
  BY <1>18 DEF PruneCrash, PruneExit, diskVars, aggVars, historyVars
<1>19. CASE UNCHANGED vars
  BY <1>19 DEF vars, diskVars, aggVars, pruneVars, faultVars, historyVars
<1> QED
  BY <1>1, <1>2, <1>3, <1>4, <1>5, <1>6, <1>7, <1>8, <1>9, <1>10, <1>11, <1>12,
     <1>13, <1>14, <1>15, <1>16, <1>17, <1>18, <1>19
     DEF Next, AggStep, PruneStep

\* The initial state is well typed.
LEMMA TypeInit == Init => TypeOK
<1> SUFFICES ASSUME Init PROVE TypeOK
  OBVIOUS
<1>1. overlapped \in BOOLEAN
  BY DEF Init
<1> QED
  BY <1>1 DEF Init, TypeOK, AggPcs, PrunePcs

\* Every state of the event path is well typed.
THEOREM TypeCorrect == Spec => []TypeOK
<1> QED
  BY TypeInit, TypeInductive, PTL DEF Spec

-----------------------------------------------------------------------------
\* Every step of the event path preserves the invariant that ties the file,
\* the persisted cursor, the aggregator's batch and prune's decision together.
LEMMA LossInductive == LossInv /\ [Next]_vars => LossInv'
<1> SUFFICES ASSUME LossInv, [Next]_vars PROVE LossInv'
  OBVIOUS
<1>0. TypeOK /\ TypeOK'
  BY TypeInductive DEF LossInv
<1>a. LostOnlyIfExposed /\ BatchCoversRead /\ AppendedIsWritten /\ PruneDecisionSound
  BY DEF LossInv
<1> SUFFICES LostOnlyIfExposed' /\ BatchCoversRead' /\ AppendedIsWritten' /\ PruneDecisionSound'
  BY <1>0 DEF LossInv
<1> USE <1>0, <1>a
<1>1. ASSUME NEW e \in Events, Emit(e)
      PROVE  LostOnlyIfExposed' /\ BatchCoversRead' /\ AppendedIsWritten' /\ PruneDecisionSound'
  <2> USE DEF Emit, aggVars, pruneVars, faultVars
  <2>1. /\ Len(file') = Len(file) + 1
        /\ \A i \in 1..Len(file) : file'[i] = file[i]
        /\ file'[Len(file) + 1] = e
    BY <1>1 DEF TypeOK
  <2>2. Len(file) \in Nat /\ cursor \in Nat /\ newPos \in Nat /\ prunePos \in Nat
    BY DEF TypeOK
  <2>3. exposed \subseteq exposed' /\ (AtRisk => e \in exposed')
    BY <1>1
  <2>4. LostOnlyIfExposed'
    <3> SUFFICES ASSUME NEW d \in emitted'
                 PROVE  rawCopies[d] > 0 \/ Pending(d)' \/ d \in exposed'
      BY <1>1 DEF LostOnlyIfExposed
    <3>1. CASE d \in emitted
      <4>1. Pending(d) => Pending(d)'
        BY <1>1, <2>1, <2>2 DEF Pending
      <4> QED BY <3>1, <4>1, <2>3 DEF LostOnlyIfExposed
    <3>2. CASE d = e
      BY <1>1, <3>2, <2>1, <2>2, <2>3 DEF Pending, AtRisk
    <3> QED BY <1>1, <3>1, <3>2
  <2>5. BatchCoversRead'
    <3> SUFFICES ASSUME AggRunning
                 PROVE  /\ cursor <= newPos
                        /\ \A i \in 1..Len(file') : cursor < i /\ i <= newPos
                             => Settled(file[i])' \/ file'[i] \in batch
      BY <1>1 DEF BatchCoversRead, AggRunning, Settled
    <3>1. ASSUME NEW i \in 1..Len(file'), cursor < i, i <= newPos
          PROVE  Settled(file[i])' \/ file'[i] \in batch
      <4>1. CASE i \in 1..Len(file)
        BY <1>1, <3>1, <4>1, <2>1, <2>3 DEF BatchCoversRead, Settled
      <4>2. CASE i = Len(file) + 1
        BY <1>1, <3>1, <4>2, <2>1, <2>2, <2>3 DEF AtRisk, Settled
      <4> QED BY <4>1, <4>2, <2>1, <2>2
    <3> QED BY <3>1 DEF BatchCoversRead
  <2>6. AppendedIsWritten'
    BY <1>1 DEF AppendedIsWritten
  <2>7. PruneDecisionSound'
    <3>1. ASSUME prunePc \in {"truncate", "reset"} PROVE e \in exposed'
      BY <3>1, <2>3 DEF AtRisk
    <3> QED BY <1>1, <2>1, <2>2, <2>3, <3>1 DEF PruneDecisionSound
  <2> QED BY <2>4, <2>5, <2>6, <2>7
<1>2. CASE AggStart
  <2> USE <1>2 DEF AggStart, diskVars, pruneVars, faultVars, historyVars
  <2>1. LostOnlyIfExposed' /\ PruneDecisionSound'
    BY DEF LostOnlyIfExposed, Pending, PruneDecisionSound
  <2>2. BatchCoversRead'
    BY DEF BatchCoversRead, TypeOK
  <2>3. AppendedIsWritten'
    BY DEF AppendedIsWritten
  <2> QED BY <2>1, <2>2, <2>3
<1>3. CASE AggRead
  <2> USE <1>3 DEF AggRead, diskVars, pruneVars, faultVars, historyVars
  <2>1. LostOnlyIfExposed' /\ PruneDecisionSound' /\ AppendedIsWritten'
    BY DEF LostOnlyIfExposed, Pending, PruneDecisionSound, AppendedIsWritten
  <2>2. BatchCoversRead'
    <3>1. PICK n \in (newPos + 1)..Len(file) :
            /\ batch' = batch \union {file[i] : i \in (newPos + 1)..n}
            /\ newPos' = n
      OBVIOUS
    <3>2. \A i \in 1..Len(file) : newPos < i /\ i <= n => file[i] \in batch'
      BY <3>1 DEF TypeOK
    <3>3. AggRunning /\ AggRunning'
      BY DEF AggRunning
    <3>4. cursor <= newPos'
      BY <3>1, <3>3 DEF BatchCoversRead, TypeOK
    <3>5. ASSUME NEW i \in 1..Len(file), cursor < i, i <= n
          PROVE  Settled(file[i])' \/ file[i] \in batch'
      <4>1. CASE i <= newPos
        BY <3>1, <3>3, <3>5, <4>1 DEF BatchCoversRead, Settled
      <4>2. CASE newPos < i
        BY <3>2, <3>5, <4>2
      <4> QED BY <4>1, <4>2 DEF TypeOK
    <3> QED BY <3>1, <3>4, <3>5 DEF BatchCoversRead
  <2> QED BY <2>1, <2>2
<1>4. CASE AggRaise
  <2> USE <1>4 DEF AggRaise, AggExit, diskVars, pruneVars, faultVars, historyVars
  <2> QED
    BY DEF LostOnlyIfExposed, Pending, BatchCoversRead, AggRunning, AppendedIsWritten,
           PruneDecisionSound
<1>5. CASE AggEof
  <2> USE <1>5 DEF AggEof, diskVars, pruneVars, faultVars, historyVars
  <2>1. LostOnlyIfExposed' /\ PruneDecisionSound'
    BY DEF LostOnlyIfExposed, Pending, PruneDecisionSound
  <2>2. BatchCoversRead'
    BY DEF BatchCoversRead, AggRunning, Settled
  <2>3. AppendedIsWritten'
    BY DEF AppendedIsWritten
  <2> QED BY <2>1, <2>2, <2>3
<1>6. ASSUME NEW h \in Hours, AggAppendRaw(h)
      PROVE  LostOnlyIfExposed' /\ BatchCoversRead' /\ AppendedIsWritten' /\ PruneDecisionSound'
  <2> DEFINE bucket == {e \in batch : HourOf[e] = h}
  <2>1. /\ rawCopies' = Bump(rawCopies, bucket)
        /\ appended' = appended \union bucket
        /\ bucket \subseteq Events
    BY <1>6 DEF AggAppendRaw, TypeOK
  <2> HIDE DEF bucket
  <2>2. \A e \in Events : /\ rawCopies[e] \in Nat
                          /\ rawCopies'[e] = IF e \in bucket THEN rawCopies[e] + 1
                                                             ELSE rawCopies[e]
    <3>1. rawCopies \in [Events -> Nat]
      BY DEF TypeOK
    <3>2. \A e \in Events : Bump(rawCopies, bucket)[e]
                             = IF e \in bucket THEN rawCopies[e] + 1 ELSE rawCopies[e]
      BY <3>1, BumpFact
    <3> QED BY <2>1, <3>1, <3>2
  <2>3. \A e \in Events : /\ rawCopies[e] > 0 => rawCopies'[e] > 0
                          /\ e \in bucket => rawCopies'[e] > 0
    BY <2>2
  <2>4. UNCHANGED <<file, cursor, newPos, batch, aggPc, prunePc, prunePos, emitted, exposed>>
    BY <1>6 DEF AggAppendRaw, pruneVars, historyVars
  <2>5. LostOnlyIfExposed'
    BY <2>3, <2>4 DEF LostOnlyIfExposed, Pending, TypeOK
  <2>6. BatchCoversRead'
    <3>1. \A i \in 1..Len(file) : Settled(file[i]) => Settled(file[i])'
      BY <2>3, <2>4 DEF Settled, TypeOK
    <3> QED BY <2>4, <3>1 DEF BatchCoversRead, AggRunning
  <2>7. AppendedIsWritten'
    <3>1. aggPc' = "raw"
      BY <1>6 DEF AggAppendRaw
    <3>2. \A e \in appended' : rawCopies'[e] > 0
      BY <2>1, <2>3 DEF AppendedIsWritten, TypeOK
    <3> QED BY <3>1, <3>2 DEF AppendedIsWritten
  <2>8. PruneDecisionSound'
    BY <2>4 DEF PruneDecisionSound
  <2> QED BY <2>5, <2>6, <2>7, <2>8
<1>7. CASE AggRawDone
  <2> USE <1>7 DEF AggRawDone, diskVars, pruneVars, faultVars, historyVars
  <2>1. LostOnlyIfExposed' /\ PruneDecisionSound'
    BY DEF LostOnlyIfExposed, Pending, PruneDecisionSound
  <2>2. BatchCoversRead'
    BY DEF BatchCoversRead, AggRunning, Settled
  <2>3. AppendedIsWritten'
    BY DEF AppendedIsWritten
  <2> QED BY <2>1, <2>2, <2>3
<1>8. ASSUME NEW ip \in IPs, AggMergeProfile(ip)
      PROVE  LostOnlyIfExposed' /\ BatchCoversRead' /\ AppendedIsWritten' /\ PruneDecisionSound'
  <2> USE <1>8 DEF AggMergeProfile, pruneVars, faultVars, historyVars
  <2>1. LostOnlyIfExposed' /\ PruneDecisionSound'
    BY DEF LostOnlyIfExposed, Pending, PruneDecisionSound
  <2>2. BatchCoversRead'
    BY DEF BatchCoversRead, AggRunning, Settled
  <2>3. AppendedIsWritten'
    BY DEF AppendedIsWritten
  <2> QED BY <2>1, <2>2, <2>3
<1>9. CASE AggProfilesDone
  <2> USE <1>9 DEF AggProfilesDone, diskVars, pruneVars, faultVars, historyVars
  <2>1. LostOnlyIfExposed' /\ PruneDecisionSound'
    BY DEF LostOnlyIfExposed, Pending, PruneDecisionSound
  <2>2. BatchCoversRead'
    BY DEF BatchCoversRead, AggRunning, Settled
  <2>3. AppendedIsWritten'
    BY DEF AppendedIsWritten
  <2> QED BY <2>1, <2>2, <2>3
<1>10. CASE AggNodeJson
  <2> USE <1>10 DEF AggNodeJson, pruneVars, faultVars, historyVars
  <2>1. LostOnlyIfExposed' /\ PruneDecisionSound'
    BY DEF LostOnlyIfExposed, Pending, PruneDecisionSound
  <2>2. BatchCoversRead'
    BY DEF BatchCoversRead, AggRunning, Settled
  <2>3. AppendedIsWritten'
    BY DEF AppendedIsWritten
  <2> QED BY <2>1, <2>2, <2>3
<1>11. CASE AggPersist
  <2> USE <1>11 DEF AggPersist, AggExit, pruneVars, faultVars, historyVars
  <2>1. cursor <= newPos /\ cursor \in Nat /\ newPos \in Nat
    BY DEF BatchCoversRead, AggRunning, TypeOK
  <2>2. \A e \in batch : rawCopies[e] > 0
    BY DEF AppendedIsWritten
  <2>3. LostOnlyIfExposed'
    <3> SUFFICES ASSUME NEW e \in emitted, ~Settled(e)
                 PROVE  Pending(e)'
      BY DEF LostOnlyIfExposed, Settled
    <3>1. PICK i \in 1..Len(file) : i > cursor /\ file[i] = e
      BY DEF LostOnlyIfExposed, Settled, Pending
    <3>2. ~(i <= newPos)
      BY <2>2, <3>1 DEF BatchCoversRead, AggRunning, Settled
    <3> QED BY <2>1, <3>1, <3>2 DEF Pending
  <2>4. BatchCoversRead' /\ AppendedIsWritten'
    BY DEF BatchCoversRead, AggRunning, AppendedIsWritten
  <2>5. PruneDecisionSound'
    BY <2>1 DEF PruneDecisionSound, TypeOK
  <2> QED BY <2>3, <2>4, <2>5
<1>12. CASE AggCrash
  <2> USE <1>12 DEF AggCrash, AggExit, diskVars, pruneVars, historyVars
  <2> QED
    BY DEF LostOnlyIfExposed, Pending, BatchCoversRead, AggRunning, AppendedIsWritten,
           PruneDecisionSound
<1>13. CASE PruneStat
  <2> USE <1>13 DEF PruneStat, diskVars, aggVars, faultVars, historyVars
  <2>1. LostOnlyIfExposed' /\ PruneDecisionSound'
    BY DEF LostOnlyIfExposed, Pending, PruneDecisionSound
  <2>2. BatchCoversRead'
    BY DEF BatchCoversRead, AggRunning, Settled
  <2>3. AppendedIsWritten'
    BY DEF AppendedIsWritten
  <2> QED BY <2>1, <2>2, <2>3
<1>14. CASE PruneReadPos
  <2> USE <1>14 DEF PruneReadPos, diskVars, aggVars, faultVars, historyVars
  <2>1. LostOnlyIfExposed' /\ BatchCoversRead' /\ AppendedIsWritten'
    BY DEF LostOnlyIfExposed, Pending, BatchCoversRead, AggRunning, Settled,
           AppendedIsWritten
  <2>2. PruneDecisionSound'
    BY DEF PruneDecisionSound, TypeOK
  <2> QED BY <2>1, <2>2
<1>15. CASE PruneRestat
  <2> USE <1>15 DEF PruneRestat, PruneExit, diskVars, aggVars, faultVars, historyVars
  <2>1. LostOnlyIfExposed' /\ BatchCoversRead' /\ AppendedIsWritten'
    BY DEF LostOnlyIfExposed, Pending, BatchCoversRead, AggRunning, Settled,
           AppendedIsWritten
  <2>2. PruneDecisionSound'
    BY DEF PruneDecisionSound, TypeOK
  <2> QED BY <2>1, <2>2
<1>16. CASE PruneTruncate
  <2> USE <1>16 DEF PruneTruncate, aggVars, faultVars, historyVars
  <2>1. \A i \in 1..Len(file) : i > cursor => file[i] \in exposed
    BY DEF PruneDecisionSound, TypeOK
  <2>2. \A e \in emitted : Settled(e)
    BY <2>1 DEF LostOnlyIfExposed, Pending, Settled
  <2>3. LostOnlyIfExposed'
    BY <2>2 DEF LostOnlyIfExposed, Settled
  <2>4. BatchCoversRead' /\ PruneDecisionSound'
    BY DEF BatchCoversRead, AggRunning, PruneDecisionSound
  <2>5. AppendedIsWritten'
    BY DEF AppendedIsWritten
  <2> QED BY <2>3, <2>4, <2>5
<1>17. CASE PruneReset
  <2> USE <1>17 DEF PruneReset, PruneExit, aggVars, faultVars, historyVars
  <2>1. \A i \in 1..Len(file) : file[i] \in exposed
    BY DEF PruneDecisionSound
  <2>2. LostOnlyIfExposed'
    BY DEF LostOnlyIfExposed, Pending, TypeOK
  <2>3. BatchCoversRead'
    BY <2>1 DEF BatchCoversRead, AggRunning, Settled, TypeOK
  <2>4. AppendedIsWritten' /\ PruneDecisionSound'
    BY DEF AppendedIsWritten, PruneDecisionSound
  <2> QED BY <2>2, <2>3, <2>4
<1>18. CASE PruneCrash
  <2> USE <1>18 DEF PruneCrash, PruneExit, diskVars, aggVars, historyVars
  <2>1. LostOnlyIfExposed' /\ PruneDecisionSound'
    BY DEF LostOnlyIfExposed, Pending, PruneDecisionSound
  <2>2. BatchCoversRead'
    BY DEF BatchCoversRead, AggRunning, Settled
  <2>3. AppendedIsWritten'
    BY DEF AppendedIsWritten
  <2> QED BY <2>1, <2>2, <2>3
<1>19. CASE UNCHANGED vars
  <2> USE <1>19 DEF vars, diskVars, aggVars, pruneVars, faultVars, historyVars
  <2>1. LostOnlyIfExposed' /\ PruneDecisionSound'
    BY DEF LostOnlyIfExposed, Pending, PruneDecisionSound
  <2>2. BatchCoversRead'
    BY DEF BatchCoversRead, AggRunning, Settled
  <2>3. AppendedIsWritten'
    BY DEF AppendedIsWritten
  <2> QED BY <2>1, <2>2, <2>3
<1> QED
  BY <1>1, <1>2, <1>3, <1>4, <1>5, <1>6, <1>7, <1>8, <1>9, <1>10, <1>11, <1>12,
     <1>13, <1>14, <1>15, <1>16, <1>17, <1>18, <1>19
     DEF Next, AggStep, PruneStep

\* The initial state satisfies that invariant.
LEMMA LossInit == Init => LossInv
  BY TypeInit DEF Init, LossInv, LostOnlyIfExposed, BatchCoversRead, AggRunning,
                  AppendedIsWritten, PruneDecisionSound

\* Whatever the aggregator and prune do and wherever they die, an appended
\* event is in the raw files or behind the cursor, unless it was appended in one
\* of the moments AtRisk names.
THEOREM NoLossUnlessExposed == Spec => []LostOnlyIfExposed
<1>1. Init => LossInv
  BY LossInit
<1>2. LossInv => LostOnlyIfExposed
  BY DEF LossInv
<1> QED
  BY <1>1, <1>2, LossInductive, PTL DEF Spec

-----------------------------------------------------------------------------
CopyParts == RepeatedOnlyByCrash /\ EmittedOnce /\ AppendedFromBatch /\ CopiesBehindCursor

\* A step that writes no raw file, moves no cursor and touches no line keeps
\* the copy counts in order.
LEMMA QuietStep ==
  ASSUME CopyParts,
         UNCHANGED <<file, cursor, rawCopies, newPos, batch, appended, runCrashes,
                     emitted, exposed>>,
         AggRunning' = AggRunning,
         aggPc' \in {"idle", "read"} => aggPc \in {"idle", "read"}
  PROVE  CopyParts'
<1>1. RepeatedOnlyByCrash'
  BY DEF CopyParts, RepeatedOnlyByCrash
<1>2. EmittedOnce'
  BY DEF CopyParts, EmittedOnce
<1>3. AppendedFromBatch'
  BY DEF CopyParts, AppendedFromBatch, AggRunning
<1>4. CopiesBehindCursor'
  BY DEF CopyParts, CopiesBehindCursor
<1> QED
  BY <1>1, <1>2, <1>3, <1>4 DEF CopyParts

\* Every step of the event path preserves the invariant that bounds the copies
\* of a line in the raw files by the runs that died.
LEMMA CopyInductive == CopyInv /\ [Next]_vars => CopyInv'
<1> SUFFICES ASSUME CopyInv, [Next]_vars PROVE CopyInv'
  OBVIOUS
<1>0. LossInv /\ LossInv' /\ TypeOK /\ TypeOK'
  BY LossInductive DEF CopyInv, LossInv
<1>a. CopyParts /\ BatchCoversRead /\ PruneDecisionSound
  BY DEF CopyInv, CopyParts, LossInv
<1>b. /\ file \in Seq(Events) /\ Len(file) \in Nat /\ cursor \in Nat /\ newPos \in Nat
      /\ runCrashes \in Nat /\ \A e \in Events : rawCopies[e] \in Nat
      /\ \A i \in 1..Len(file) : file[i] \in Events
  BY <1>0 DEF TypeOK
<1> SUFFICES CopyParts'
  BY <1>0 DEF CopyInv, CopyParts
<1> USE <1>a
<1>1. ASSUME NEW e \in Events, Emit(e) PROVE CopyParts'
  <2> USE <1>1 DEF Emit, aggVars, pruneVars, faultVars
  <2>1. /\ Len(file') = Len(file) + 1
        /\ \A i \in 1..Len(file) : file'[i] = file[i]
        /\ file'[Len(file) + 1] = e
    BY <1>b
  <2>2. \A i \in 1..Len(file) : file[i] \in emitted
    BY DEF CopyParts, EmittedOnce
  <2>3. rawCopies[e] = 0 /\ e \notin batch
    BY DEF CopyParts, EmittedOnce
  <2>4. RepeatedOnlyByCrash'
    BY DEF CopyParts, RepeatedOnlyByCrash
  <2>5. EmittedOnce'
    <3>1. \A i, j \in 1..Len(file') : file'[i] = file'[j] => i = j
      <4>1. \A i, j \in 1..Len(file) : file'[i] = file'[j] => i = j
        BY <2>1 DEF CopyParts, EmittedOnce
      <4>2. \A i \in 1..Len(file) : file'[i] # file'[Len(file) + 1]
        BY <2>1, <2>2
      <4> QED BY <4>1, <4>2, <2>1, <1>b
    <3>2. \A i \in 1..Len(file') : file'[i] \in emitted'
      BY <2>1, <2>2, <1>b
    <3>3. batch' \subseteq emitted' /\ \A d \in Events \ emitted' : rawCopies'[d] = 0
      BY DEF CopyParts, EmittedOnce
    <3> QED BY <3>1, <3>2, <3>3 DEF EmittedOnce
  <2>6. AppendedFromBatch'
    BY DEF CopyParts, AppendedFromBatch
  <2>7. CopiesBehindCursor'
    <3>1. exposed \subseteq exposed'
      OBVIOUS
    <3>2. ASSUME NEW i \in 1..Len(file'), file'[i] \notin exposed'
          PROVE  /\ i > cursor => file'[i] \in appended \/ rawCopies[file'[i]] <= runCrashes
                 /\ AggRunning /\ i > newPos => file'[i] \notin batch
      <4>1. CASE i \in 1..Len(file)
        BY <4>1, <3>1, <3>2, <2>1 DEF CopyParts, CopiesBehindCursor
      <4>2. CASE i = Len(file) + 1
        BY <4>2, <2>1, <2>3, <1>b
      <4> QED BY <4>1, <4>2, <2>1, <1>b
    <3>3. \A d \in batch \ appended : d \notin exposed' => rawCopies[d] <= runCrashes
      BY <3>1 DEF CopyParts, CopiesBehindCursor
    <3> QED BY <3>2, <3>3 DEF CopiesBehindCursor, AggRunning
  <2> QED BY <2>4, <2>5, <2>6, <2>7 DEF CopyParts
<1>2. CASE AggStart
  <2> USE <1>2 DEF AggStart, diskVars, pruneVars, faultVars, historyVars
  <2>1. batch = {} /\ appended = {}
    BY DEF CopyParts, AppendedFromBatch
  <2>2. RepeatedOnlyByCrash' /\ EmittedOnce'
    BY DEF CopyParts, RepeatedOnlyByCrash, EmittedOnce
  <2>3. AppendedFromBatch'
    BY <2>1 DEF AppendedFromBatch
  <2>4. CopiesBehindCursor'
    BY <2>1 DEF CopyParts, CopiesBehindCursor
  <2> QED BY <2>2, <2>3, <2>4 DEF CopyParts
<1>3. CASE AggRead
  <2>1. PICK n \in (newPos + 1)..Len(file) :
          /\ batch' = batch \union {file[i] : i \in (newPos + 1)..n}
          /\ newPos' = n
    BY <1>3 DEF AggRead
  <2>2. UNCHANGED <<file, cursor, rawCopies, appended, runCrashes, emitted, exposed, aggPc>>
    BY <1>3 DEF AggRead, diskVars, faultVars, historyVars
  <2>3. aggPc = "read" /\ AggRunning /\ appended = {} /\ cursor <= newPos
    BY <1>3 DEF AggRead, AggRunning, BatchCoversRead, CopyParts, AppendedFromBatch
  <2>4. RepeatedOnlyByCrash'
    BY <2>2 DEF CopyParts, RepeatedOnlyByCrash
  <2>5. EmittedOnce'
    <3>1. \A i \in (newPos + 1)..n : file[i] \in emitted
      BY <1>b DEF CopyParts, EmittedOnce
    <3>2. batch' \subseteq emitted
      BY <2>1, <3>1 DEF CopyParts, EmittedOnce
    <3> QED BY <2>2, <3>2 DEF CopyParts, EmittedOnce
  <2>6. AppendedFromBatch'
    BY <2>2, <2>3 DEF AppendedFromBatch
  <2>7. CopiesBehindCursor'
    <3>1. \A i \in 1..Len(file) : i > cursor /\ file[i] \notin exposed =>
             rawCopies[file[i]] <= runCrashes
      BY <2>3 DEF CopyParts, CopiesBehindCursor
    <3>2. \A e \in batch' \ appended' : e \notin exposed' => rawCopies'[e] <= runCrashes'
      <4>1. \A i \in (newPos + 1)..n : i \in 1..Len(file) /\ i > cursor
        BY <2>3, <1>b
      <4>2. \A i \in (newPos + 1)..n : file[i] \notin exposed => rawCopies[file[i]] <= runCrashes
        BY <3>1, <4>1
      <4>3. \A e \in batch : e \notin exposed => rawCopies[e] <= runCrashes
        BY <2>3 DEF CopyParts, CopiesBehindCursor
      <4> QED BY <2>1, <2>2, <4>2, <4>3
    <3>3. ASSUME NEW j \in 1..Len(file), j > n, file[j] \notin exposed
          PROVE  file[j] \notin batch'
      <4>1. file[j] \notin batch
        BY <3>3, <2>1, <2>3, <1>b DEF CopyParts, CopiesBehindCursor
      <4>2. \A i \in (newPos + 1)..n : i \in 1..Len(file) /\ i # j
        BY <3>3, <1>b
      <4>3. \A i \in (newPos + 1)..n : file[i] # file[j]
        BY <4>2 DEF CopyParts, EmittedOnce
      <4> QED BY <2>1, <4>1, <4>3
    <3> QED BY <2>1, <2>2, <3>1, <3>2, <3>3 DEF CopiesBehindCursor
  <2> QED BY <2>4, <2>5, <2>6, <2>7 DEF CopyParts
<1>4. CASE AggRaise
  <2> USE <1>4 DEF AggRaise, AggExit, diskVars, pruneVars, faultVars, historyVars
  <2>1. appended = {}
    BY DEF CopyParts, AppendedFromBatch
  <2>2. RepeatedOnlyByCrash' /\ EmittedOnce' /\ AppendedFromBatch'
    BY DEF CopyParts, RepeatedOnlyByCrash, EmittedOnce, AppendedFromBatch
  <2>3. CopiesBehindCursor'
    BY <2>1 DEF CopyParts, CopiesBehindCursor, AggRunning
  <2> QED BY <2>2, <2>3 DEF CopyParts
<1>5. CASE AggEof
  BY <1>5, QuietStep DEF AggEof, AggRunning, diskVars, faultVars, historyVars
<1>6. ASSUME NEW h \in Hours, AggAppendRaw(h) PROVE CopyParts'
  <2> DEFINE bucket == {e \in batch : HourOf[e] = h}
  <2>1. /\ rawCopies' = Bump(rawCopies, bucket)
        /\ appended' = appended \union bucket
        /\ bucket \subseteq batch
        /\ bucket \intersect appended = {}
    BY <1>6 DEF AggAppendRaw
  <2> HIDE DEF bucket
  <2>2. UNCHANGED <<file, cursor, newPos, batch, aggPc, runCrashes, emitted, exposed>>
    BY <1>6 DEF AggAppendRaw, faultVars, historyVars
  <2>3. \A e \in Events : rawCopies'[e] = IF e \in bucket THEN rawCopies[e] + 1
                                                          ELSE rawCopies[e]
    <3>1. rawCopies \in [Events -> Nat]
      BY <1>0 DEF TypeOK
    <3> QED BY <2>1, <3>1, BumpFact
  <2>4. \A e \in bucket : e \notin exposed => rawCopies[e] <= runCrashes
    BY <2>1 DEF CopyParts, CopiesBehindCursor
  <2>5. batch \subseteq Events /\ batch \subseteq emitted
    BY <1>0 DEF TypeOK, CopyParts, EmittedOnce
  <2>6. RepeatedOnlyByCrash'
    <3>1. ASSUME NEW e \in Events, e \notin exposed PROVE rawCopies'[e] <= 1 + runCrashes
      <4>1. CASE e \in bucket
        BY <3>1, <4>1, <2>3, <2>4, <1>b
      <4>2. CASE e \notin bucket
        BY <3>1, <4>2, <2>3 DEF CopyParts, RepeatedOnlyByCrash
      <4> QED BY <4>1, <4>2
    <3> QED BY <3>1, <2>2 DEF RepeatedOnlyByCrash
  <2>7. EmittedOnce'
    <3>1. \A e \in Events \ emitted : rawCopies'[e] = 0
      BY <2>1, <2>3, <2>5 DEF CopyParts, EmittedOnce
    <3> QED BY <3>1, <2>2 DEF CopyParts, EmittedOnce
  <2>8. AppendedFromBatch'
    <3>1. aggPc = "raw"
      BY <1>6 DEF AggAppendRaw
    <3> QED BY <3>1, <2>1, <2>2 DEF CopyParts, AppendedFromBatch
  <2>9. CopiesBehindCursor'
    <3>1. \A e \in Events \ bucket : rawCopies'[e] = rawCopies[e]
      BY <2>3
    <3>2. \A i \in 1..Len(file) : i > cursor /\ file[i] \notin exposed =>
             file[i] \in appended' \/ rawCopies'[file[i]] <= runCrashes
      BY <2>1, <3>1, <1>b DEF CopyParts, CopiesBehindCursor
    <3>3. \A e \in batch \ appended' : e \notin exposed => rawCopies'[e] <= runCrashes
      BY <2>1, <2>5, <3>1 DEF CopyParts, CopiesBehindCursor
    <3>4. AggRunning => \A i \in 1..Len(file) : i > newPos /\ file[i] \notin exposed =>
             file[i] \notin batch
      BY DEF CopyParts, CopiesBehindCursor
    <3> QED BY <2>2, <3>2, <3>3, <3>4 DEF CopiesBehindCursor, AggRunning
  <2> QED BY <2>6, <2>7, <2>8, <2>9 DEF CopyParts
<1>7. CASE AggRawDone
  BY <1>7, QuietStep DEF AggRawDone, AggRunning, diskVars, faultVars, historyVars
<1>8. ASSUME NEW ip \in IPs, AggMergeProfile(ip) PROVE CopyParts'
  BY <1>8, QuietStep DEF AggMergeProfile, AggRunning, faultVars, historyVars
<1>9. CASE AggProfilesDone
  BY <1>9, QuietStep DEF AggProfilesDone, AggRunning, diskVars, faultVars, historyVars
<1>10. CASE AggNodeJson
  BY <1>10, QuietStep DEF AggNodeJson, AggRunning, faultVars, historyVars
<1>11. CASE AggPersist
  <2> USE <1>11 DEF AggPersist, AggExit, pruneVars, faultVars, historyVars
  <2>1. AggRunning /\ cursor <= newPos
    BY DEF AggRunning, BatchCoversRead
  <2>2. RepeatedOnlyByCrash' /\ EmittedOnce' /\ AppendedFromBatch'
    BY DEF CopyParts, RepeatedOnlyByCrash, EmittedOnce, AppendedFromBatch
  <2>3. ASSUME NEW i \in 1..Len(file), i > newPos, file[i] \notin exposed
        PROVE  rawCopies[file[i]] <= runCrashes
    <3>1. file[i] \notin appended
      BY <2>1, <2>3 DEF CopyParts, CopiesBehindCursor, AppendedFromBatch
    <3>2. i > cursor
      BY <2>1, <2>3, <1>b
    <3> QED BY <2>3, <3>1, <3>2 DEF CopyParts, CopiesBehindCursor
  <2>4. CopiesBehindCursor'
    BY <2>3 DEF CopiesBehindCursor, AggRunning
  <2> QED BY <2>2, <2>4 DEF CopyParts
<1>12. CASE AggCrash
  <2> USE <1>12 DEF AggCrash, AggExit, diskVars, pruneVars, historyVars
  <2>1. runCrashes' = runCrashes + 1
    OBVIOUS
  <2>2. RepeatedOnlyByCrash'
    BY <2>1, <1>b DEF CopyParts, RepeatedOnlyByCrash
  <2>3. EmittedOnce' /\ AppendedFromBatch'
    BY DEF CopyParts, EmittedOnce, AppendedFromBatch
  <2>4. CopiesBehindCursor'
    <3>1. \A e \in Events : e \notin exposed => rawCopies[e] <= runCrashes'
      BY <2>1, <1>b DEF CopyParts, RepeatedOnlyByCrash
    <3> QED BY <3>1, <1>b DEF CopiesBehindCursor, AggRunning
  <2> QED BY <2>2, <2>3, <2>4 DEF CopyParts
<1>13. CASE PruneStat
  BY <1>13, QuietStep DEF PruneStat, AggRunning, diskVars, aggVars, faultVars, historyVars
<1>14. CASE PruneReadPos
  BY <1>14, QuietStep DEF PruneReadPos, AggRunning, diskVars, aggVars, faultVars, historyVars
<1>15. CASE PruneRestat
  BY <1>15, QuietStep DEF PruneRestat, AggRunning, diskVars, aggVars, faultVars, historyVars
<1>16. CASE PruneTruncate
  <2> USE <1>16 DEF PruneTruncate, aggVars, faultVars, historyVars
  <2>1. RepeatedOnlyByCrash' /\ EmittedOnce' /\ AppendedFromBatch'
    BY DEF CopyParts, RepeatedOnlyByCrash, EmittedOnce, AppendedFromBatch
  <2>2. CopiesBehindCursor'
    BY DEF CopyParts, CopiesBehindCursor
  <2> QED BY <2>1, <2>2 DEF CopyParts
<1>17. CASE PruneReset
  <2> USE <1>17 DEF PruneReset, PruneExit, aggVars, faultVars, historyVars
  <2>1. \A i \in 1..Len(file) : file[i] \in exposed
    BY DEF PruneDecisionSound
  <2>2. RepeatedOnlyByCrash' /\ EmittedOnce' /\ AppendedFromBatch'
    BY DEF CopyParts, RepeatedOnlyByCrash, EmittedOnce, AppendedFromBatch
  <2>3. CopiesBehindCursor'
    BY <2>1 DEF CopyParts, CopiesBehindCursor
  <2> QED BY <2>2, <2>3 DEF CopyParts
<1>18. CASE PruneCrash
  BY <1>18, QuietStep DEF PruneCrash, AggRunning, diskVars, aggVars, historyVars
<1>19. CASE UNCHANGED vars
  BY <1>19, QuietStep DEF vars, AggRunning, diskVars, aggVars, faultVars, historyVars
<1> QED
  BY <1>1, <1>2, <1>3, <1>4, <1>5, <1>6, <1>7, <1>8, <1>9, <1>10, <1>11, <1>12,
     <1>13, <1>14, <1>15, <1>16, <1>17, <1>18, <1>19
     DEF Next, AggStep, PruneStep

\* The initial state satisfies that invariant.
LEMMA CopyInit == Init => CopyInv
  BY LossInit DEF Init, CopyInv, RepeatedOnlyByCrash, EmittedOnce, AppendedFromBatch,
                  CopiesBehindCursor, AggRunning

\* A line that was not exposed is in the raw files at most once more than runs
\* have died: neither prune's reset of the cursor nor the order in which the
\* aggregator and prune interleave replays it.
THEOREM NoReplayWithoutCrash == Spec => []RepeatedOnlyByCrash
<1>1. Init => CopyInv
  BY CopyInit
<1>2. CopyInv => RepeatedOnlyByCrash
  BY DEF CopyInv
<1> QED
  BY <1>1, <1>2, CopyInductive, PTL DEF Spec

-----------------------------------------------------------------------------
Readable == {e \in emitted : Pending(e)}
Published == {e \in Events : rawCopies[e] > 0}

\* A step that neither emits nor writes a raw file leaves a protected, not yet
\* published event readable.
LEMMA MovesOn ==
  ASSUME LossInv, LossInv', UNCHANGED <<rawCopies, emitted, exposed>>
  PROVE  Delivery!MoveOn
<1>1. Readable' \subseteq emitted
  BY DEF Readable
<1>2. ASSUME NEW e \in emitted, e \notin Published, e \notin exposed
      PROVE  e \in Readable /\ e \in Readable'
  <2>1. e \in Events /\ rawCopies[e] \in Nat
    BY DEF LossInv, TypeOK
  <2>2. ~(rawCopies[e] > 0)
    BY <1>2, <2>1 DEF Published
  <2>3. Pending(e)
    BY <1>2, <2>2 DEF LossInv, LostOnlyIfExposed
  <2>4. Pending(e)'
    BY <1>2, <2>2 DEF LossInv, LostOnlyIfExposed
  <2> QED BY <1>2, <2>3, <2>4 DEF Readable
<1>3. Published' = Published
  BY DEF Published
<1> QED
  BY <1>1, <1>2, <1>3 DEF Delivery!MoveOn, Readable, Published

\* Every step of the event path is a step of EventDelivery, or stutters there.
LEMMA StepRefines == CopyInv /\ [Next]_vars => [Delivery!Next]_(Delivery!vars)
<1> SUFFICES ASSUME CopyInv, [Next]_vars PROVE Delivery!Next \/ UNCHANGED Delivery!vars
  OBVIOUS
<1>0. LossInv /\ LossInv' /\ TypeOK /\ EmittedOnce
  BY LossInductive DEF CopyInv, LossInv
<1>a. UNCHANGED <<rawCopies, emitted, exposed>> => Delivery!Next
  BY <1>0, MovesOn DEF Delivery!Next
<1>1. ASSUME NEW e \in Events, Emit(e) PROVE Delivery!Next
  <2>1. /\ Len(file') = Len(file) + 1
        /\ \A i \in 1..Len(file) : file'[i] = file[i]
        /\ file'[Len(file) + 1] = e
        /\ Len(file) \in Nat /\ cursor \in Nat
    BY <1>0, <1>1 DEF Emit, TypeOK
  <2>2. /\ e \notin emitted
        /\ emitted' = emitted \union {e}
        /\ exposed' = IF AtRisk THEN exposed \union {e} ELSE exposed
        /\ UNCHANGED <<cursor, rawCopies>>
    BY <1>1 DEF Emit
  <2>3. \A d \in emitted : Pending(d)' <=> Pending(d)
    BY <2>1, <2>2 DEF Pending
  <2>4. ~AtRisk => Pending(e)'
    BY <2>1, <2>2 DEF Pending, AtRisk
  <2>5. Readable' = IF Pending(e)' THEN Readable \union {e} ELSE Readable
    BY <2>2, <2>3 DEF Readable
  <2>6. Published' = Published
    BY <2>2 DEF Published
  <2>7. CASE AtRisk
    <3>1. /\ Readable' \in {Readable, Readable \union {e}}
          /\ exposed' = exposed \union {e}
      BY <2>2, <2>5, <2>7
    <3>2. Delivery!Accept(e)
      BY <3>1, <2>2, <2>6 DEF Delivery!Accept, Readable, Published
    <3> QED BY <3>2 DEF Delivery!Next
  <2>8. CASE ~AtRisk
    <3>1. Readable' = Readable \union {e} /\ exposed' = exposed
      BY <2>2, <2>4, <2>5, <2>8
    <3>2. Delivery!Accept(e)
      BY <3>1, <2>2, <2>6 DEF Delivery!Accept, Readable, Published
    <3> QED BY <3>2 DEF Delivery!Next
  <2> QED BY <2>7, <2>8
<1>2. ASSUME NEW h \in Hours, AggAppendRaw(h) PROVE Delivery!Next
  <2> DEFINE bucket == {e \in batch : HourOf[e] = h}
  <2>1. /\ rawCopies' = Bump(rawCopies, bucket)
        /\ UNCHANGED <<file, cursor, emitted, exposed>>
    BY <1>2 DEF AggAppendRaw, historyVars
  <2>2. bucket \subseteq emitted /\ bucket \subseteq Events /\ rawCopies \in [Events -> Nat]
    BY <1>0 DEF EmittedOnce, TypeOK
  <2> HIDE DEF bucket
  <2>3. \A e \in Events : rawCopies'[e] = IF e \in bucket THEN rawCopies[e] + 1
                                                          ELSE rawCopies[e]
    BY <2>1, <2>2, BumpFact
  <2>4. Published' = Published \union bucket
    BY <2>2, <2>3 DEF Published
  <2>5. Readable' = Readable
    BY <2>1 DEF Readable, Pending
  <2>6. bucket \subseteq Readable \union Published \union exposed
    BY <1>0, <2>2 DEF LossInv, LostOnlyIfExposed, Readable, Published
  <2>7. Delivery!Publish(bucket)
    BY <2>1, <2>4, <2>5, <2>6 DEF Delivery!Publish, Readable, Published
  <2>8. \E S \in SUBSET Events : Delivery!Publish(S)
    <3>1. bucket \in SUBSET Events
      BY <2>2
    <3> QED BY <2>7, <3>1 DEF Delivery!Publish
  <2> QED BY <2>8 DEF Delivery!Next
<1>3. CASE AggStart
  BY <1>3, <1>a DEF AggStart, diskVars
<1>4. CASE AggRead
  BY <1>4, <1>a DEF AggRead, diskVars, historyVars
<1>5. CASE AggRaise
  BY <1>5, <1>a DEF AggRaise, diskVars, historyVars
<1>6. CASE AggEof
  BY <1>6, <1>a DEF AggEof, diskVars, historyVars
<1>7. CASE AggRawDone
  BY <1>7, <1>a DEF AggRawDone, diskVars, historyVars
<1>8. ASSUME NEW ip \in IPs, AggMergeProfile(ip) PROVE Delivery!Next
  BY <1>8, <1>a DEF AggMergeProfile, historyVars
<1>9. CASE AggProfilesDone
  BY <1>9, <1>a DEF AggProfilesDone, diskVars, historyVars
<1>10. CASE AggNodeJson
  BY <1>10, <1>a DEF AggNodeJson, historyVars
<1>11. CASE AggPersist
  BY <1>11, <1>a DEF AggPersist, historyVars
<1>12. CASE AggCrash
  BY <1>12, <1>a DEF AggCrash, diskVars, historyVars
<1>13. CASE PruneStat
  BY <1>13, <1>a DEF PruneStat, diskVars, historyVars
<1>14. CASE PruneReadPos
  BY <1>14, <1>a DEF PruneReadPos, diskVars, historyVars
<1>15. CASE PruneRestat
  BY <1>15, <1>a DEF PruneRestat, diskVars, historyVars
<1>16. CASE PruneTruncate
  BY <1>16, <1>a DEF PruneTruncate
<1>17. CASE PruneReset
  BY <1>17, <1>a DEF PruneReset, historyVars
<1>18. CASE PruneCrash
  BY <1>18, <1>a DEF PruneCrash, diskVars, historyVars
<1>19. CASE UNCHANGED vars
  BY <1>19, <1>a DEF vars, diskVars, historyVars
<1> QED
  BY <1>1, <1>2, <1>3, <1>4, <1>5, <1>6, <1>7, <1>8, <1>9, <1>10, <1>11, <1>12,
     <1>13, <1>14, <1>15, <1>16, <1>17, <1>18, <1>19
     DEF Next, AggStep, PruneStep

\* The event path implements EventDelivery: a protected event stays readable
\* until it is published, only accepted events are published, and nothing
\* published is taken back.
THEOREM Refinement == Spec => KeepsDeliveryPromise
<1>1. Init => Delivery!Init
  BY DEF Init, Delivery!Init
<1>2. Init => CopyInv
  BY CopyInit
<1> QED
  BY <1>1, <1>2, CopyInductive, StepRefines, PTL
     DEF Spec, Delivery!Spec, KeepsDeliveryPromise
-----------------------------------------------------------------------------
\* Until a prune run dies or a run meets an unfinished truncation, no cursor is
\* past the end of the file: not the persisted one, unless prune is about to
\* reset it while no run is under way, and not the one a run will persist.
CursorsInStep ==
  ~overlapped /\ pruneCrashes = 0 =>
    /\ prunePc = "reset" => ~AggRunning
    /\ prunePc # "reset" => cursor <= Len(file)
    /\ AggRunning => newPos <= Len(file)

\* A line the fold cannot digest also stops the run that reads it.
PoisonHoldsRun ==
  \A i \in 1..Len(file) :
    AggRunning /\ file[i] \in Poison \ exposed => newPos < i

CursorInv == CopyInv /\ CursorsInStep /\ PoisonHoldsCursor /\ PoisonHoldsRun

\* No step but prune's own leaves a cursor past the end of the file.
LEMMA CursorsInStepInductive ==
  ASSUME TypeOK, TypeOK', CursorsInStep, BatchCoversRead, [Next]_vars
  PROVE  CursorsInStep'
<1>0. /\ file \in Seq(Events) /\ Len(file) \in Nat /\ cursor \in Nat /\ newPos \in Nat
      /\ pruneCrashes \in Nat
  BY DEF TypeOK
<1> USE <1>0 DEF CursorsInStep, AggRunning
<1>1. ASSUME NEW e \in Events, Emit(e) PROVE CursorsInStep'
  <2>1. Len(file') = Len(file) + 1
    BY <1>1 DEF Emit
  <2> QED BY <1>1, <2>1 DEF Emit, aggVars, pruneVars, faultVars
<1>2. CASE AggStart
  BY <1>2 DEF AggStart, diskVars, pruneVars, faultVars
<1>3. CASE AggRead
  <2>1. newPos' \in 1..Len(file)
    BY <1>3 DEF AggRead
  <2> QED BY <1>3, <2>1 DEF AggRead, diskVars, pruneVars, faultVars, historyVars
<1>4. CASE AggRaise
  BY <1>4 DEF AggRaise, AggExit, diskVars, pruneVars, faultVars, historyVars
<1>5. CASE AggEof
  BY <1>5 DEF AggEof, diskVars, pruneVars, faultVars, historyVars
<1>6. ASSUME NEW h \in Hours, AggAppendRaw(h) PROVE CursorsInStep'
  BY <1>6 DEF AggAppendRaw, pruneVars, faultVars, historyVars
<1>7. CASE AggRawDone
  BY <1>7 DEF AggRawDone, diskVars, pruneVars, faultVars, historyVars
<1>8. ASSUME NEW ip \in IPs, AggMergeProfile(ip) PROVE CursorsInStep'
  BY <1>8 DEF AggMergeProfile, pruneVars, faultVars, historyVars
<1>9. CASE AggProfilesDone
  BY <1>9 DEF AggProfilesDone, diskVars, pruneVars, faultVars, historyVars
<1>10. CASE AggNodeJson
  BY <1>10 DEF AggNodeJson, pruneVars, faultVars, historyVars
<1>11. CASE AggPersist
  BY <1>11 DEF AggPersist, AggExit, pruneVars, faultVars, historyVars
<1>12. CASE AggCrash
  BY <1>12 DEF AggCrash, AggExit, diskVars, pruneVars, historyVars
<1>13. CASE PruneStat
  BY <1>13 DEF PruneStat, diskVars, aggVars, faultVars, historyVars
<1>14. CASE PruneReadPos
  BY <1>14 DEF PruneReadPos, diskVars, aggVars, faultVars, historyVars
<1>15. CASE PruneRestat
  BY <1>15 DEF PruneRestat, PruneExit, diskVars, aggVars, faultVars, historyVars
<1>16. CASE PruneTruncate
  BY <1>16 DEF PruneTruncate, aggVars, faultVars
<1>17. CASE PruneReset
  BY <1>17 DEF PruneReset, PruneExit, aggVars, faultVars, historyVars
<1>18. CASE PruneCrash
  <2>1. pruneCrashes' # 0
    BY <1>18 DEF PruneCrash
  <2> QED BY <2>1
<1>19. CASE UNCHANGED vars
  BY <1>19 DEF vars, diskVars, aggVars, pruneVars, faultVars, historyVars
<1> QED
  BY <1>1, <1>2, <1>3, <1>4, <1>5, <1>6, <1>7, <1>8, <1>9, <1>10, <1>11, <1>12,
     <1>13, <1>14, <1>15, <1>16, <1>17, <1>18, <1>19
     DEF Next, AggStep, PruneStep

PoisonParts == PoisonHoldsCursor /\ PoisonHoldsRun

\* A step that leaves the file, the raw files and both cursors alone.
LEMMA PoisonQuiet ==
  ASSUME PoisonParts,
         UNCHANGED <<file, cursor, rawCopies, exposed>>,
         AggRunning' => AggRunning /\ newPos' = newPos
  PROVE  PoisonParts'
  BY DEF PoisonParts, PoisonHoldsCursor, PoisonHoldsRun

\* No step takes a cursor past a line the fold cannot digest, nor writes one
\* that lies behind it.
LEMMA PoisonInductive ==
  ASSUME CopyInv, CopyInv', PoisonParts, [Next]_vars
  PROVE  PoisonParts'
<1>0. /\ file \in Seq(Events) /\ Len(file) \in Nat /\ cursor \in Nat /\ newPos \in Nat
      /\ \A e \in Events : rawCopies[e] \in Nat
      /\ \A i \in 1..Len(file) : file[i] \in Events
      /\ rawCopies \in [Events -> Nat]
  BY DEF CopyInv, LossInv, TypeOK
<1>a. BatchCoversRead /\ EmittedOnce /\ AppendedFromBatch /\ CopiesBehindCursor
  BY DEF CopyInv, LossInv
<1>1. ASSUME NEW e \in Events, Emit(e) PROVE PoisonParts'
  <2>1. /\ Len(file') = Len(file) + 1
        /\ \A i \in 1..Len(file) : file'[i] = file[i]
        /\ file'[Len(file) + 1] = e
        /\ exposed \subseteq exposed' /\ (AtRisk => e \in exposed')
        /\ UNCHANGED <<cursor, rawCopies, newPos>> /\ AggRunning' = AggRunning
    BY <1>0, <1>1 DEF Emit, aggVars, AggRunning
  <2>2. rawCopies[e] = 0
    BY <1>a, <1>1 DEF EmittedOnce, Emit
  <2>3. ASSUME NEW i \in 1..Len(file'), file'[i] \in Poison \ exposed'
        PROVE  /\ cursor < i /\ (AggRunning => newPos < i)
               /\ \A j \in i..Len(file') : file'[j] \notin exposed' => rawCopies[file'[j]] = 0
    <3>1. CASE i \in 1..Len(file)
      <4>1. file[i] \in Poison \ exposed
        BY <2>1, <2>3, <3>1
      <4>2. /\ cursor < i /\ (AggRunning => newPos < i)
            /\ \A j \in i..Len(file) : file[j] \notin exposed => rawCopies[file[j]] = 0
        BY <3>1, <4>1 DEF PoisonParts, PoisonHoldsCursor, PoisonHoldsRun
      <4>3. ASSUME NEW j \in i..Len(file'), file'[j] \notin exposed' PROVE rawCopies[file'[j]] = 0
        <5>1. CASE j = Len(file) + 1
          BY <2>1, <2>2, <5>1
        <5>2. CASE j \in i..Len(file)
          <6>1. j \in 1..Len(file)
            BY <3>1, <5>2
          <6> QED BY <2>1, <4>2, <4>3, <5>2, <6>1
        <5> QED BY <1>0, <2>1, <5>1, <5>2
      <4> QED BY <4>2, <4>3
    <3>2. CASE i = Len(file) + 1
      <4>1. ~AtRisk
        BY <2>1, <2>3, <3>2
      <4>2. \A j \in i..Len(file') : j = i
        BY <1>0, <2>1, <3>2
      <4> QED BY <1>0, <2>1, <2>2, <3>2, <4>1, <4>2 DEF AtRisk
    <3> QED BY <1>0, <2>1, <3>1, <3>2
  <2> QED BY <2>1, <2>3 DEF PoisonParts, PoisonHoldsCursor, PoisonHoldsRun
<1>2. CASE AggStart
  <2>1. newPos' = cursor /\ UNCHANGED <<file, cursor, rawCopies, exposed>>
    BY <1>2 DEF AggStart, diskVars
  <2> QED BY <2>1 DEF PoisonParts, PoisonHoldsCursor, PoisonHoldsRun
<1>3. CASE AggRead
  <2>1. PICK n \in (newPos + 1)..Len(file) :
          (\A i \in (newPos + 1)..n : ~Raises(file[i])) /\ newPos' = n
    BY <1>3 DEF AggRead
  <2>2. UNCHANGED <<file, cursor, rawCopies, exposed>> /\ AggRunning
    BY <1>3 DEF AggRead, diskVars, historyVars, AggRunning
  <2>3. ASSUME NEW i \in 1..Len(file), file[i] \in Poison \ exposed PROVE n < i
    <3>1. newPos < i
      BY <2>2, <2>3 DEF PoisonParts, PoisonHoldsRun
    <3>2. i \notin (newPos + 1)..n
      BY <2>1, <2>3 DEF Raises
    <3> QED BY <1>0, <3>1, <3>2
  <2> QED BY <2>1, <2>2, <2>3 DEF PoisonParts, PoisonHoldsCursor, PoisonHoldsRun
<1>4. CASE AggRaise
  BY <1>4, PoisonQuiet DEF AggRaise, AggExit, AggRunning, diskVars, historyVars
<1>5. CASE AggEof
  BY <1>5, PoisonQuiet DEF AggEof, AggRunning, diskVars, historyVars
<1>6. ASSUME NEW h \in Hours, AggAppendRaw(h) PROVE PoisonParts'
  <2> DEFINE bucket == {e \in batch : HourOf[e] = h}
  <2>1. /\ rawCopies' = Bump(rawCopies, bucket) /\ bucket \subseteq batch
        /\ UNCHANGED <<file, cursor, newPos, exposed>> /\ AggRunning /\ AggRunning'
    BY <1>6 DEF AggAppendRaw, AggRunning, historyVars
  <2> HIDE DEF bucket
  <2>2. ASSUME NEW i \in 1..Len(file), file[i] \in Poison \ exposed,
               NEW j \in i..Len(file), file[j] \notin exposed
        PROVE  rawCopies'[file[j]] = 0
    <3>1. newPos < i /\ rawCopies[file[j]] = 0
      BY <2>1, <2>2 DEF PoisonParts, PoisonHoldsCursor, PoisonHoldsRun
    <3>2. j \in 1..Len(file) /\ j > newPos
      BY <1>0, <3>1
    <3>3. file[j] \notin batch
      BY <1>a, <2>1, <2>2, <3>2 DEF CopiesBehindCursor
    <3> QED BY <1>0, <2>1, <3>1, <3>2, <3>3, BumpFact
  <2> QED BY <2>1, <2>2 DEF PoisonParts, PoisonHoldsCursor, PoisonHoldsRun
<1>7. CASE AggRawDone
  BY <1>7, PoisonQuiet DEF AggRawDone, AggRunning, diskVars, historyVars
<1>8. ASSUME NEW ip \in IPs, AggMergeProfile(ip) PROVE PoisonParts'
  BY <1>8, PoisonQuiet DEF AggMergeProfile, AggRunning, historyVars
<1>9. CASE AggProfilesDone
  BY <1>9, PoisonQuiet DEF AggProfilesDone, AggRunning, diskVars, historyVars
<1>10. CASE AggNodeJson
  BY <1>10, PoisonQuiet DEF AggNodeJson, AggRunning, historyVars
<1>11. CASE AggPersist
  <2>1. /\ UNCHANGED <<file, rawCopies, exposed>> /\ cursor' = newPos
        /\ AggRunning /\ ~AggRunning'
    BY <1>11 DEF AggPersist, AggExit, AggRunning, historyVars
  <2> QED BY <2>1 DEF PoisonParts, PoisonHoldsCursor, PoisonHoldsRun
<1>12. CASE AggCrash
  BY <1>12, PoisonQuiet DEF AggCrash, AggExit, AggRunning, diskVars, historyVars
<1>13. CASE PruneStat
  BY <1>13, PoisonQuiet DEF PruneStat, AggRunning, diskVars, aggVars, historyVars
<1>14. CASE PruneReadPos
  BY <1>14, PoisonQuiet DEF PruneReadPos, AggRunning, diskVars, aggVars, historyVars
<1>15. CASE PruneRestat
  BY <1>15, PoisonQuiet DEF PruneRestat, AggRunning, diskVars, aggVars, historyVars
<1>16. CASE PruneTruncate
  <2>1. 1..Len(file') = {}
    BY <1>16 DEF PruneTruncate
  <2> QED BY <2>1 DEF PoisonParts, PoisonHoldsCursor, PoisonHoldsRun
<1>17. CASE PruneReset
  <2>1. /\ UNCHANGED <<file, rawCopies, exposed, newPos>> /\ cursor' = 0
        /\ AggRunning' = AggRunning
    BY <1>17 DEF PruneReset, AggRunning, aggVars, historyVars
  <2> QED BY <1>0, <2>1 DEF PoisonParts, PoisonHoldsCursor, PoisonHoldsRun
<1>18. CASE PruneCrash
  BY <1>18, PoisonQuiet DEF PruneCrash, AggRunning, diskVars, aggVars, historyVars
<1>19. CASE UNCHANGED vars
  BY <1>19, PoisonQuiet DEF vars, AggRunning, diskVars, aggVars, historyVars
<1> QED
  BY <1>1, <1>2, <1>3, <1>4, <1>5, <1>6, <1>7, <1>8, <1>9, <1>10, <1>11, <1>12,
     <1>13, <1>14, <1>15, <1>16, <1>17, <1>18, <1>19
     DEF Next, AggStep, PruneStep

\* Where the cursor stands is always accounted for: past the end of the file
\* only after a prune run has died or a run has met an unfinished truncation,
\* and never past a line the fold cannot digest.
THEOREM CursorCorrect == Spec => []CursorAccountedFor
<1>1. Init => CursorInv
  BY CopyInit DEF Init, CursorInv, CursorsInStep, PoisonHoldsCursor, PoisonHoldsRun, AggRunning
<1>2. CursorInv /\ [Next]_vars => CursorInv'
  <2> SUFFICES ASSUME CursorInv, [Next]_vars PROVE CursorInv'
    OBVIOUS
  <2>1. CopyInv /\ CopyInv' /\ TypeOK /\ TypeOK' /\ BatchCoversRead
    BY CopyInductive, LossInductive DEF CursorInv, CopyInv, LossInv
  <2>2. CursorsInStep'
    BY <2>1, CursorsInStepInductive DEF CursorInv
  <2>3. PoisonParts'
    BY <2>1, PoisonInductive DEF CursorInv, PoisonParts
  <2> QED BY <2>1, <2>2, <2>3 DEF CursorInv, PoisonParts
<1>3. CursorInv => CursorAccountedFor
  <2> SUFFICES ASSUME CursorInv, ~AggRunning, prunePc = "idle", cursor > Len(file)
               PROVE  overlapped \/ pruneCrashes > 0
    BY DEF CursorInv, CursorAccountedFor, StaleCursorHasCause
  <2>1. cursor \in Nat /\ Len(file) \in Nat /\ pruneCrashes \in Nat
    BY DEF CursorInv, CopyInv, LossInv, TypeOK
  <2> QED BY <2>1 DEF CursorInv, CursorsInStep
<1> QED
  BY <1>1, <1>2, <1>3, PTL DEF Spec

-----------------------------------------------------------------------------
One(b) == IF b THEN 1 ELSE 0

\* What a run folds it has appended, and it folds after the raw files are done.
FoldedFromAppended ==
  /\ folded \subseteq batch
  /\ aggPc \in {"idle", "read", "raw"} => folded = {}
  /\ aggPc \in {"node", "persist"} => folded = batch

\* By how much the three counts of an event differ in the middle of a run.
CountsOf(e) ==
  /\ tallied[e] + One(aggPc # "persist" /\ e \in folded) <= counted[e]
  /\ counted[e] + One(e \in appended \ folded) <= rawCopies[e]
  /\ rawCopies[e] <= tallied[e] + runCrashes + One(aggPc # "persist" /\ e \in appended)

CountInv == CopyInv /\ FoldedFromAppended /\ \A e \in Events : CountsOf(e)

\* A step that counts nothing.
LEMMA CountQuiet ==
  ASSUME FoldedFromAppended, \A e \in Events : CountsOf(e),
         UNCHANGED <<rawCopies, counted, tallied, appended, folded, runCrashes>>,
         \/ UNCHANGED aggPc
         \/ {aggPc, aggPc'} \subseteq {"read", "raw", "profiles", "node"},
         FoldedFromAppended'
  PROVE  \A e \in Events : CountsOf(e)'
  BY DEF CountsOf, One

\* Every step keeps the three counts of an event as far apart as the run is.
LEMMA CountInductive ==
  ASSUME CopyInv, TypeOK', FoldedFromAppended, \A e \in Events : CountsOf(e), [Next]_vars
  PROVE  FoldedFromAppended' /\ \A e \in Events : CountsOf(e)'
<1>0. /\ rawCopies \in [Events -> Nat] /\ counted \in [Events -> Nat] /\ tallied \in [Events -> Nat]
      /\ \A e \in Events : rawCopies[e] \in Nat /\ counted[e] \in Nat /\ tallied[e] \in Nat
      /\ runCrashes \in Nat /\ batch \subseteq Events /\ AppendedFromBatch /\ AppendedIsWritten
  BY DEF CopyInv, LossInv, TypeOK
<1>a. \A b \in BOOLEAN : One(b) \in {0, 1}
  BY DEF One
<1> DEFINE P == FoldedFromAppended' /\ \A e \in Events : CountsOf(e)'
<1>1. ASSUME NEW e \in Events, Emit(e) PROVE P
  <2>1. UNCHANGED <<rawCopies, counted, tallied, batch, appended, folded, runCrashes, aggPc>>
    BY <1>1 DEF Emit, aggVars, faultVars
  <2>2. FoldedFromAppended'
    BY <2>1 DEF FoldedFromAppended
  <2> QED BY <2>1, <2>2, CountQuiet
<1>2. CASE AggStart
  <2>1. /\ UNCHANGED <<rawCopies, counted, tallied, batch, appended, folded, runCrashes>>
        /\ appended = {} /\ folded = {} /\ aggPc = "idle" /\ aggPc' = "read"
    BY <1>0, <1>2 DEF AggStart, diskVars, faultVars, AppendedFromBatch, FoldedFromAppended
  <2> QED BY <2>1 DEF FoldedFromAppended, CountsOf, One
<1>3. CASE AggRead
  <2>1. /\ UNCHANGED <<rawCopies, counted, tallied, appended, folded, runCrashes, aggPc>>
        /\ aggPc = "read"
    BY <1>3 DEF AggRead, diskVars, faultVars
  <2>2. FoldedFromAppended'
    BY <2>1 DEF FoldedFromAppended
  <2> QED BY <2>1, <2>2, CountQuiet
<1>4. CASE AggRaise
  <2>1. /\ UNCHANGED <<rawCopies, counted, tallied, runCrashes>>
        /\ appended = {} /\ folded = {} /\ aggPc = "read" /\ aggPc' = "idle"
        /\ appended' = {} /\ folded' = {} /\ batch' = {}
    BY <1>0, <1>4 DEF AggRaise, AggExit, diskVars, faultVars, AppendedFromBatch, FoldedFromAppended
  <2> QED BY <2>1 DEF FoldedFromAppended, CountsOf, One
<1>5. CASE AggEof
  <2>1. /\ UNCHANGED <<rawCopies, counted, tallied, batch, appended, folded, runCrashes>>
        /\ aggPc = "read" /\ aggPc' = "raw"
    BY <1>5 DEF AggEof, diskVars, faultVars
  <2>2. FoldedFromAppended'
    BY <2>1 DEF FoldedFromAppended
  <2> QED BY <2>1, <2>2, CountQuiet
<1>6. ASSUME NEW h \in Hours, AggAppendRaw(h) PROVE P
  <2> DEFINE bucket == {e \in batch : HourOf[e] = h}
  <2>1. /\ rawCopies' = Bump(rawCopies, bucket) /\ appended' = appended \union bucket
        /\ bucket \intersect appended = {} /\ aggPc = "raw"
        /\ UNCHANGED <<counted, tallied, batch, folded, runCrashes, aggPc>>
    BY <1>6 DEF AggAppendRaw, faultVars
  <2> HIDE DEF bucket
  <2>2. folded = {} /\ FoldedFromAppended'
    BY <2>1 DEF FoldedFromAppended
  <2>3. ASSUME NEW e \in Events PROVE CountsOf(e)'
    <3>1. rawCopies'[e] = IF e \in bucket THEN rawCopies[e] + 1 ELSE rawCopies[e]
      BY <1>0, <2>1, BumpFact
    <3>2. CountsOf(e)
      OBVIOUS
    <3>3. CASE e \in bucket
      BY <1>0, <2>1, <2>2, <3>1, <3>2, <3>3 DEF CountsOf, One
    <3>4. CASE e \notin bucket
      BY <1>0, <2>1, <2>2, <3>1, <3>2, <3>4 DEF CountsOf, One
    <3> QED BY <3>3, <3>4
  <2> QED BY <2>2, <2>3
<1>7. CASE AggRawDone
  <2>1. /\ UNCHANGED <<rawCopies, counted, tallied, batch, appended, folded, runCrashes>>
        /\ aggPc = "raw" /\ aggPc' = "profiles"
    BY <1>7 DEF AggRawDone, diskVars, faultVars
  <2>2. FoldedFromAppended'
    BY <2>1 DEF FoldedFromAppended
  <2> QED BY <2>1, <2>2, CountQuiet
<1>8. ASSUME NEW ip \in IPs, AggMergeProfile(ip) PROVE P
  <2> DEFINE group == {e \in batch : IpOf[e] = ip}
  <2>1. /\ counted' = Bump(counted, group) /\ folded' = folded \union group
        /\ group \intersect folded = {} /\ aggPc = "profiles" /\ group \subseteq batch
        /\ UNCHANGED <<rawCopies, tallied, batch, appended, runCrashes, aggPc>>
    BY <1>8 DEF AggMergeProfile, faultVars
  <2> HIDE DEF group
  <2>2. appended = batch /\ FoldedFromAppended'
    BY <1>0, <2>1 DEF FoldedFromAppended, AppendedIsWritten
  <2>3. ASSUME NEW e \in Events PROVE CountsOf(e)'
    <3>1. counted'[e] = IF e \in group THEN counted[e] + 1 ELSE counted[e]
      BY <1>0, <2>1, BumpFact
    <3>2. CountsOf(e)
      OBVIOUS
    <3>3. CASE e \in group
      BY <1>0, <2>1, <2>2, <3>1, <3>2, <3>3 DEF CountsOf, One
    <3>4. CASE e \notin group
      BY <1>0, <2>1, <2>2, <3>1, <3>2, <3>4 DEF CountsOf, One
    <3> QED BY <3>3, <3>4
  <2> QED BY <2>2, <2>3
<1>9. CASE AggProfilesDone
  <2>1. /\ UNCHANGED <<rawCopies, counted, tallied, batch, appended, folded, runCrashes>>
        /\ aggPc = "profiles" /\ aggPc' = "node" /\ folded = batch
    BY <1>9 DEF AggProfilesDone, diskVars, faultVars
  <2>2. FoldedFromAppended'
    BY <2>1 DEF FoldedFromAppended
  <2> QED BY <2>1, <2>2, CountQuiet
<1>10. CASE AggNodeJson
  <2>1. /\ tallied' = Bump(tallied, batch) /\ aggPc = "node" /\ aggPc' = "persist"
        /\ UNCHANGED <<rawCopies, counted, batch, appended, folded, runCrashes>>
    BY <1>10 DEF AggNodeJson, faultVars
  <2>2. appended = batch /\ folded = batch /\ FoldedFromAppended'
    BY <1>0, <2>1 DEF FoldedFromAppended, AppendedIsWritten
  <2>3. ASSUME NEW e \in Events PROVE CountsOf(e)'
    <3>1. tallied'[e] = IF e \in batch THEN tallied[e] + 1 ELSE tallied[e]
      BY <1>0, <2>1, BumpFact
    <3>2. CountsOf(e)
      OBVIOUS
    <3>3. CASE e \in batch
      BY <1>0, <2>1, <2>2, <3>1, <3>2, <3>3 DEF CountsOf, One
    <3>4. CASE e \notin batch
      BY <1>0, <2>1, <2>2, <3>1, <3>2, <3>4 DEF CountsOf, One
    <3> QED BY <3>3, <3>4
  <2> QED BY <2>2, <2>3
<1>11. CASE AggPersist
  <2>1. /\ UNCHANGED <<rawCopies, counted, tallied, runCrashes>>
        /\ appended' = {} /\ folded' = {} /\ batch' = {} /\ aggPc' = "idle"
        /\ aggPc = "persist" /\ appended = batch /\ folded = batch
    BY <1>0, <1>11 DEF AggPersist, AggExit, faultVars, FoldedFromAppended, AppendedIsWritten
  <2> QED BY <1>0, <2>1 DEF FoldedFromAppended, CountsOf, One
<1>12. CASE AggCrash
  <2>1. /\ UNCHANGED <<rawCopies, counted, tallied>> /\ runCrashes' = runCrashes + 1
        /\ appended' = {} /\ folded' = {} /\ batch' = {} /\ aggPc' = "idle"
    BY <1>12 DEF AggCrash, AggExit, diskVars
  <2>2. FoldedFromAppended'
    BY <2>1 DEF FoldedFromAppended
  <2>3. ASSUME NEW e \in Events PROVE CountsOf(e)'
    <3>1. CountsOf(e)
      OBVIOUS
    <3> QED BY <1>0, <2>1, <3>1 DEF CountsOf, One
  <2> QED BY <2>2, <2>3
<1>13. CASE PruneStep \/ PruneCrash \/ UNCHANGED vars
  <2>1. UNCHANGED <<rawCopies, counted, tallied, batch, appended, folded, runCrashes, aggPc>>
    BY <1>13 DEF PruneStep, PruneStat, PruneReadPos, PruneRestat, PruneTruncate, PruneReset,
                 PruneCrash, vars, diskVars, aggVars, faultVars
  <2>2. FoldedFromAppended'
    BY <2>1 DEF FoldedFromAppended
  <2> QED BY <2>1, <2>2, CountQuiet
<1> QED
  BY <1>1, <1>2, <1>3, <1>4, <1>5, <1>6, <1>7, <1>8, <1>9, <1>10, <1>11, <1>12, <1>13
     DEF Next, AggStep

\* The profiles and node.json never count what the raw files do not hold, and
\* miss at most as many copies of an event as runs have died, and the one that
\* is under way.
THEOREM CountersCorrect == Spec => []CountersFollowRaw
<1>1. Init => CountInv
  BY CopyInit, ConstantsAssumption DEF Init, CountInv, FoldedFromAppended, CountsOf, One
<1>2. CountInv /\ [Next]_vars => CountInv'
  <2> SUFFICES ASSUME CountInv, [Next]_vars PROVE CountInv'
    OBVIOUS
  <2>1. CopyInv /\ CopyInv' /\ TypeOK'
    BY CopyInductive DEF CountInv, CopyInv, LossInv
  <2> QED BY <2>1, CountInductive DEF CountInv
<1>3. CountInv => CountersFollowRaw
  <2> SUFFICES ASSUME CountInv, NEW e \in Events
               PROVE  /\ tallied[e] <= counted[e]
                      /\ counted[e] <= rawCopies[e]
                      /\ rawCopies[e] <= tallied[e] + runCrashes + (IF AggRunning THEN 1 ELSE 0)
    BY DEF CountersFollowRaw
  <2>1. CountsOf(e) /\ (aggPc = "idle" => appended = {})
    BY DEF CountInv, CopyInv, AppendedFromBatch
  <2>2. /\ rawCopies[e] \in Nat /\ counted[e] \in Nat /\ tallied[e] \in Nat /\ runCrashes \in Nat
    BY DEF CountInv, CopyInv, LossInv, TypeOK
  <2> QED BY <2>1, <2>2 DEF CountsOf, One, AggRunning
<1> QED
  BY <1>1, <1>2, <1>3, PTL DEF Spec
=============================================================================
