---------------------------- MODULE GitSync_proofs ----------------------------
(***************************************************************************)
(* Proofs about GitSync, for any number of clones, batches, failures and   *)
(* killed syncs: nothing is lost, nothing unpushed is trimmed, the remote  *)
(* only grows, a stopped rebase is final, no HEAD moves off a batch that   *)
(* was not pushed, and a node alone on its repository keeps its newest     *)
(* event days.                                                             *)
(***************************************************************************)
EXTENDS GitSync, SequenceTheorems, FiniteSetTheorems, TLAPS

-----------------------------------------------------------------------------
(* Histories                                                               *)

\* An ancestor is a prefix, element by element.
LEMMA AncestorByElement ==
  ASSUME NEW h \in Seq(Commit), NEW k \in Seq(Commit)
  PROVE  IsAncestor(h, k) <=> Len(h) <= Len(k) /\ \A i \in 1..Len(h) : k[i] = h[i]
<1> SUFFICES ASSUME Len(h) <= Len(k)
             PROVE  SubSeq(k, 1, Len(h)) = h <=> \A i \in 1..Len(h) : k[i] = h[i]
  BY DEF IsAncestor
<1> DEFINE p == SubSeq(k, 1, Len(h))
<1>1. /\ p \in Seq(Commit)
      /\ Len(p) = Len(h)
      /\ \A i \in 1..Len(h) : p[i] = k[i]
  <2>1. \A i \in 1..Len(h) : k[i] \in Commit
    BY ElementOfSeq
  <2>2. Len(h) \in Nat
    OBVIOUS
  <2> QED BY <2>1, <2>2, SubSeqProperties
<1> HIDE DEF p
<1>2. (\A i \in 1..Len(h) : k[i] = h[i]) => p = h
  BY <1>1, SeqEqual
<1>3. p = h => \A i \in 1..Len(h) : k[i] = h[i]
  BY <1>1
<1> QED BY <1>2, <1>3 DEF p

LEMMA AncestorReflexive ==
  ASSUME NEW h \in Seq(Commit) PROVE IsAncestor(h, h)
  BY AncestorByElement

LEMMA AncestorTransitive ==
  ASSUME NEW h \in Seq(Commit), NEW k \in Seq(Commit), NEW l \in Seq(Commit),
         IsAncestor(h, k), IsAncestor(k, l)
  PROVE  IsAncestor(h, l)
<1>1. Len(h) <= Len(k) /\ \A i \in 1..Len(h) : k[i] = h[i]
  BY AncestorByElement
<1>2. Len(k) <= Len(l) /\ \A i \in 1..Len(k) : l[i] = k[i]
  BY AncestorByElement
<1>3. Len(h) <= Len(l) /\ \A i \in 1..Len(h) : l[i] = h[i]
  BY <1>1, <1>2
<1> QED BY <1>3, AncestorByElement

\* What an ancestor has recorded is in every history that continues it.
LEMMA RecordedGrows ==
  ASSUME NEW h \in Seq(Commit), NEW k \in Seq(Commit), IsAncestor(h, k)
  PROVE  Recorded(h) \subseteq Recorded(k)
<1>1. Len(h) <= Len(k) /\ \A i \in 1..Len(h) : k[i] = h[i]
  BY AncestorByElement
<1> SUFFICES ASSUME NEW b \in Recorded(h) PROVE b \in Recorded(k)
  OBVIOUS
<1>2. PICK i \in DOMAIN h : b \in h[i].adds
  BY DEF Recorded
<1>3. i \in DOMAIN k /\ k[i] = h[i]
  BY <1>1
<1> QED BY <1>2, <1>3 DEF Recorded

\* The tree of a history has only batches, and only recorded ones.
LEMMA ContentRecorded ==
  ASSUME NEW h \in Seq(Commit)
  PROVE  Content(h) \subseteq Batches /\ Content(h) \subseteq Recorded(h)
<1>1. Content(h) \subseteq Batches
  BY DEF Content
<1>2. ASSUME NEW b \in Content(h) PROVE b \in Recorded(h)
  <2>1. PICK i \in DOMAIN h : b \in h[i].adds
    BY DEF Content
  <2> QED BY <2>1 DEF Recorded
<1> QED BY <1>1, <1>2

\* History h continued by the commit that brings it to tree t.
Committed(h, t) == Append(h, [adds |-> t \ Content(h), deletes |-> Content(h) \ t])

\* Appending what brings HEAD to t makes t the tree, and forgets nothing.
LEMMA CommitFact ==
  ASSUME NEW h \in Seq(Commit), NEW t \in SUBSET Batches
  PROVE  /\ Committed(h, t) \in Seq(Commit)
         /\ Content(Committed(h, t)) = t
         /\ Recorded(h) \subseteq Recorded(Committed(h, t))
         /\ IsAncestor(h, Committed(h, t))
<1> DEFINE k == Committed(h, t)
           c == [adds |-> t \ Content(h), deletes |-> Content(h) \ t]
<1>1. c \in Commit
  BY ContentRecorded DEF Commit
<1>2. k \in Seq(Commit) /\ Len(k) = Len(h) + 1 /\ k[Len(h) + 1] = c
      /\ \A i \in 1..Len(h) : k[i] = h[i]
  BY <1>1 DEF Committed
<1> HIDE DEF k
<1>3. IsAncestor(h, k)
  <2>1. Len(h) <= Len(k) /\ \A i \in 1..Len(h) : k[i] = h[i]
    BY <1>2
  <2> QED BY <2>1, <1>2, AncestorByElement
<1>4. Recorded(h) \subseteq Recorded(k)
  BY <1>2, <1>3, RecordedGrows
<1>5. c.adds = t \ Content(h) /\ c.deletes = Content(h) \ t
  OBVIOUS
<1> HIDE DEF c
<1>6. DOMAIN h = 1..Len(h) /\ DOMAIN k = 1..(Len(h) + 1) /\ Len(h) \in Nat
  BY <1>2
<1>7. ASSUME NEW b \in t PROVE b \in Content(k)
  <2>1. CASE b \in Content(h)
    <3>1. PICK i \in DOMAIN h : b \in h[i].adds /\ \A j \in DOMAIN h : j > i => b \notin h[j].deletes
      BY <2>1 DEF Content
    <3>2. \A j \in DOMAIN k : j > i => b \notin k[j].deletes
      <4> SUFFICES ASSUME NEW j \in DOMAIN k, j > i PROVE b \notin k[j].deletes
        OBVIOUS
      <4>1. CASE j = Len(h) + 1
        BY <4>1, <1>2, <1>5
      <4>2. CASE j \in DOMAIN h
        BY <4>2, <3>1, <1>2, <1>6
      <4> QED BY <4>1, <4>2, <1>6
    <3>3. i \in DOMAIN k /\ b \in k[i].adds
      BY <3>1, <1>2, <1>6
    <3> QED BY <3>2, <3>3 DEF Content
  <2>2. CASE b \notin Content(h)
    <3>1. Len(h) + 1 \in DOMAIN k /\ b \in k[Len(h) + 1].adds
      BY <2>2, <1>2, <1>5, <1>6
    <3>2. \A j \in DOMAIN k : ~(j > Len(h) + 1)
      BY <1>6
    <3> QED BY <3>1, <3>2 DEF Content
  <2> QED BY <2>1, <2>2
<1>8. ASSUME NEW b \in Content(k) PROVE b \in t
  <2>1. PICK i \in DOMAIN k : b \in k[i].adds /\ \A j \in DOMAIN k : j > i => b \notin k[j].deletes
    BY DEF Content
  <2>2. CASE i = Len(h) + 1
    BY <2>1, <2>2, <1>2, <1>5
  <2>3. CASE i \in DOMAIN h
    <3>1. b \notin c.deletes
      BY <2>1, <2>3, <1>2, <1>6
    <3>2. b \in Content(h)
      <4>1. b \in h[i].adds /\ \A j \in DOMAIN h : j > i => b \notin h[j].deletes
        BY <2>1, <2>3, <1>2, <1>6
      <4> QED BY <2>3, <4>1 DEF Content
    <3> QED BY <3>1, <3>2, <1>5
  <2> QED BY <2>1, <2>2, <2>3, <1>6
<1>9. Content(k) = t
  BY <1>7, <1>8
<1> QED BY <1>2, <1>3, <1>4, <1>9 DEF k

-----------------------------------------------------------------------------
(* Types                                                                   *)

LEMMA TypeInit == Init => TypeOK
<1> SUFFICES ASSUME Init PROVE TypeOK
  OBVIOUS
<1>1. <<>> \in Seq(Commit)
  OBVIOUS
<1>2. [n \in Nodes |-> "idle"] \in [Nodes -> Pcs]
  BY DEF Pcs
<1>3. 0 \in 0..MaxBatches
  BY BoundsAssumption
<1> QED BY <1>1, <1>2, <1>3 DEF Init, TypeOK

\* A commit, or none, leaves HEAD, main and tree well typed, forgets nothing,
\* and brings HEAD to the tree unless there is a lock.
LEMMA CommitTreeFact ==
  ASSUME TypeOK, NEW n \in Nodes, CommitTree(n)
  PROVE  /\ head' \in [Nodes -> Seq(Commit)]
         /\ main' \in [Nodes -> Seq(Commit)]
         /\ \A m \in Nodes \ {n} : head'[m] = head[m] /\ main'[m] = main[m]
         /\ Recorded(head[n]) \subseteq Recorded(head'[n])
         /\ ~lock[n] => Content(head'[n]) = tree[n]
         /\ rebasing[n] => main'[n] = main[n]
         /\ ~rebasing[n] /\ head[n] = main[n] =>
              head'[n] = main'[n] /\ Recorded(main[n]) \subseteq Recorded(main'[n])
<1> DEFINE adds == tree[n] \ Content(head[n])
           deletes == Content(head[n]) \ tree[n]
<1>1. CASE lock[n] \/ adds \union deletes = {}
  <2>1. UNCHANGED <<head, main>>
    BY <1>1 DEF CommitTree
  <2>2. ~lock[n] => Content(head[n]) = tree[n]
    BY <1>1
  <2> QED BY <2>1, <2>2 DEF TypeOK
<1>2. CASE ~(lock[n] \/ adds \union deletes = {})
  <2> DEFINE k == Committed(head[n], tree[n])
  <2>1. MoveHead(n, k)
    BY <1>2 DEF CommitTree, Committed
  <2>2. tree[n] \in SUBSET Batches /\ head[n] \in Seq(Commit)
    BY DEF TypeOK
  <2>3. /\ k \in Seq(Commit)
        /\ Content(k) = tree[n]
        /\ Recorded(head[n]) \subseteq Recorded(k)
    BY <2>2, CommitFact
  <2> HIDE DEF k
  <2> QED BY <2>1, <2>3 DEF MoveHead, TypeOK
<1> QED BY <1>1, <1>2

\* Every step of a sync keeps every variable in its type.
LEMMA TypeInductive == TypeOK /\ [Next]_vars => TypeOK'
<1> SUFFICES ASSUME TypeOK, [Next]_vars PROVE TypeOK'
  OBVIOUS
<1>0. CASE UNCHANGED vars
  BY <1>0 DEF TypeOK, vars, repoVars, faultVars
<1>n. ASSUME NEW n \in Nodes, SyncStep(n) \/ Crash(n) PROVE TypeOK'
  <2> USE DEF Goto, NetFails, repoVars, faultVars, Pcs
  <2>c. /\ remote \in Seq(Commit) /\ Content(remote) \subseteq Batches
        /\ main[n] \in Seq(Commit)
    BY ContentRecorded DEF TypeOK
  <2>1. CASE Aggregate(n)
    <3>1. CASE UNCHANGED <<produced, tree>>
      BY <2>1, <3>1 DEF Aggregate, TypeOK
    <3>2. CASE /\ produced[n] < MaxBatches
               /\ produced' = [produced EXCEPT ![n] = @ + 1]
               /\ tree' = [tree EXCEPT ![n] = @ \union {<<n, produced[n] + 1>>}]
      <4>1. produced[n] + 1 \in Days /\ produced[n] + 1 \in 0..MaxBatches
        BY <3>2, BoundsAssumption DEF TypeOK, Days
      <4>2. <<n, produced[n] + 1>> \in Batches
        BY <4>1 DEF Batches
      <4> QED BY <2>1, <3>2, <4>1, <4>2 DEF Aggregate, TypeOK
    <3> QED BY <2>1, <3>1, <3>2 DEF Aggregate
  <2>2. CASE AddAndCommit(n)
    BY <2>2, CommitTreeFact DEF AddAndCommit, TypeOK
  <2>3. CASE Pull(n)
    <3>1. CASE NothingPulled(n)
      BY <2>3, <3>1 DEF Pull, NothingPulled, TypeOK
    <3>2. CASE FastForward(n)
      BY <2>3, <3>2, <2>c DEF Pull, FastForward, MoveHead, TypeOK
    <3>3. CASE RebaseStops(n)
      <4>1. PICK own \in DOMAIN main[n] :
              tree' = [tree EXCEPT ![n] =
                (Content(remote) \union main[n][own].adds) \ main[n][own].deletes]
        BY <3>3 DEF RebaseStops
      <4>2. main[n][own] \in Commit
        BY <2>c, ElementOfSeq
      <4>3. (Content(remote) \union main[n][own].adds) \ main[n][own].deletes \in SUBSET Batches
        BY <2>c, <4>2 DEF Commit
      <4>4. tree' \in [Nodes -> SUBSET Batches]
        BY <4>1, <4>3 DEF TypeOK
      <4> QED BY <2>3, <3>3, <4>4 DEF Pull, RebaseStops, TypeOK
    <3> QED BY <2>3, <3>1, <3>2, <3>3 DEF Pull
  <2>4. CASE PullFails(n)
    BY <2>4 DEF PullFails, TypeOK
  <2>5. CASE Push(n)
    BY <2>5, <2>c DEF Push, TypeOK
  <2>6. CASE PushRejected(n)
    BY <2>6 DEF PushRejected, TypeOK
  <2>7. CASE PushFails(n)
    BY <2>7, <2>c DEF PushFails, TypeOK
  <2>8. CASE Shallow(n)
    BY <2>8, <2>c DEF Shallow, MoveHead, TypeOK
  <2>9. CASE SkipShallow(n)
    BY <2>9 DEF SkipShallow, TypeOK
  <2>10. CASE Trim(n)
    <3>1. PICK d \in Deletable(n) : tree' = [tree EXCEPT ![n] = {b \in @ : DayOf(b) > d}]
      BY <2>10 DEF Trim
    <3> QED BY <2>10, <3>1 DEF Trim, TypeOK
  <2>11. CASE SkipTrim(n)
    BY <2>11 DEF SkipTrim, TypeOK
  <2>12. CASE TrimCommit(n)
    BY <2>12, CommitTreeFact DEF TrimCommit, TypeOK
  <2>13. CASE TrimPush(n)
    BY <2>13, <2>c DEF TrimPush, TypeOK
  <2>14. CASE Crash(n)
    <3>1. lock' = lock \/ lock' = [lock EXCEPT ![n] = TRUE]
      BY <2>14 DEF Crash
    <3>2. lock' \in [Nodes -> BOOLEAN]
      BY <3>1 DEF TypeOK
    <3>3. /\ crashes' = crashes + 1 /\ pc' = [pc EXCEPT ![n] = "idle"]
          /\ UNCHANGED <<remote, main, rebasing, head, tree, netFailures, produced>>
      BY <2>14 DEF Crash
    <3> QED BY <3>2, <3>3 DEF TypeOK
  <2> QED
    BY <1>n, <2>1, <2>2, <2>3, <2>4, <2>5, <2>6, <2>7, <2>8, <2>9, <2>10, <2>11, <2>12,
       <2>13, <2>14 DEF SyncStep
<1> QED BY <1>0, <1>n DEF Next

\* Every state of the clones and the remote is well typed.
THEOREM TypeCorrect == Spec => []TypeOK
<1> QED BY TypeInit, TypeInductive, PTL DEF Spec

-----------------------------------------------------------------------------
(* The remote                                                              *)

\* What each step does to the remote: nothing, or an accepted push.
LEMMA RemoteStep ==
  ASSUME TypeOK, NEW n \in Nodes, SyncStep(n) \/ Crash(n)
  PROVE  remote' = remote \/ (PushAccepted(n) /\ remote' = main[n])
<1> USE DEF repoVars
<1>1. CASE Aggregate(n)
  BY <1>1 DEF Aggregate
<1>2. CASE AddAndCommit(n)
  BY <1>2 DEF AddAndCommit
<1>3. CASE Pull(n)
  BY <1>3 DEF Pull
<1>4. CASE PullFails(n)
  BY <1>4 DEF PullFails
<1>5. CASE Push(n)
  BY <1>5 DEF Push
<1>6. CASE PushRejected(n)
  BY <1>6 DEF PushRejected
<1>7. CASE PushFails(n)
  BY <1>7 DEF PushFails
<1>8. CASE Shallow(n) \/ SkipShallow(n)
  BY <1>8 DEF Shallow, SkipShallow
<1>9. CASE Trim(n) \/ SkipTrim(n)
  BY <1>9 DEF Trim, SkipTrim
<1>10. CASE TrimCommit(n) \/ TrimPush(n)
  BY <1>10 DEF TrimCommit, TrimPush
<1>11. CASE Crash(n)
  BY <1>11 DEF Crash
<1> QED
  BY <1>1, <1>2, <1>3, <1>4, <1>5, <1>6, <1>7, <1>8, <1>9, <1>10, <1>11 DEF SyncStep

\* Every step continues the remote's history.
LEMMA RemoteContinues == TypeOK /\ [Next]_vars => IsAncestor(remote, remote')
<1> SUFFICES ASSUME TypeOK, [Next]_vars PROVE IsAncestor(remote, remote')
  OBVIOUS
<1>1. IsAncestor(remote, remote)
  BY AncestorReflexive DEF TypeOK
<1>2. CASE UNCHANGED vars
  BY <1>1, <1>2 DEF vars, repoVars
<1>3. ASSUME NEW n \in Nodes, SyncStep(n) \/ Crash(n) PROVE IsAncestor(remote, remote')
  BY <1>1, <1>3, RemoteStep DEF PushAccepted
<1> QED BY <1>2, <1>3 DEF Next

\* No clone ever rewrites what is in the remote, whatever fails.
THEOREM RemoteKept == Spec => RemoteOnlyGrows
<1>1. TypeOK /\ [Next]_vars => [IsAncestor(remote, remote')]_vars
  BY RemoteContinues
<1> QED BY <1>1, TypeInit, TypeInductive, PTL DEF Spec, RemoteOnlyGrows

-----------------------------------------------------------------------------
(* The invariant, clone by clone                                           *)

HeadAt(m) == ~rebasing[m] => head[m] = main[m]
FinalAt(m) == rebasing[m] => ~PushAccepted(m)
CleanAt(m) ==
    ~lock[m] => /\ pc[m] = "pull" => Clean(m)
                /\ pc[m] \in {"push", "shallow", "trim"} /\ ~rebasing[m] => Clean(m)
PushedAt(m) ==
    /\ pc[m] \in {"shallow", "trim", "trimcommit", "trimpush"} => ~rebasing[m]
    /\ pc[m] \in {"shallow", "trim"} => IsAncestor(main[m], remote)
KeptAt(m) ==
    lock[m] \/ Written(m) \subseteq tree[m] \union Recorded(main[m])
                                      \union Recorded(head[m]) \union Recorded(remote)
TrimmedAt(m) == lock[m] \/ rebasing[m] \/ Written(m) \ tree[m] \subseteq Recorded(remote)

CloneInv(m) ==
    HeadAt(m) /\ FinalAt(m) /\ CleanAt(m) /\ PushedAt(m) /\ KeptAt(m) /\ TrimmedAt(m)

LEMMA SyncInvByClone == SyncInv <=> TypeOK /\ \A m \in Nodes : CloneInv(m)
<1>1. HeadIsMain <=> \A m \in Nodes : HeadAt(m)
  BY DEF HeadIsMain, HeadAt
<1>2. StoppedRebaseIsFinal <=> \A m \in Nodes : FinalAt(m)
  BY DEF StoppedRebaseIsFinal, FinalAt
<1>3. CleanSinceCommit <=> \A m \in Nodes : CleanAt(m)
  BY DEF CleanSinceCommit, CleanAt
<1>4. MaintainedIsPushed <=> \A m \in Nodes : PushedAt(m)
  BY DEF MaintainedIsPushed, PushedAt
<1>5. NothingLostUnlessLocked <=> \A m \in Nodes : KeptAt(m)
  BY DEF NothingLostUnlessLocked, KeptAt
<1>6. TrimmedIsPushed <=> \A m \in Nodes : TrimmedAt(m)
  BY DEF TrimmedIsPushed, TrimmedAt
<1> QED BY <1>1, <1>2, <1>3, <1>4, <1>5, <1>6 DEF SyncInv, CloneInv

\* A clone whose repository stays as it is, while the remote grows, keeps its
\* invariant if its new place in the sync allows it.
LEMMA Steady ==
  ASSUME TypeOK, TypeOK', NEW m \in Nodes, CloneInv(m),
         IsAncestor(remote, remote'),
         main'[m] = main[m], rebasing'[m] = rebasing[m], head'[m] = head[m],
         tree'[m] = tree[m], produced'[m] = produced[m], lock[m] => lock'[m],
         CleanAt(m)', PushedAt(m)'
  PROVE  CloneInv(m)'
<1>1. /\ remote \in Seq(Commit) /\ remote' \in Seq(Commit)
      /\ main[m] \in Seq(Commit)
  BY DEF TypeOK
<1>2. Recorded(remote) \subseteq Recorded(remote')
  BY <1>1, RecordedGrows
<1>3. HeadAt(m)'
  BY DEF CloneInv, HeadAt
<1>4. FinalAt(m)'
  <2>1. IsAncestor(remote', main[m]) => IsAncestor(remote, main[m])
    BY <1>1, AncestorTransitive
  <2> QED BY <2>1 DEF CloneInv, FinalAt, PushAccepted
<1>5. Written(m)' = Written(m)
  BY DEF Written
<1>6. KeptAt(m)'
  BY <1>2, <1>5 DEF CloneInv, KeptAt
<1>7. TrimmedAt(m)'
  BY <1>2, <1>5 DEF CloneInv, TrimmedAt
<1> QED BY <1>3, <1>4, <1>6, <1>7 DEF CloneInv

\* A clean clone whose main is in the remote has everything in the remote.
LEMMA AllPushed ==
  ASSUME TypeOK, NEW n \in Nodes, CloneInv(n), ~lock[n], ~rebasing[n], Clean(n),
         IsAncestor(main[n], remote)
  PROVE  Written(n) \subseteq Recorded(remote)
<1>1. remote \in Seq(Commit) /\ main[n] \in Seq(Commit) /\ head[n] = main[n]
  BY DEF TypeOK, CloneInv, HeadAt
<1>2. Recorded(main[n]) \subseteq Recorded(remote)
  BY <1>1, RecordedGrows
<1>3. tree[n] \subseteq Recorded(main[n])
  BY <1>1, ContentRecorded DEF Clean
<1> QED BY <1>1, <1>2, <1>3 DEF CloneInv, KeptAt

-----------------------------------------------------------------------------
(* One lemma per kind of step: the clone that takes it keeps its invariant *)

LEMMA AggregateKeeps ==
  ASSUME TypeOK, NEW n \in Nodes, CloneInv(n), Aggregate(n) PROVE CloneInv(n)'
<1>1. /\ pc'[n] = "commit" /\ tree[n] \subseteq tree'[n]
      /\ Written(n)' \ Written(n) \subseteq tree'[n]
  <2>1. pc'[n] = "commit"
    BY DEF Aggregate, Goto, TypeOK
  <2>2. CASE UNCHANGED <<produced, tree>>
    BY <2>1, <2>2 DEF Written
  <2>3. CASE /\ produced' = [produced EXCEPT ![n] = @ + 1]
             /\ tree' = [tree EXCEPT ![n] = @ \union {<<n, produced[n] + 1>>}]
    <3>1. /\ produced'[n] = produced[n] + 1 /\ produced[n] \in Nat
          /\ tree'[n] = tree[n] \union {<<n, produced[n] + 1>>}
      BY <2>3 DEF TypeOK
    <3>2. \A k \in 1..(produced[n] + 1) : k \in 1..produced[n] \/ k = produced[n] + 1
      BY <3>1
    <3>3. Written(n)' \subseteq Written(n) \union {<<n, produced[n] + 1>>}
      BY <3>1, <3>2 DEF Written
    <3> QED BY <2>1, <3>1, <3>3
  <2> QED BY <2>2, <2>3 DEF Aggregate
<1>2. UNCHANGED <<remote, main, rebasing, head, lock>>
  BY DEF Aggregate
<1>3. HeadAt(n)' /\ FinalAt(n)'
  BY <1>2 DEF CloneInv, HeadAt, FinalAt, PushAccepted
<1>4. CleanAt(n)' /\ PushedAt(n)'
  BY <1>1 DEF CleanAt, PushedAt
<1>5. KeptAt(n)'
  BY <1>1, <1>2 DEF CloneInv, KeptAt
<1>6. TrimmedAt(n)'
  BY <1>1, <1>2 DEF CloneInv, TrimmedAt
<1> QED BY <1>3, <1>4, <1>5, <1>6 DEF CloneInv

\* Both commits of a sync: what follows is the pull or the push of the trim.
LEMMA CommitKeeps ==
  ASSUME TypeOK, NEW n \in Nodes, CloneInv(n), CommitTree(n),
         UNCHANGED <<remote, rebasing, tree, lock, produced>>,
         pc'[n] = "pull" \/ (pc'[n] = "trimpush" /\ ~rebasing[n])
  PROVE  CloneInv(n)'
<1>1. /\ Recorded(head[n]) \subseteq Recorded(head'[n])
      /\ ~lock[n] => Content(head'[n]) = tree[n]
      /\ rebasing[n] => main'[n] = main[n]
      /\ ~rebasing[n] => head'[n] = main'[n] /\ Recorded(main[n]) \subseteq Recorded(main'[n])
  BY CommitTreeFact DEF CloneInv, HeadAt
<1>2. Written(n)' = Written(n)
  BY DEF Written
<1>3. HeadAt(n)'
  BY <1>1 DEF HeadAt
<1>4. FinalAt(n)'
  BY <1>1 DEF CloneInv, FinalAt, PushAccepted
<1>5. CleanAt(n)' /\ PushedAt(n)'
  BY <1>1 DEF CleanAt, PushedAt, Clean
<1>6. KeptAt(n)'
  <2>1. Recorded(main[n]) \subseteq Recorded(main'[n])
    BY <1>1
  <2> QED BY <1>1, <1>2, <2>1 DEF CloneInv, KeptAt
<1>7. TrimmedAt(n)'
  BY <1>2 DEF CloneInv, TrimmedAt
<1> QED BY <1>3, <1>4, <1>5, <1>6, <1>7 DEF CloneInv

\* A clean clone that moves to the remote's history: fast-forward and reset.
LEMMA MoveKeeps ==
  ASSUME TypeOK, NEW n \in Nodes, CloneInv(n), Clean(n), ~lock[n], ~rebasing[n],
         IsAncestor(main[n], remote), MoveHead(n, remote),
         tree' = [tree EXCEPT ![n] = Content(remote)],
         UNCHANGED <<remote, rebasing, lock, produced>>,
         pc'[n] \in {"push", "trim"}
  PROVE  CloneInv(n)'
<1>1. Written(n) \subseteq Recorded(remote)
  BY AllPushed
<1>2. Written(n)' = Written(n)
  BY DEF Written
<1>3. head'[n] = remote /\ main'[n] = remote /\ tree'[n] = Content(remote)
  BY DEF MoveHead, TypeOK
<1>4. HeadAt(n)' /\ FinalAt(n)'
  BY <1>3 DEF HeadAt, FinalAt
<1>5. CleanAt(n)'
  BY <1>3 DEF CleanAt, Clean
<1>6. PushedAt(n)'
  BY <1>3, AncestorReflexive DEF PushedAt, TypeOK
<1>7. KeptAt(n)' /\ TrimmedAt(n)'
  BY <1>1, <1>2 DEF KeptAt, TrimmedAt
<1> QED BY <1>4, <1>5, <1>6, <1>7 DEF CloneInv

LEMMA PullKeeps ==
  ASSUME TypeOK, TypeOK', NEW n \in Nodes, CloneInv(n), Pull(n) PROVE CloneInv(n)'
<1>1. /\ pc[n] = "pull" /\ pc'[n] = "push"
      /\ UNCHANGED <<remote, lock, produced>>
  BY DEF Pull, Goto, TypeOK
<1>2. ~lock[n] => Clean(n)
  BY <1>1 DEF CloneInv, CleanAt
<1>3. CASE NothingPulled(n)
  <2>1. UNCHANGED <<main, rebasing, head, tree>>
    BY <1>3 DEF NothingPulled
  <2>2. CleanAt(n)' /\ PushedAt(n)'
    BY <1>1, <1>2, <2>1 DEF CleanAt, PushedAt, Clean
  <2>3. IsAncestor(remote, remote')
    BY <1>1, AncestorReflexive DEF TypeOK
  <2> QED BY <1>1, <2>1, <2>2, <2>3, Steady
<1>4. CASE FastForward(n)
  BY <1>1, <1>2, <1>4, MoveKeeps DEF FastForward
<1>5. CASE RebaseStops(n)
  <2>1. /\ ~lock[n] /\ ~rebasing[n] /\ rebasing'[n]
        /\ ~IsAncestor(remote, main[n])
        /\ UNCHANGED main
    BY <1>5 DEF RebaseStops, TypeOK
  <2>2. HeadAt(n)' /\ FinalAt(n)' /\ TrimmedAt(n)'
    BY <1>1, <2>1 DEF HeadAt, FinalAt, TrimmedAt, PushAccepted
  <2>3. CleanAt(n)' /\ PushedAt(n)'
    BY <1>1, <2>1 DEF CleanAt, PushedAt
  <2>4. KeptAt(n)'
    <3>1. head[n] = main[n] /\ main[n] \in Seq(Commit)
      BY <2>1 DEF CloneInv, HeadAt, TypeOK
    <3>2. tree[n] \subseteq Recorded(main[n])
      BY <1>2, <2>1, <3>1, ContentRecorded DEF Clean
    <3>3. Written(n)' = Written(n)
      BY <1>1 DEF Written
    <3> QED BY <1>1, <2>1, <3>1, <3>2, <3>3 DEF CloneInv, KeptAt
  <2> QED BY <2>2, <2>3, <2>4 DEF CloneInv
<1> QED BY <1>3, <1>4, <1>5 DEF Pull

LEMMA TrimKeeps ==
  ASSUME TypeOK, NEW n \in Nodes, CloneInv(n), Trim(n) PROVE CloneInv(n)'
<1>1. /\ pc[n] = "trim" /\ pc'[n] = "trimcommit"
      /\ UNCHANGED <<remote, main, rebasing, head, lock, produced>>
  BY DEF Trim, Goto, TypeOK, faultVars
<1>2. ~rebasing[n] /\ IsAncestor(main[n], remote) /\ (~lock[n] => Clean(n))
  BY <1>1 DEF CloneInv, PushedAt, CleanAt
<1>3. Written(n)' = Written(n)
  BY <1>1 DEF Written
<1>4. ~lock[n] => Written(n) \subseteq Recorded(remote)
  BY <1>2, AllPushed
<1>5. HeadAt(n)' /\ FinalAt(n)'
  BY <1>1 DEF CloneInv, HeadAt, FinalAt, PushAccepted
<1>6. CleanAt(n)' /\ PushedAt(n)'
  BY <1>1, <1>2 DEF CleanAt, PushedAt
<1>7. KeptAt(n)' /\ TrimmedAt(n)'
  BY <1>1, <1>3, <1>4 DEF KeptAt, TrimmedAt
<1> QED BY <1>5, <1>6, <1>7 DEF CloneInv

\* The steps that leave the clone's repository alone and move on, push or stop.
LEMMA PlainStepKeeps ==
  ASSUME TypeOK, TypeOK', NEW n \in Nodes, CloneInv(n), IsAncestor(remote, remote'),
         \/ PullFails(n) \/ Push(n) \/ PushRejected(n) \/ PushFails(n)
         \/ SkipShallow(n) \/ SkipTrim(n) \/ TrimPush(n) \/ Crash(n)
  PROVE  CloneInv(n)'
<1> USE DEF Goto, repoVars, faultVars
<1>1. /\ UNCHANGED <<main, rebasing, head, tree, produced>>
      /\ lock[n] => lock'[n]
  <2>1. CASE Crash(n)
    <3>1. lock' = lock \/ lock' = [lock EXCEPT ![n] = TRUE]
      BY <2>1 DEF Crash
    <3>2. lock[n] => lock'[n]
      BY <3>1 DEF TypeOK
    <3> QED BY <2>1, <3>2 DEF Crash
  <2>2. CASE PullFails(n) \/ Push(n) \/ PushRejected(n) \/ PushFails(n)
    BY <2>2 DEF PullFails, Push, PushRejected, PushFails
  <2>3. CASE SkipShallow(n) \/ SkipTrim(n) \/ TrimPush(n)
    BY <2>3 DEF SkipShallow, SkipTrim, TrimPush
  <2> QED BY <2>1, <2>2, <2>3
<1>2. Clean(n)' <=> Clean(n)
  BY <1>1 DEF Clean
<1>3. CleanAt(n)' /\ PushedAt(n)'
  <2>1. CASE PullFails(n)
    <3>1. pc[n] = "pull" /\ pc'[n] = "push" /\ lock' = lock
      BY <2>1 DEF PullFails, TypeOK
    <3> QED BY <1>1, <1>2, <3>1 DEF CloneInv, CleanAt, PushedAt
  <2>2. CASE Push(n)
    <3>1. /\ pc[n] = "push" /\ pc'[n] = "shallow" /\ lock' = lock
          /\ remote' = main[n] /\ PushAccepted(n)
      BY <2>2 DEF Push, TypeOK
    <3>2. ~rebasing[n]
      BY <3>1 DEF CloneInv, FinalAt
    <3>3. IsAncestor(main[n], main[n])
      BY AncestorReflexive DEF TypeOK
    <3> QED BY <1>1, <1>2, <3>1, <3>2, <3>3 DEF CloneInv, CleanAt, PushedAt
  <2>3. CASE SkipShallow(n)
    <3>1. pc[n] = "shallow" /\ pc'[n] = "trim" /\ lock' = lock /\ remote' = remote
      BY <2>3 DEF SkipShallow, TypeOK
    <3> QED BY <1>1, <1>2, <3>1 DEF CloneInv, CleanAt, PushedAt
  <2>4. CASE PushRejected(n) \/ PushFails(n) \/ SkipTrim(n) \/ TrimPush(n) \/ Crash(n)
    <3>1. pc'[n] = "idle"
      BY <2>4 DEF PushRejected, PushFails, SkipTrim, TrimPush, Crash, TypeOK
    <3> QED BY <3>1 DEF CleanAt, PushedAt
  <2> QED BY <2>1, <2>2, <2>3, <2>4
<1> QED BY <1>1, <1>3, Steady

LEMMA ActorKeeps ==
  ASSUME TypeOK, TypeOK', NEW n \in Nodes, CloneInv(n), IsAncestor(remote, remote'),
         SyncStep(n) \/ Crash(n)
  PROVE  CloneInv(n)'
<1>1. CASE Aggregate(n)
  BY <1>1, AggregateKeeps
<1>2. CASE AddAndCommit(n)
  <2>1. /\ CommitTree(n) /\ pc'[n] = "pull"
        /\ UNCHANGED <<remote, rebasing, tree, lock, produced>>
    BY <1>2 DEF AddAndCommit, Goto, TypeOK
  <2> QED BY <2>1, CommitKeeps
<1>3. CASE Pull(n)
  BY <1>3, PullKeeps
<1>4. CASE Shallow(n)
  <2>1. pc[n] = "shallow" /\ pc'[n] = "trim"
    BY <1>4 DEF Shallow, Goto, TypeOK
  <2>2. ~rebasing[n] /\ IsAncestor(main[n], remote)
    BY <2>1 DEF CloneInv, PushedAt
  <2> QED BY <1>4, <2>1, <2>2, MoveKeeps DEF Shallow
<1>5. CASE Trim(n)
  BY <1>5, TrimKeeps
<1>6. CASE TrimCommit(n)
  <2>1. /\ CommitTree(n) /\ pc[n] = "trimcommit" /\ pc'[n] = "trimpush"
        /\ UNCHANGED <<remote, rebasing, tree, lock, produced>>
    BY <1>6 DEF TrimCommit, Goto, TypeOK
  <2>2. ~rebasing[n]
    BY <2>1 DEF CloneInv, PushedAt
  <2> QED BY <2>1, <2>2, CommitKeeps
<1> QED
  BY <1>1, <1>2, <1>3, <1>4, <1>5, <1>6, PlainStepKeeps DEF SyncStep

\* The other clones see nothing of a step but the remote.
LEMMA OtherKeeps ==
  ASSUME TypeOK, TypeOK', NEW n \in Nodes, NEW m \in Nodes, m # n, CloneInv(m),
         IsAncestor(remote, remote'), SyncStep(n) \/ Crash(n)
  PROVE  CloneInv(m)'
<1> USE DEF Goto, repoVars, faultVars
<1>1. /\ main'[m] = main[m] /\ rebasing'[m] = rebasing[m] /\ head'[m] = head[m]
      /\ tree'[m] = tree[m] /\ lock'[m] = lock[m] /\ pc'[m] = pc[m]
      /\ produced'[m] = produced[m]
  <2>1. CASE Aggregate(n)
    <3>1. produced'[m] = produced[m] /\ tree'[m] = tree[m]
      BY <2>1 DEF Aggregate, TypeOK
    <3> QED BY <2>1, <3>1 DEF Aggregate, TypeOK
  <2>2. CASE AddAndCommit(n)
    <3>1. head'[m] = head[m] /\ main'[m] = main[m]
      BY <2>2, CommitTreeFact DEF AddAndCommit
    <3> QED BY <2>2, <3>1 DEF AddAndCommit, TypeOK
  <2>3. CASE Pull(n)
    <3>1. main'[m] = main[m] /\ rebasing'[m] = rebasing[m]
          /\ head'[m] = head[m] /\ tree'[m] = tree[m]
      <4>1. CASE NothingPulled(n)
        BY <4>1 DEF NothingPulled
      <4>2. CASE FastForward(n)
        BY <4>2 DEF FastForward, MoveHead, TypeOK
      <4>3. CASE RebaseStops(n)
        BY <4>3 DEF RebaseStops, TypeOK
      <4> QED BY <2>3, <4>1, <4>2, <4>3 DEF Pull
    <3> QED BY <2>3, <3>1 DEF Pull, TypeOK
  <2>4. CASE PullFails(n) \/ Push(n) \/ PushRejected(n) \/ PushFails(n)
    BY <2>4 DEF PullFails, Push, PushRejected, PushFails, TypeOK
  <2>5. CASE Shallow(n)
    BY <2>5 DEF Shallow, MoveHead, TypeOK
  <2>6. CASE SkipShallow(n) \/ SkipTrim(n) \/ TrimPush(n)
    BY <2>6 DEF SkipShallow, SkipTrim, TrimPush, TypeOK
  <2>7. CASE Trim(n)
    <3>1. tree'[m] = tree[m]
      BY <2>7 DEF Trim, TypeOK
    <3> QED BY <2>7, <3>1 DEF Trim, TypeOK
  <2>8. CASE TrimCommit(n)
    <3>1. head'[m] = head[m] /\ main'[m] = main[m]
      BY <2>8, CommitTreeFact DEF TrimCommit
    <3> QED BY <2>8, <3>1 DEF TrimCommit, TypeOK
  <2>9. CASE Crash(n)
    <3>1. lock' = lock \/ lock' = [lock EXCEPT ![n] = TRUE]
      BY <2>9 DEF Crash
    <3>2. lock'[m] = lock[m]
      BY <3>1 DEF TypeOK
    <3> QED BY <2>9, <3>2 DEF Crash, TypeOK
  <2> QED
    BY <2>1, <2>2, <2>3, <2>4, <2>5, <2>6, <2>7, <2>8, <2>9 DEF SyncStep
<1>2. CleanAt(m)'
  BY <1>1 DEF CloneInv, CleanAt, Clean
<1>3. PushedAt(m)'
  <2>1. IsAncestor(main[m], remote) => IsAncestor(main[m], remote')
    BY AncestorTransitive DEF TypeOK
  <2> QED BY <1>1, <2>1 DEF CloneInv, PushedAt
<1> QED BY <1>1, <1>2, <1>3, Steady

-----------------------------------------------------------------------------
(* The theorems                                                            *)

LEMMA InvInit == Init => SyncInv
<1> SUFFICES ASSUME Init PROVE \A m \in Nodes : CloneInv(m)
  BY TypeInit, SyncInvByClone
<1> SUFFICES ASSUME NEW m \in Nodes PROVE CloneInv(m)
  OBVIOUS
<1>1. /\ head[m] = <<>> /\ main[m] = <<>> /\ ~rebasing[m] /\ pc[m] = "idle"
      /\ produced[m] = 0
  BY DEF Init
<1>2. Written(m) = {}
  BY <1>1 DEF Written
<1> QED BY <1>1, <1>2 DEF CloneInv, HeadAt, FinalAt, CleanAt, PushedAt, KeptAt, TrimmedAt

LEMMA InvInductive == SyncInv /\ [Next]_vars => SyncInv'
<1> SUFFICES ASSUME SyncInv, [Next]_vars PROVE SyncInv'
  OBVIOUS
<1>1. TypeOK /\ TypeOK' /\ IsAncestor(remote, remote') /\ \A m \in Nodes : CloneInv(m)
  BY SyncInvByClone, TypeInductive, RemoteContinues
<1>2. CASE UNCHANGED vars
  BY <1>2 DEF vars, repoVars, faultVars, SyncInv, TypeOK, HeadIsMain, StoppedRebaseIsFinal,
        PushAccepted, CleanSinceCommit, Clean, MaintainedIsPushed, NothingLostUnlessLocked,
        TrimmedIsPushed, Written
<1>3. ASSUME NEW n \in Nodes, SyncStep(n) \/ Crash(n) PROVE SyncInv'
  <2>1. \A m \in Nodes : CloneInv(m)'
    BY <1>1, <1>3, ActorKeeps, OtherKeeps
  <2>2. (TypeOK /\ \A m \in Nodes : CloneInv(m))' => SyncInv'
    BY SyncInvByClone, PTL
  <2> QED BY <1>1, <2>1, <2>2
<1> QED BY <1>2, <1>3 DEF Next

\* The sync's invariant, in every reachable state.
THEOREM InvCorrect == Spec => []SyncInv
<1> QED BY InvInit, InvInductive, PTL DEF Spec

\* A batch the aggregator wrote is in the tree or in a history, whatever fails
\* and wherever a sync is killed, unless its clone has a stale index lock.
THEOREM NothingLost == Spec => []NothingLostUnlessLocked
<1>1. SyncInv => NothingLostUnlessLocked
  BY DEF SyncInv
<1> QED BY <1>1, InvCorrect, PTL

\* maintain() trims only what the remote has, unless there is a stale lock.
THEOREM Trimmed == Spec => []TrimmedIsPushed
<1>1. SyncInv => TrimmedIsPushed
  BY DEF SyncInv
<1> QED BY <1>1, InvCorrect, PTL

\* Both together, as the runs check them.
THEOREM Kept == Spec => []BatchesKept
<1>1. NothingLostUnlessLocked /\ TrimmedIsPushed => BatchesKept
  BY DEF BatchesKept
<1> QED BY <1>1, NothingLost, Trimmed, PTL

\* After a stopped rebase no push of the clone is ever accepted.
THEOREM RebaseFinal == Spec => []StoppedRebaseIsFinal
<1>1. SyncInv => StoppedRebaseIsFinal
  BY DEF SyncInv
<1> QED BY <1>1, InvCorrect, PTL
-----------------------------------------------------------------------------
(* The reset                                                               *)

\* What one clone's HEAD has beyond the remote outlives a step, or is in the
\* hands of a rebase that this step stops.
DropsNothing(m) ==
    Recorded(head[m]) \ Recorded(remote) \subseteq Recorded(head'[m]) \/ rebasing'[m]

\* HEAD only moves to a commit on top of it, or, from a main that the remote
\* has, to the remote.
LEMMA HeadKeeps ==
  ASSUME TypeOK, NEW n \in Nodes, CloneInv(n), SyncStep(n) \/ Crash(n)
  PROVE  DropsNothing(n)
<1> USE DEF repoVars
<1>1. CASE AddAndCommit(n) \/ TrimCommit(n)
  <2>1. CommitTree(n)
    BY <1>1 DEF AddAndCommit, TrimCommit
  <2> QED BY <2>1, CommitTreeFact DEF DropsNothing
<1>2. ASSUME ~rebasing[n], IsAncestor(main[n], remote)
      PROVE  DropsNothing(n)
  <2>1. head[n] = main[n]
    BY <1>2 DEF CloneInv, HeadAt
  <2>2. main[n] \in Seq(Commit) /\ remote \in Seq(Commit)
    BY DEF TypeOK
  <2> QED BY <1>2, <2>1, <2>2, RecordedGrows DEF DropsNothing
<1>3. CASE Pull(n)
  <2>1. CASE NothingPulled(n)
    BY <2>1 DEF NothingPulled, DropsNothing
  <2>2. CASE FastForward(n)
    BY <1>2, <2>2 DEF FastForward
  <2>3. CASE RebaseStops(n)
    BY <2>3 DEF RebaseStops, TypeOK, DropsNothing
  <2> QED BY <1>3, <2>1, <2>2, <2>3 DEF Pull
<1>4. CASE Shallow(n)
  <2>1. pc[n] = "shallow"
    BY <1>4 DEF Shallow, Goto
  <2>2. ~rebasing[n] /\ IsAncestor(main[n], remote)
    BY <2>1 DEF CloneInv, PushedAt
  <2> QED BY <1>2, <2>2
<1>5. head' = head => DropsNothing(n)
  BY DEF DropsNothing
<1>6. CASE Aggregate(n) \/ PullFails(n) \/ Push(n) \/ PushRejected(n) \/ PushFails(n)
  BY <1>5, <1>6 DEF Aggregate, PullFails, Push, PushRejected, PushFails
<1>7. CASE SkipShallow(n) \/ Trim(n) \/ SkipTrim(n) \/ TrimPush(n) \/ Crash(n)
  BY <1>5, <1>7 DEF SkipShallow, Trim, SkipTrim, TrimPush, Crash
<1> QED BY <1>1, <1>3, <1>4, <1>6, <1>7 DEF SyncStep

\* No step moves the HEAD of a clone that does not take it.
LEMMA HeadOfOthers ==
  ASSUME TypeOK, NEW n \in Nodes, NEW m \in Nodes, m # n, SyncStep(n) \/ Crash(n)
  PROVE  head'[m] = head[m]
<1> USE DEF repoVars
<1>1. CASE AddAndCommit(n) \/ TrimCommit(n)
  <2>1. CommitTree(n)
    BY <1>1 DEF AddAndCommit, TrimCommit
  <2> QED BY <2>1, CommitTreeFact
<1>2. CASE Pull(n)
  BY <1>2 DEF Pull, NothingPulled, FastForward, RebaseStops, MoveHead, TypeOK
<1>3. CASE Shallow(n)
  BY <1>3 DEF Shallow, MoveHead, TypeOK
<1>4. CASE Aggregate(n) \/ PullFails(n) \/ Push(n) \/ PushRejected(n) \/ PushFails(n)
  BY <1>4 DEF Aggregate, PullFails, Push, PushRejected, PushFails
<1>5. CASE SkipShallow(n) \/ Trim(n) \/ SkipTrim(n) \/ TrimPush(n) \/ Crash(n)
  BY <1>5 DEF SkipShallow, Trim, SkipTrim, TrimPush, Crash
<1> QED BY <1>1, <1>2, <1>3, <1>4, <1>5 DEF SyncStep

LEMMA StepDropsNothing == SyncInv /\ [Next]_vars => \A m \in Nodes : DropsNothing(m)
<1> SUFFICES ASSUME SyncInv, [Next]_vars, NEW m \in Nodes PROVE DropsNothing(m)
  OBVIOUS
<1>1. TypeOK /\ CloneInv(m)
  BY SyncInvByClone
<1>2. CASE UNCHANGED vars
  BY <1>2 DEF vars, repoVars, DropsNothing
<1>3. ASSUME NEW n \in Nodes, SyncStep(n) \/ Crash(n) PROVE DropsNothing(m)
  <2>1. CASE m = n
    BY <1>1, <1>3, <2>1, HeadKeeps
  <2>2. CASE m # n
    BY <1>1, <1>3, <2>2, HeadOfOthers DEF DropsNothing
  <2> QED BY <2>1, <2>2
<1> QED BY <1>2, <1>3 DEF Next

\* Whatever moves HEAD, a commit, a fast-forward or the reset to origin/main,
\* no recorded batch that the remote lacks falls out of HEAD's history, unless
\* a rebase stops there and then.
THEOREM ResetKeeps == Spec => ResetDropsNothing
<1>1. SyncInv /\ [Next]_vars =>
        [\A m \in Nodes : DropsNothing(m)]_vars
  BY StepDropsNothing
<1>2. (\A m \in Nodes : DropsNothing(m)) <=>
        \A n \in Nodes : Recorded(head[n]) \ Recorded(remote) \subseteq Recorded(head'[n])
                         \/ rebasing'[n]
  BY DEF DropsNothing
<1> QED BY <1>1, <1>2, InvCorrect, PTL DEF Spec, ResetDropsNothing

-----------------------------------------------------------------------------
(* A node that has its repository to itself                                *)

\* The newest MinDays days of one clone are in its tree.
FloorAt(m) ==
    \A k \in 1..produced[m] : k + MinDays > produced[m] => <<m, k>> \in tree[m]

\* Alone, a clone is never behind the remote, so that no pull moves it and no
\* rebase starts, and its tree has only batches of its own, the newest with
\* them.  A floor alone would not be inductive: a fast-forward or a reset could
\* bring any tree.
AheadAt(m) == ~rebasing[m] /\ IsAncestor(remote, main[m])
AloneAt(m) == AheadAt(m) /\ tree[m] \subseteq Written(m) /\ FloorAt(m)
AloneInv == SyncInv /\ \A m \in Nodes : AloneAt(m)

\* Two histories that continue each other are one.
LEMMA AncestorsEqual ==
  ASSUME NEW h \in Seq(Commit), NEW k \in Seq(Commit), IsAncestor(h, k), IsAncestor(k, h)
  PROVE  h = k
<1>1. Len(h) <= Len(k) /\ \A i \in 1..Len(h) : k[i] = h[i]
  BY AncestorByElement
<1>2. Len(k) <= Len(h)
  BY AncestorByElement
<1>3. Len(h) = Len(k)
  BY <1>1, <1>2
<1> QED BY <1>1, <1>3, SeqEqual

\* What goes with day d leaves MinDays days above it.
LEMMA DeletableIsOld ==
  ASSUME TypeOK, NEW n \in Nodes, tree[n] \subseteq Written(n), NEW d \in Deletable(n)
  PROVE  d \in Nat /\ d + MinDays <= produced[n]
<1> DEFINE days == {DayOf(b) : b \in tree[n]}
           above == {e \in days : e >= d}
<1>1. produced[n] \in Nat /\ MinDays \in Nat
  BY BoundsAssumption DEF TypeOK
<1>2. days \subseteq 1..produced[n]
  BY DEF Written, DayOf
<1>3. d \in days /\ Cardinality(above) > MinDays
  BY DEF Deletable
<1>4. d \in 1..produced[n]
  BY <1>2, <1>3
<1>5. above \subseteq d..produced[n]
  BY <1>1, <1>2, <1>4
<1> HIDE DEF days, above
<1>6. /\ IsFiniteSet(d..produced[n])
      /\ Cardinality(d..produced[n]) = produced[n] - d + 1
  <2>1. d \in Int /\ produced[n] \in Int /\ ~(d > produced[n])
    BY <1>1, <1>4
  <2> QED BY <2>1, FS_Interval
<1>7. /\ Cardinality(above) <= Cardinality(d..produced[n])
      /\ Cardinality(above) \in Nat
  BY <1>5, <1>6, FS_Subset, FS_CardinalityType
<1>8. d \in Nat
  BY <1>4
<1> QED BY <1>1, <1>3, <1>6, <1>7, <1>8

\* Being ahead of the remote survives every step of the only clone.
LEMMA AheadKeeps ==
  ASSUME TypeOK, TypeOK', NEW n \in Nodes, CloneInv(n), AheadAt(n), SyncStep(n) \/ Crash(n)
  PROVE  AheadAt(n)'
<1> USE DEF repoVars
<1>0. remote \in Seq(Commit) /\ main[n] \in Seq(Commit) /\ ~rebasing[n]
      /\ IsAncestor(remote, main[n]) /\ head[n] = main[n] /\ tree[n] \in SUBSET Batches
  BY DEF TypeOK, AheadAt, CloneInv, HeadAt
<1>1. CASE AddAndCommit(n) \/ TrimCommit(n)
  <2>1. CommitTree(n) /\ rebasing' = rebasing /\ remote' = remote
    BY <1>1 DEF AddAndCommit, TrimCommit
  <2>2. CASE UNCHANGED <<head, main>>
    BY <2>1, <2>2, <1>0 DEF AheadAt
  <2>3. CASE MoveHead(n, Committed(head[n], tree[n]))
    <3> DEFINE k == Committed(head[n], tree[n])
    <3>1. main'[n] = k
      BY <2>3, <1>0 DEF MoveHead, TypeOK
    <3>2. k \in Seq(Commit) /\ IsAncestor(main[n], k)
      BY <1>0, CommitFact
    <3> HIDE DEF k
    <3>3. IsAncestor(remote, k)
      BY <1>0, <3>2, AncestorTransitive
    <3> QED BY <2>1, <3>1, <3>3, <1>0 DEF AheadAt
  <2> QED BY <2>1, <2>2, <2>3 DEF CommitTree, Committed
<1>2. CASE Pull(n)
  <2>1. NothingPulled(n)
    BY <1>0, <1>2 DEF Pull, FastForward, RebaseStops
  <2> QED BY <1>0, <1>2, <2>1 DEF Pull, NothingPulled, AheadAt
<1>3. CASE Shallow(n)
  <2>1. main'[n] = remote /\ remote' = remote /\ rebasing' = rebasing
    BY <1>0, <1>3 DEF Shallow, MoveHead, TypeOK
  <2> QED BY <1>0, <2>1, AncestorReflexive DEF AheadAt
<1>4. ASSUME main' = main, rebasing' = rebasing PROVE AheadAt(n)'
  <2>1. remote' = remote \/ remote' = main[n]
    BY RemoteStep
  <2> QED BY <1>0, <1>4, <2>1, AncestorReflexive DEF AheadAt
<1>5. CASE Aggregate(n) \/ PullFails(n) \/ Push(n) \/ PushRejected(n) \/ PushFails(n)
  BY <1>4, <1>5 DEF Aggregate, PullFails, Push, PushRejected, PushFails
<1>6. CASE SkipShallow(n) \/ Trim(n) \/ SkipTrim(n) \/ TrimPush(n) \/ Crash(n)
  BY <1>4, <1>6 DEF SkipShallow, Trim, SkipTrim, TrimPush, Crash
<1> QED BY <1>1, <1>2, <1>3, <1>5, <1>6 DEF SyncStep

\* The tree of the only clone keeps to its own batches and keeps the newest.
LEMMA FloorKeeps ==
  ASSUME TypeOK, TypeOK', NEW n \in Nodes, CloneInv(n), AloneAt(n), SyncStep(n) \/ Crash(n)
  PROVE  tree'[n] \subseteq Written(n)' /\ FloorAt(n)'
<1> USE DEF repoVars
<1>0. /\ remote \in Seq(Commit) /\ main[n] \in Seq(Commit) /\ ~rebasing[n]
      /\ IsAncestor(remote, main[n]) /\ head[n] = main[n]
      /\ tree[n] \subseteq Written(n) /\ FloorAt(n) /\ produced[n] \in Nat /\ MinDays \in Nat
  BY BoundsAssumption DEF TypeOK, AloneAt, AheadAt, CloneInv, HeadAt
<1>1. ASSUME tree'[n] = tree[n], produced'[n] = produced[n]
      PROVE  tree'[n] \subseteq Written(n)' /\ FloorAt(n)'
  BY <1>0, <1>1 DEF FloorAt, Written
<1>2. CASE Aggregate(n)
  <2>1. CASE UNCHANGED <<produced, tree>>
    BY <1>1, <2>1
  <2>2. CASE /\ produced' = [produced EXCEPT ![n] = @ + 1]
             /\ tree' = [tree EXCEPT ![n] = @ \union {<<n, produced[n] + 1>>}]
    <3>1. /\ produced'[n] = produced[n] + 1
          /\ tree'[n] = tree[n] \union {<<n, produced[n] + 1>>}
      BY <2>2 DEF TypeOK
    <3>2. 1..produced'[n] = (1..produced[n]) \union {produced[n] + 1}
      BY <1>0, <3>1
    <3>3. Written(n)' = Written(n) \union {<<n, produced[n] + 1>>}
      BY <3>1, <3>2 DEF Written
    <3>4. FloorAt(n)'
      <4> SUFFICES ASSUME NEW k \in 1..produced'[n], k + MinDays > produced'[n]
                   PROVE  <<n, k>> \in tree'[n]
        BY DEF FloorAt
      <4>1. CASE k = produced[n] + 1
        BY <3>1, <4>1
      <4>2. CASE k \in 1..produced[n]
        BY <1>0, <3>1, <4>2 DEF FloorAt
      <4> QED BY <3>2, <4>1, <4>2
    <3> QED BY <1>0, <3>1, <3>3, <3>4
  <2> QED BY <1>2, <2>1, <2>2 DEF Aggregate
<1>3. CASE Pull(n)
  <2>1. NothingPulled(n)
    BY <1>0, <1>3 DEF Pull, FastForward, RebaseStops
  <2> QED BY <1>1, <1>3, <2>1 DEF Pull, NothingPulled
<1>4. CASE Shallow(n)
  <2>1. pc[n] = "shallow" /\ Clean(n) /\ tree'[n] = Content(remote) /\ produced' = produced
    BY <1>4 DEF Shallow, Goto, TypeOK
  <2>2. IsAncestor(main[n], remote)
    BY <2>1 DEF CloneInv, PushedAt
  <2>3. main[n] = remote
    BY <1>0, <2>2, AncestorsEqual
  <2>4. tree'[n] = tree[n]
    BY <1>0, <2>1, <2>3 DEF Clean
  <2> QED BY <1>1, <2>1, <2>4
<1>5. CASE Trim(n)
  <2>1. PICK d \in Deletable(n) : tree' = [tree EXCEPT ![n] = {b \in @ : DayOf(b) > d}]
    BY <1>5 DEF Trim
  <2>2. d \in Nat /\ d + MinDays <= produced[n]
    BY <1>0, DeletableIsOld
  <2>3. tree'[n] = {b \in tree[n] : DayOf(b) > d} /\ produced' = produced
    BY <1>5, <2>1 DEF Trim, TypeOK
  <2>4. tree'[n] \subseteq Written(n)'
    BY <1>0, <2>3 DEF Written
  <2>5. FloorAt(n)'
    <3> SUFFICES ASSUME NEW k \in 1..produced[n], k + MinDays > produced[n]
                 PROVE  <<n, k>> \in tree'[n]
      BY <2>3 DEF FloorAt
    <3>1. <<n, k>> \in tree[n]
      BY <1>0 DEF FloorAt
    <3>2. DayOf(<<n, k>>) > d
      BY <1>0, <2>2 DEF DayOf
    <3> QED BY <2>3, <3>1, <3>2
  <2> QED BY <2>4, <2>5
<1>6. CASE AddAndCommit(n) \/ PullFails(n) \/ Push(n) \/ PushRejected(n) \/ PushFails(n)
  BY <1>1, <1>6 DEF AddAndCommit, PullFails, Push, PushRejected, PushFails
<1>7. CASE SkipShallow(n) \/ SkipTrim(n) \/ TrimCommit(n) \/ TrimPush(n) \/ Crash(n)
  BY <1>1, <1>7 DEF SkipShallow, SkipTrim, TrimCommit, TrimPush, Crash
<1> QED BY <1>2, <1>3, <1>4, <1>5, <1>6, <1>7 DEF SyncStep

LEMMA AloneInit == Init => AloneInv
<1> SUFFICES ASSUME Init, NEW m \in Nodes PROVE AloneAt(m)
  BY InvInit DEF AloneInv
<1>1. /\ ~rebasing[m] /\ main[m] = remote /\ remote \in Seq(Commit)
      /\ tree[m] = {} /\ produced[m] = 0
  BY DEF Init
<1> QED BY <1>1, AncestorReflexive DEF AloneAt, AheadAt, FloorAt

LEMMA AloneInductive ==
  ASSUME NEW n, Nodes = {n}
  PROVE  AloneInv /\ [Next]_vars => AloneInv'
<1> SUFFICES ASSUME AloneInv, [Next]_vars PROVE AloneInv'
  OBVIOUS
<1>1. TypeOK /\ TypeOK' /\ SyncInv' /\ n \in Nodes /\ CloneInv(n) /\ AloneAt(n)
  BY SyncInvByClone, TypeInductive, InvInductive DEF AloneInv
<1>2. CASE UNCHANGED vars
  <2>1. AloneAt(n)'
    BY <1>1, <1>2 DEF vars, repoVars, AloneAt, AheadAt, FloorAt, Written
  <2> QED BY <1>1, <2>1 DEF AloneInv
<1>3. CASE SyncStep(n) \/ Crash(n)
  <2>1. AheadAt(n)'
    BY <1>1, <1>3, AheadKeeps DEF AloneAt
  <2>2. tree'[n] \subseteq Written(n)' /\ FloorAt(n)'
    BY <1>1, <1>3, FloorKeeps
  <2>3. AloneAt(n)'
    BY <2>1, <2>2 DEF AloneAt
  <2> QED BY <1>1, <2>3 DEF AloneInv
<1> QED BY <1>2, <1>3 DEF Next

\* However often the network fails and wherever syncs are killed, a node that
\* has its repository to itself keeps its newest MinDays event days in its
\* tree, through every commit, pull, reset and trim.
THEOREM FloorCorrect ==
  ASSUME NEW n, Nodes = {n}
  PROVE  Spec => []FloorKept
<1>1. AloneInv => FloorKept
  BY DEF AloneInv, AloneAt, FloorAt, FloorKept
<1>2. AloneInv /\ [Next]_vars => AloneInv'
  BY AloneInductive
<1> QED BY <1>1, <1>2, AloneInit, PTL DEF Spec
=============================================================================
