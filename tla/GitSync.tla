------------------------------- MODULE GitSync -------------------------------
(***************************************************************************)
(* github_sync.main and maintain: how what the aggregator has written gets *)
(* into the remote repository, and how the local clone is kept small.      *)
(*                                                                         *)
(* A sync is a fixed chain of git commands whose failures are logged and   *)
(* passed over, except a failed push, which ends the sync.  Histories are  *)
(* sequences of commits; a commit is the set of batches it adds to the     *)
(* tree and the set it deletes from it.  Every batch lies in an event-day  *)
(* directory of its own.  Every run rewrites node.json, so each commit     *)
(* touches that file: two histories that have parted always conflict in    *)
(* it.  A commit that changes nothing but node.json is left out of the     *)
(* histories.                                                              *)
(***************************************************************************)
EXTENDS Naturals, Sequences, FiniteSets

CONSTANTS
    Nodes,           \* clones that push to the remote
    MaxBatches,      \* bound: batches one node's aggregator produces
    MinDays,         \* HP_MIN_EVENT_DAYS
    MaxNetFailures,  \* bound: fetches and pushes that fail
    MaxCrashes       \* bound: syncs killed half way

ASSUME BoundsAssumption ==
    /\ MaxBatches \in Nat /\ MinDays \in Nat
    /\ MaxNetFailures \in Nat /\ MaxCrashes \in Nat

Days == 1..MaxBatches
Batches == Nodes \X Days
DayOf(b) == b[2]

VARIABLES
    remote,       \* history of origin/main
    main,         \* [node -> history of the local branch main]
    rebasing,     \* [node -> a stopped rebase holds HEAD]
    head,         \* [node -> history of HEAD; main unless a rebase is stopped]
    tree,         \* [node -> batches in the working tree]
    lock,         \* [node -> a stale .git/index.lock is there]
    pc,           \* [node -> next step of the sync under way]
    netFailures, crashes,
    produced      \* [node -> batches the aggregator has written so far]

repoVars == <<remote, main, rebasing, head, tree, lock>>
faultVars == <<netFailures, crashes>>
vars == <<repoVars, pc, faultVars, produced>>

Pcs == {"idle", "commit", "pull", "push", "shallow", "trim", "trimcommit", "trimpush"}
Commit == [adds : SUBSET Batches, deletes : SUBSET Batches]

\* The tree of a history, and everything it ever recorded.
Content(h) ==
    {b \in Batches : \E i \in DOMAIN h :
        b \in h[i].adds /\ \A j \in DOMAIN h : j > i => b \notin h[j].deletes}
Recorded(h) == UNION {h[i].adds : i \in DOMAIN h}

IsAncestor(h, k) == Len(h) <= Len(k) /\ SubSeq(k, 1, Len(h)) = h

TypeOK ==
    /\ remote \in Seq(Commit)
    /\ main \in [Nodes -> Seq(Commit)]
    /\ rebasing \in [Nodes -> BOOLEAN]
    /\ head \in [Nodes -> Seq(Commit)]
    /\ tree \in [Nodes -> SUBSET Batches]
    /\ lock \in [Nodes -> BOOLEAN]
    /\ pc \in [Nodes -> Pcs]
    /\ netFailures \in Nat /\ crashes \in Nat
    /\ produced \in [Nodes -> 0..MaxBatches]

Init ==
    /\ remote = <<>>
    /\ main = [n \in Nodes |-> <<>>]
    /\ rebasing = [n \in Nodes |-> FALSE]
    /\ head = [n \in Nodes |-> <<>>]
    /\ tree = [n \in Nodes |-> {}]
    /\ lock = [n \in Nodes |-> FALSE]
    /\ pc = [n \in Nodes |-> "idle"]
    /\ netFailures = 0 /\ crashes = 0
    /\ produced = [n \in Nodes |-> 0]

Goto(n, from, to) == pc[n] = from /\ pc' = [pc EXCEPT ![n] = to]
NetFails == netFailures < MaxNetFailures /\ netFailures' = netFailures + 1

\* HEAD moves, and main with it unless a stopped rebase holds HEAD.
MoveHead(n, h) ==
    /\ head' = [head EXCEPT ![n] = h]
    /\ main' = IF rebasing[n] THEN main ELSE [main EXCEPT ![n] = h]

-----------------------------------------------------------------------------
(* main()                                                                  *)

\* aggregator.run: a batch, or a run that found no new event.
Aggregate(n) ==
    /\ Goto(n, "idle", "commit")
    /\ \/ /\ produced[n] < MaxBatches
          /\ produced' = [produced EXCEPT ![n] = @ + 1]
          /\ tree' = [tree EXCEPT ![n] = @ \union {<<n, produced[n] + 1>>}]
       \/ UNCHANGED <<produced, tree>>
    /\ UNCHANGED <<remote, main, rebasing, head, lock, faultVars>>

\* git add -A; git commit.  Both fail while the index is locked.
CommitTree(n) ==
    LET adds == tree[n] \ Content(head[n])
        deletes == Content(head[n]) \ tree[n]
    IN  IF lock[n] \/ adds \union deletes = {}
          THEN UNCHANGED <<head, main>>
          ELSE MoveHead(n, Append(head[n], [adds |-> adds, deletes |-> deletes]))

\* Mutant: a sync with nothing to commit ends before the push.
MutAddAndCommit(n) ==
    /\ IF tree[n] = Content(head[n]) THEN Goto(n, "commit", "idle") ELSE Goto(n, "commit", "pull")
    /\ CommitTree(n)
    /\ UNCHANGED <<remote, rebasing, tree, lock, faultVars, produced>>

AddAndCommit(n) ==
    /\ Goto(n, "commit", "pull")
    /\ CommitTree(n)
    /\ UNCHANGED <<remote, rebasing, tree, lock, faultVars, produced>>

\* Mutant: git reset --hard origin/main in place of the pull.
MutPull(n) ==
    /\ Goto(n, "pull", "push")
    /\ IF lock[n] \/ rebasing[n]
         THEN UNCHANGED <<main, head, tree>>
         ELSE MoveHead(n, remote) /\ tree' = [tree EXCEPT ![n] = Content(remote)]
    /\ UNCHANGED <<remote, rebasing, lock, faultVars, produced>>

\* Nothing to pull, or git refuses to start.
NothingPulled(n) ==
    /\ lock[n] \/ rebasing[n] \/ IsAncestor(remote, main[n])
    /\ UNCHANGED <<main, rebasing, head, tree>>

FastForward(n) ==
    /\ ~lock[n] /\ ~rebasing[n]
    /\ IsAncestor(main[n], remote) /\ ~IsAncestor(remote, main[n])
    /\ MoveHead(n, remote)
    /\ tree' = [tree EXCEPT ![n] = Content(remote)]
    /\ UNCHANGED rebasing

\* The histories have parted: the first commit that only the clone has
\* conflicts in node.json, and the rebase stops there.
RebaseStops(n) ==
    /\ ~lock[n] /\ ~rebasing[n]
    /\ ~IsAncestor(main[n], remote) /\ ~IsAncestor(remote, main[n])
    /\ \E own \in DOMAIN main[n] :
         /\ ~IsAncestor(SubSeq(main[n], 1, own), remote)
         /\ IsAncestor(SubSeq(main[n], 1, own - 1), remote)
         /\ tree' = [tree EXCEPT ![n] =
                       (Content(remote) \union main[n][own].adds) \ main[n][own].deletes]
    /\ rebasing' = [rebasing EXCEPT ![n] = TRUE]
    /\ head' = [head EXCEPT ![n] = remote]
    /\ UNCHANGED main

\* git fetch; git pull --rebase --autostash.
Pull(n) ==
    /\ Goto(n, "pull", "push")
    /\ NothingPulled(n) \/ FastForward(n) \/ RebaseStops(n)
    /\ UNCHANGED <<remote, lock, faultVars, produced>>

PullFails(n) ==
    /\ Goto(n, "pull", "push")
    /\ NetFails
    /\ UNCHANGED <<repoVars, crashes, produced>>

\* Mutants: git push --force; git push origin HEAD:main.
MutPushAccepted(n) == TRUE
MutPushAcceptedHead(n) == IsAncestor(remote, head[n])

\* git push origin main: rejected unless the remote's history is part of main's.
PushAccepted(n) == IsAncestor(remote, main[n])

Push(n) ==
    /\ PushAccepted(n)
    /\ Goto(n, "push", "shallow")
    /\ remote' = main[n]
    /\ UNCHANGED <<main, rebasing, head, tree, lock, faultVars, produced>>

PushRejected(n) ==
    /\ ~PushAccepted(n)
    /\ Goto(n, "push", "idle")
    /\ UNCHANGED <<repoVars, faultVars, produced>>

\* Mutant: a failed push does not end the sync, which goes on to maintain.
MutPushFails(n) ==
    /\ Goto(n, "push", "trim")
    /\ NetFails
    /\ UNCHANGED <<repoVars, crashes, produced>>

\* The request or its answer is lost: the sync reports failure either way.
PushFails(n) ==
    /\ Goto(n, "push", "idle")
    /\ NetFails
    /\ remote' \in IF PushAccepted(n) THEN {remote, main[n]} ELSE {remote}
    /\ UNCHANGED <<main, rebasing, head, tree, lock, crashes, produced>>

-----------------------------------------------------------------------------
(* maintain()                                                              *)

Clean(n) == tree[n] = Content(head[n])

\* git fetch --depth=1; git reset --hard origin/main, when due and clean.
Shallow(n) ==
    /\ Goto(n, "shallow", "trim")
    /\ Clean(n) /\ ~lock[n]
    /\ MoveHead(n, remote)
    /\ tree' = [tree EXCEPT ![n] = Content(remote)]
    /\ UNCHANGED <<remote, rebasing, lock, faultVars, produced>>

\* Not due, not clean, or the fetch fails.
SkipShallow(n) ==
    /\ Goto(n, "shallow", "trim")
    /\ UNCHANGED <<repoVars, faultVars, produced>>

\* Mutant: off by one at the floor.
MutDeletable(n) ==
    LET days == {DayOf(b) : b \in tree[n]}
    IN  {d \in days : Cardinality({e \in days : e >= d}) >= MinDays}

\* All event days but the newest MinDays may go.
Deletable(n) ==
    LET days == {DayOf(b) : b \in tree[n]}
    IN  {d \in days : Cardinality({e \in days : e >= d}) > MinDays}

\* Over budget: the oldest days go until the budget is met; git rm, or rmtree
\* where git rm fails.
Trim(n) ==
    /\ Goto(n, "trim", "trimcommit")
    /\ \E d \in Deletable(n) : tree' = [tree EXCEPT ![n] = {b \in @ : DayOf(b) > d}]
    /\ UNCHANGED <<remote, main, rebasing, head, lock, faultVars, produced>>

\* Within budget, or nothing past the floor.
SkipTrim(n) ==
    /\ Goto(n, "trim", "idle")
    /\ UNCHANGED <<repoVars, faultVars, produced>>

TrimCommit(n) ==
    /\ Goto(n, "trimcommit", "trimpush")
    /\ CommitTree(n)
    /\ UNCHANGED <<remote, rebasing, tree, lock, faultVars, produced>>

TrimPush(n) ==
    /\ Goto(n, "trimpush", "idle")
    /\ remote' = IF PushAccepted(n) THEN main[n] ELSE remote
    /\ UNCHANGED <<main, rebasing, head, tree, lock, faultVars, produced>>

-----------------------------------------------------------------------------
\* The sync is killed, or the machine goes down.  Killed while git works on the
\* index it leaves the lock file behind; no code removes it.
Crash(n) ==
    /\ pc[n] # "idle"
    /\ crashes < MaxCrashes
    /\ crashes' = crashes + 1
    /\ pc' = [pc EXCEPT ![n] = "idle"]
    /\ lock' \in IF pc[n] \in {"commit", "trimcommit"}
                   THEN {lock, [lock EXCEPT ![n] = TRUE]} ELSE {lock}
    /\ UNCHANGED <<remote, main, rebasing, head, tree, netFailures, produced>>

SyncStep(n) ==
    \/ Aggregate(n)
    \/ AddAndCommit(n)
    \/ Pull(n) \/ PullFails(n)
    \/ Push(n) \/ PushRejected(n) \/ PushFails(n)
    \/ Shallow(n) \/ SkipShallow(n)
    \/ Trim(n) \/ SkipTrim(n)
    \/ TrimCommit(n) \/ TrimPush(n)

Next == \E n \in Nodes : SyncStep(n) \/ Crash(n)

Spec == Init /\ [][Next]_vars

\* The timer starts every sync and each of its commands returns; how often the
\* network fails is bounded by MaxNetFailures.
FairSpec == Spec /\ \A n \in Nodes : WF_vars(SyncStep(n))

-----------------------------------------------------------------------------
(* Properties                                                              *)

Written(n) == {<<n, k>> : k \in 1..produced[n]}

\* Whatever fails and wherever a sync is killed, a batch is in the working tree
\* or in a history that is never taken back; only a clone with a stale index
\* lock may trim a batch that was never committed.
NothingLostUnlessLocked ==
    \A n \in Nodes : lock[n] \/
        Written(n) \subseteq tree[n] \union Recorded(main[n])
                               \union Recorded(head[n]) \union Recorded(remote)

\* What has left the tree is safe in the remote's history, or in a commit of
\* main that a stopped rebase keeps from it.
TrimmedIsPushed ==
    \A n \in Nodes : lock[n] \/ rebasing[n] \/
        Written(n) \ tree[n] \subseteq Recorded(remote)

\* Both: no batch of a clone is anywhere but where it can be found again.
BatchesKept == NothingLostUnlessLocked /\ TrimmedIsPushed

\* The newest MinDays event days of a node that has its repository to itself
\* are always in its tree: no sync, reset or trim removes them.
FloorKept ==
    \A n \in Nodes : \A k \in 1..produced[n] :
        k + MinDays > produced[n] => <<n, k>> \in tree[n]

\* No clone ever rewrites what is in the remote.
RemoteOnlyGrows == [][IsAncestor(remote, remote')]_vars

\* A clone whose rebase has stopped has no way back: its pushes are rejected.
StoppedRebaseIsFinal == \A n \in Nodes : rebasing[n] => ~PushAccepted(n)

\* The parts that make the three above inductive.  HEAD is main unless a rebase
\* is stopped; from the commit to the trim the tree is what HEAD holds, unless
\* the commit met a lock or the rebase stopped; and only a clone whose push has
\* been accepted gets to maintain.
HeadIsMain == \A n \in Nodes : ~rebasing[n] => head[n] = main[n]

CleanSinceCommit ==
    \A n \in Nodes : ~lock[n] =>
        /\ pc[n] = "pull" => Clean(n)
        /\ pc[n] \in {"push", "shallow", "trim"} /\ ~rebasing[n] => Clean(n)

MaintainedIsPushed ==
    \A n \in Nodes :
        /\ pc[n] \in {"shallow", "trim", "trimcommit", "trimpush"} => ~rebasing[n]
        /\ pc[n] \in {"shallow", "trim"} => IsAncestor(main[n], remote)

SyncInv ==
    /\ TypeOK
    /\ HeadIsMain
    /\ StoppedRebaseIsFinal
    /\ CleanSinceCommit
    /\ MaintainedIsPushed
    /\ NothingLostUnlessLocked
    /\ TrimmedIsPushed

\* The re-anchoring to the remote never drops a commit that was not pushed.
ResetDropsNothing ==
    [][\A n \in Nodes : Recorded(head[n]) \ Recorded(remote) \subseteq Recorded(head'[n])
                        \/ rebasing'[n]]_vars

\* Every batch reaches the remote, unless its clone is stuck behind a stale lock.
EventuallyPushed ==
    \A n \in Nodes : \A k \in 1..MaxBatches :
        (produced[n] >= k) ~> (<<n, k>> \in Recorded(remote) \/ lock[n])

-----------------------------------------------------------------------------
(* Statements of the documentation                                         *)

\* github_sync.py: "pull --rebase first to play nicely with hundreds of nodes".
EveryNodePushes ==
    \A n \in Nodes : \A k \in 1..MaxBatches :
        (produced[n] >= k) ~> (<<n, k>> \in Recorded(remote))
=============================================================================
