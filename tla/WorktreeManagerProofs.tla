------------------------ MODULE WorktreeManagerProofs ------------------------
(***************************************************************************)
(* Theorems about WorktreeManager, for any slugs, callbacks, jobs, faults  *)
(* and kills: a job works in a tree of its own, its branch holds that      *)
(* work, and create() and remove(), left alone, do what TaskExecution      *)
(* takes them to do.                                                       *)
(***************************************************************************)
EXTENDS WorktreeManager, TLAPS

USE DEF repo, env

\* Every worktree is registered, which is what protects its branch.
Registered == \A s \in Slugs : Worktree(s) => entry[s] # None

\* The branch was made for the tree that is being filled.
FillingInv == pc[Executor] = "adding" /\ Worktree(at[Executor]) => ref[at[Executor]] = Base

\* After its first command an undisturbed remove() has got rid of the worktree.
Removed(s) == tree[s] = Broken \/ (tree[s] = None /\ entry[s] = None)

RemovalInv == \A a \in undisturbed : pc[a] \in {"rmprune", "rmbranch"} => Removed(at[a])

\* What an undisturbed create() has achieved before each of its commands.
CreationInv ==
    Executor \in undisturbed =>
        LET s == at[Executor]
        IN  /\ pc[Executor] \in {"prune", "branch", "add"} => ~Worktree(s)
            /\ pc[Executor] \in {"branch", "add"} => entry[s] # "plain"
            /\ pc[Executor] = "add" => (entry[s] = None => ref[s] = None)
            /\ pc[Executor] = "adding" => tree[s] = Partial /\ entry[s] = "locked"

Alone == RemovalInv /\ CreationInv

IndInv == /\ TypeOK
          /\ Registered
          /\ WorkIsOwn
          /\ BranchHoldsTheWork
          /\ FillingInv
          /\ Alone

LEMMA InitInv == Init => IndInv
  BY BoundsAssumption, TreesDiffer
  DEF Init, IndInv, TypeOK, RepoTyped, ActorsTyped, Registered, Worktree, WorkIsOwn, BranchHoldsTheWork, FillingInv,
      Alone, RemovalInv, CreationInv, Removed, Trees, Contents, Base, Places, Actors

LEMMA StepInv == IndInv /\ [Next]_vars => IndInv'
<1> SUFFICES ASSUME IndInv, [Next]_vars PROVE IndInv'
  OBVIOUS
<1> USE BoundsAssumption, TreesDiffer, NoneIsNoState, ExecutorIsNoCallback
    DEF IndInv, TypeOK, RepoTyped, ActorsTyped, Registered, Worktree, WorkIsOwn, BranchHoldsTheWork, FillingInv,
        Trees, Contents, Base, Places, Actors, Goto
<1> DEFINE Basic == TypeOK /\ Registered /\ WorkIsOwn /\ BranchHoldsTheWork /\ FillingInv
<1>a. IndInv' <=> Basic' /\ Alone'
  BY DEF Alone
<1> USE DEF Alone, RemovalInv, CreationInv, Removed
<1>1. ASSUME NEW s \in Slugs, Begin(s) PROVE IndInv'
  <2>1. Basic'
    BY <1>1 DEF Begin, Enter
  <2>2. Alone'
    BY <1>1 DEF Begin, Enter
  <2> QED BY <2>1, <2>2, <1>a
<1>2. ASSUME NEW c \in Callbacks, NEW s \in Slugs, Cleanup(c, s) PROVE IndInv'
  <2>1. Basic'
    BY <1>2 DEF Cleanup, Enter
  <2>2. Alone'
    BY <1>2 DEF Cleanup, Enter
  <2> QED BY <2>1, <2>2, <1>a
<1>3. ASSUME NEW a \in Actors, RemoveTree(a) PROVE IndInv'
  <2>1. Basic'
    BY <1>3 DEF RemoveTree, Works, Touch, Fault
  <2>2. Alone'
    BY <1>3 DEF RemoveTree, Works, Touch, Fault
  <2> QED BY <2>1, <2>2, <1>a
<1>4. ASSUME NEW a \in Actors, RemovePrune(a) PROVE IndInv'
  <2>1. Basic'
    BY <1>4 DEF RemovePrune, Prune, Works, Touch, Fault
  <2>2. Alone'
    BY <1>4 DEF RemovePrune, Prune, Works, Touch, Fault
  <2> QED BY <2>1, <2>2, <1>a
<1>5. ASSUME NEW a \in Actors, RemoveBranch(a) PROVE IndInv'
  <2>1. Basic'
    BY <1>5 DEF RemoveBranch, DropBranch, Works, Touch, Fault
  <2>2. Alone'
    BY <1>5 DEF RemoveBranch, DropBranch, Works, Touch, Fault
  <2> QED BY <2>1, <2>2, <1>a
<1>6. CASE EnsureCloned
  <2>1. Basic'
    BY <1>6 DEF EnsureCloned, Torn, Fail, Works, Touch, Fault
  <2>2. Alone'
    BY <1>6 DEF EnsureCloned, Torn, Fail, Works, Touch, Fault
  <2> QED BY <2>1, <2>2, <1>a
<1>7. CASE CheckStale
  BY <1>7 DEF CheckStale
<1>8. CASE CreatePrune
  <2>1. Basic'
    BY <1>8 DEF CreatePrune, Prune, Fail, Works, Touch, Fault
  <2>2. Alone'
    BY <1>8 DEF CreatePrune, Prune, Fail, Works, Touch, Fault
  <2> QED BY <2>1, <2>2, <1>a
<1>9. CASE CreateBranch
  <2>1. Basic'
    BY <1>9 DEF CreateBranch, DropBranch, Works, Touch, Fault
  <2>2. Alone'
    BY <1>9 DEF CreateBranch, DropBranch, Works, Touch, Fault
  <2> QED BY <2>1, <2>2, <1>a
<1>10. CASE AddBegin
  <2>1. Basic'
    BY <1>10 DEF AddBegin, Fail, Works, Touch, Fault
  <2>2. Alone'
    BY <1>10 DEF AddBegin, Fail, Works, Touch, Fault
  <2> QED BY <2>1, <2>2, <1>a
<1>11. CASE AddEnd
  <2>1. Basic'
    BY <1>11 DEF AddEnd, Fail, Works, Touch, Fault
  <2>2. Alone'
    BY <1>11 DEF AddEnd, Fail, Works, Touch, Fault
  <2> QED BY <2>1, <2>2, <1>a
<1>12. CASE Commit
  <2>1. Basic'
    BY <1>12 DEF Commit
  <2>2. Alone'
    BY <1>12 DEF Commit
  <2> QED BY <2>1, <2>2, <1>a
<1>13. ASSUME NEW place \in {"idle", "rmtree"}, Leave(place) PROVE IndInv'
  BY <1>13 DEF Leave
<1>14. CASE Crash
  <2>1. Basic'
    BY <1>14 DEF Crash, Torn
  <2>2. Alone'
    BY <1>14 DEF Crash
  <2> QED BY <2>1, <2>2, <1>a
<1>15. CASE UNCHANGED vars
  BY <1>15 DEF vars
<1> QED
  BY <1>1, <1>2, <1>3, <1>4, <1>5, <1>6, <1>7, <1>8, <1>9, <1>10, <1>11, <1>12, <1>13, <1>14,
     <1>15
  DEF Next, Remove, Create

THEOREM Inductive == Spec => []IndInv
<1>1. Init => IndInv
  BY InitInv
<1>2. IndInv /\ [Next]_vars => IndInv'
  BY StepInv
<1> QED
  BY <1>1, <1>2, PTL DEF Spec

-----------------------------------------------------------------------------
(* What each step may do, in a state that satisfies the invariant *)

LEMMA CleanRetryStep ==
    ASSUME IndInv, [Next]_vars, pc[Executor] # "failed", pc'[Executor] = "failed",
           Executor \in undisturbed'
    PROVE  LET s == at[Executor]
           IN  clone = "torn" \/ tree[s] = Broken \/ (tree[s] = None /\ entry[s] = "locked")
<1> USE ExecutorIsNoCallback
    DEF IndInv, TypeOK, RepoTyped, ActorsTyped, Actors, Goto, Alone, CreationInv, Worktree
<1>1. CASE EnsureCloned
  BY <1>1 DEF EnsureCloned, Fault
<1>2. CASE CreatePrune
  BY <1>2 DEF CreatePrune, Fault
<1>3. CASE AddBegin
  BY <1>3 DEF AddBegin, Fault, Works, Touch
<1>4. CASE AddEnd
  BY <1>4 DEF AddEnd, Fault, Works, Touch
<1>5. CASE CheckStale \/ CreateBranch \/ Commit \/ Crash \/ UNCHANGED vars
  BY <1>5 DEF CheckStale, CreateBranch, Commit, Crash, vars
<1>6. ASSUME NEW s \in Slugs, Begin(s) PROVE FALSE
  BY <1>6 DEF Begin
<1>7. ASSUME NEW c \in Callbacks, NEW s \in Slugs, Cleanup(c, s) PROVE FALSE
  BY <1>7 DEF Cleanup
<1>8. ASSUME NEW a \in Actors, Remove(a) PROVE FALSE
  BY <1>8 DEF Remove, RemoveTree, RemovePrune, RemoveBranch
<1>9. ASSUME NEW place \in {"idle", "rmtree"}, Leave(place) PROVE FALSE
  BY <1>9 DEF Leave
<1> QED
  BY <1>1, <1>2, <1>3, <1>4, <1>5, <1>6, <1>7, <1>8, <1>9 DEF Next, Create

LEMMA CleanRemovalStep ==
    ASSUME IndInv, [Next]_vars, NEW a \in Actors,
           pc[a] = "rmbranch", pc'[a] \in {"idle", "prune"}, crashes' = crashes,
           a \in undisturbed', tree[at[a]] # Broken
    PROVE  tree[at[a]] = None /\ entry'[at[a]] = None /\ ref'[at[a]] = None
<1> USE ExecutorIsNoCallback
    DEF IndInv, TypeOK, RepoTyped, ActorsTyped, Actors, Goto, Alone, RemovalInv, Removed
<1>1. ASSUME NEW b \in Actors, RemoveBranch(b) PROVE b = a
  BY <1>1 DEF RemoveBranch
<1>2. CASE RemoveBranch(a)
  BY <1>2 DEF RemoveBranch, DropBranch, Works, Touch, Fault
<1>3. ASSUME NEW b \in Actors, RemoveTree(b) \/ RemovePrune(b) PROVE FALSE
  BY <1>3 DEF RemoveTree, RemovePrune
<1>4. CASE Create \/ Commit \/ UNCHANGED vars
  BY <1>4 DEF Create, EnsureCloned, CheckStale, CreatePrune, CreateBranch, AddBegin, AddEnd,
              Fail, Commit, vars
<1>5. CASE Crash
  BY <1>5 DEF Crash
<1>6. ASSUME NEW s \in Slugs, Begin(s) PROVE FALSE
  BY <1>6 DEF Begin
<1>7. ASSUME NEW c \in Callbacks, NEW s \in Slugs, Cleanup(c, s) PROVE FALSE
  BY <1>7 DEF Cleanup
<1>8. ASSUME NEW place \in {"idle", "rmtree"}, Leave(place) PROVE FALSE
  BY <1>8 DEF Leave
<1> QED
  BY <1>1, <1>2, <1>3, <1>4, <1>5, <1>6, <1>7, <1>8 DEF Next, Remove

-----------------------------------------------------------------------------
(* Theorems *)

\* Every variable keeps its type under any interleaving, fault and kill.
THEOREM TypeCorrect == Spec => []TypeOK
  BY Inductive, PTL DEF IndInv

\* A job works in a tree made for it, never in a leftover or a half-filled one
\* (WorktreeManager.create).
THEOREM JobsWorkInTheirOwn == Spec => []WorkIsOwn
  BY Inductive, PTL DEF IndInv

\* The branch a job pushes by name holds what its tree does (create, remove,
\* push): remove() in a callback cannot delete the branch under it.
THEOREM BranchesHoldTheWork == Spec => []BranchHoldsTheWork
  BY Inductive, PTL DEF IndInv

\* A job that is left alone gets its tree, but for the three leftovers named in
\* RetryStartsClean (ensure_cloned, create).
THEOREM CleanRetry == Spec => RetryStartsClean
<1>1. IndInv /\ [Next]_vars =>
        [pc[Executor] # "failed" /\ pc'[Executor] = "failed" /\ Executor \in undisturbed' =>
            LET s == at[Executor]
            IN  clone = "torn" \/ tree[s] = Broken
                   \/ (tree[s] = None /\ entry[s] = "locked")]_vars
  BY CleanRetryStep
<1> QED
  BY <1>1, Inductive, PTL DEF Spec, RetryStartsClean

\* An undisturbed remove() leaves no directory, entry or branch (remove).
THEOREM CleanRemoval == Spec => RemoveLeavesNothing
<1>1. IndInv /\ [Next]_vars =>
        [\A a \in Actors :
            /\ pc[a] = "rmbranch" /\ pc'[a] \in {"idle", "prune"} /\ crashes' = crashes
            /\ a \in undisturbed' /\ tree[at[a]] # Broken
            => tree[at[a]] = None /\ entry'[at[a]] = None /\ ref'[at[a]] = None]_vars
  BY CleanRemovalStep
<1> QED
  BY <1>1, Inductive, PTL DEF Spec, RemoveLeavesNothing
=============================================================================
