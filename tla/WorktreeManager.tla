--------------------------- MODULE WorktreeManager ---------------------------
(***************************************************************************)
(* RepoManager and WorktreeManager command by command: what `git clone`,   *)
(* `worktree add`, `remove`, `prune` and `branch -D` leave behind when they *)
(* fail, when run_git kills them at their timeout, when the process dies,  *)
(* and when a callback's remove() runs next to the executor's create().    *)
(* TaskExecution takes ensure_cloned(), create() and remove() as single    *)
(* steps; here is why it may.                                              *)
(***************************************************************************)
EXTENDS Naturals

CONSTANTS Slugs,        \* branch slugs
          Executor,     \* the job that holds the executor's lock
          Callbacks,    \* handlers that may clean up, without that lock
          None,         \* no directory, no entry, no branch
          Broken,       \* a directory that is no worktree: its .git is gone
          Partial,      \* a worktree `add` has not filled
          MaxJobs,      \* bound: jobs, one after the other
          MaxCleanups,  \* bound: cleanups by callbacks
          MaxFaults,    \* bound: git commands that fail or are killed
          MaxCrashes    \* bound: process kills

ASSUME ExecutorIsNoCallback == Executor \notin Callbacks
ASSUME TreesDiffer == /\ None # Broken /\ None # Partial /\ Broken # Partial
                      /\ {None, Broken, Partial} \cap Nat = {}
ASSUME NoneIsNoState == None \notin {"plain", "locked", "torn", "empty", "whole"}
ASSUME BoundsAssumption == {MaxJobs, MaxCleanups, MaxFaults, MaxCrashes} \subseteq Nat

VARIABLES
    clone,      \* the base clone: None, "torn" (.git without a remote),
                \* "empty" (a remote whose refs were not fetched) or "whole"
    tree,       \* the directory of each slug: see Trees
    entry,      \* git's registry of worktrees
    ref,        \* the local branch of each slug: None, Base or a job's commit
    job,        \* the current job
    pc, at,     \* for each actor: the command it runs next, and its slug
    within,     \* what the executor is in: "create" or the rest of its "job"
    cleanups, faults, crashes,
    undisturbed \* history: actors whose operation met no fault and no other
                \* actor at work on its slug

repo     == <<tree, entry, ref>>
env      == <<cleanups, faults, crashes>>

vars == <<clone, repo, job, pc, at, within, env, undisturbed>>

-----------------------------------------------------------------------------
Actors == {Executor} \cup Callbacks

\* What a branch or a filled worktree holds: the base, or the work of a job.
Base == 0
Contents == Base .. MaxJobs
Trees == {None, Broken, Partial} \cup Contents
Worktree(s) == tree[s] \notin {None, Broken}

Places == {"idle", "clone", "exists", "rmtree", "rmprune", "rmbranch", "prune", "branch",
           "add", "adding", "working", "failed"}

\* Actor a begins to work on s, alone or not.
Enter(a, s) ==
    LET there == {b \in Actors \ {a} : at[b] = s}
        alone == \A b \in there : pc[b] \in {"idle", "failed"}
    IN  undisturbed' = (undisturbed \ ({a} \cup there)) \cup (IF alone THEN {a} ELSE {})

\* Actor a works on its slug: others there are disturbed.
Touch(a) == undisturbed' = undisturbed \ {b \in Actors \ {a} : at[b] = at[a]}

\* A command of a fails though it could have worked.
Fault(a) == /\ faults < MaxFaults
            /\ faults' = faults + 1
            /\ undisturbed' = undisturbed \ {b \in Actors : at[b] = at[a]}
            /\ UNCHANGED <<cleanups, crashes>>

Works(a) == Touch(a) /\ UNCHANGED env

Goto(a, place) == pc' = [pc EXCEPT ![a] = place]

Init == /\ clone = None
        /\ tree = [s \in Slugs |-> None]
        /\ entry = [s \in Slugs |-> None]
        /\ ref = [s \in Slugs |-> None]
        /\ job = 0
        /\ pc = [a \in Actors |-> "idle"]
        /\ at \in [Actors -> Slugs]
        /\ within = "job"
        /\ cleanups = 0 /\ faults = 0 /\ crashes = 0
        /\ undisturbed = {}

-----------------------------------------------------------------------------
(* remove(slug): three commands, whose errors are all swallowed *)

\* Variant: a single --force, which git refuses for a locked worktree.
RemoveTreeOnce(a) ==
    LET s == at[a]
    IN  /\ pc[a] = "rmtree"
        /\ IF entry[s] = "plain" /\ tree[s] # Broken
           THEN tree' = [tree EXCEPT ![s] = None] /\ entry' = [entry EXCEPT ![s] = None]
           ELSE UNCHANGED <<tree, entry>>
        /\ Works(a)
        /\ Goto(a, "rmprune")
        /\ UNCHANGED <<ref, clone, job, at, within>>

\* worktree remove --force --force: refused for a path that is not registered
\* or is no worktree.  Killed, it leaves the directory half deleted, or deleted
\* and still registered.
RemoveTree(a) ==
    LET s == at[a]
    IN  /\ pc[a] = "rmtree"
        /\ \/ /\ IF entry[s] # None /\ tree[s] # Broken
                 THEN /\ tree' = [tree EXCEPT ![s] = None]
                      /\ entry' = [entry EXCEPT ![s] = None]
                 ELSE UNCHANGED <<tree, entry>>
              /\ Works(a)
           \/ /\ Fault(a)
              /\ \E left \in {tree[s]} \cup (IF entry[s] # None /\ Worktree(s)
                                             THEN {Broken, None} ELSE {}) :
                    tree' = [tree EXCEPT ![s] = left]
              /\ UNCHANGED entry
        /\ Goto(a, "rmprune")
        /\ UNCHANGED <<ref, clone, job, at, within>>

\* worktree prune: forgets every unlocked entry without a worktree.
Prune == entry' = [s \in Slugs |-> IF entry[s] = "plain" /\ ~Worktree(s)
                                   THEN None ELSE entry[s]]

RemovePrune(a) == /\ pc[a] = "rmprune"
                  /\ \/ Prune /\ Works(a)
                     \/ Fault(a) /\ UNCHANGED entry
                  /\ Goto(a, "rmbranch")
                  /\ UNCHANGED <<tree, ref, clone, job, at, within>>

\* branch -D: refused while a registered worktree has the branch checked out.
DropBranch(s) == ref' = IF entry[s] = None THEN [ref EXCEPT ![s] = None] ELSE ref

\* Variant: the branch is deleted by update-ref, checked out or not.
RemoveBranchForced(a) ==
    /\ pc[a] = "rmbranch"
    /\ ref' = [ref EXCEPT ![at[a]] = None]
    /\ Works(a)
    /\ Goto(a, IF a = Executor /\ within = "create" THEN "prune" ELSE "idle")
    /\ UNCHANGED <<tree, entry, clone, job, at, within>>

\* The end of remove(): create() goes on, anyone else is done.
RemoveBranch(a) == /\ pc[a] = "rmbranch"
                   /\ \/ DropBranch(at[a]) /\ Works(a)
                      \/ Fault(a) /\ UNCHANGED ref
                   /\ Goto(a, IF a = Executor /\ within = "create" THEN "prune" ELSE "idle")
                   /\ UNCHANGED <<tree, entry, clone, job, at, within>>

-----------------------------------------------------------------------------
(* ensure_cloned() and create(slug), under the executor's lock *)

\* A GitError out of them: the job fails.
Fail == /\ Goto(Executor, "failed")
        /\ within' = "job"

\* The next job; its predecessor may have left its tree behind.
Begin(s) == /\ pc[Executor] \in {"idle", "failed"}
            /\ job < MaxJobs
            /\ job' = job + 1
            /\ at' = [at EXCEPT ![Executor] = s]
            /\ Goto(Executor, "clone")
            /\ Enter(Executor, s)
            /\ UNCHANGED <<clone, repo, within, env>>

\* What a clone killed at its timeout or with the process leaves: `git clone`
\* makes .git, configures the remote and only then fetches.
Torn == IF clone = None THEN {None, "torn", "empty"} ELSE {clone}

\* Variant: a clone or fetch that fails is logged and swallowed, as in remove().
EnsureClonedLogged == /\ pc[Executor] = "clone"
                      /\ \/ clone # "torn" /\ clone' = "whole" /\ Works(Executor)
                         \/ clone = "torn" /\ UNCHANGED clone /\ Works(Executor)
                         \/ clone' \in Torn /\ Fault(Executor)
                      /\ Goto(Executor, "exists")
                      /\ within' = "create"
                      /\ UNCHANGED <<repo, job, at>>

\* Without .git the project is cloned, else only fetched: that makes a clone
\* whole which was killed late, and is refused for ever by one killed early.
EnsureCloned == /\ pc[Executor] = "clone"
                /\ \/ /\ clone # "torn"
                      /\ clone' = "whole"
                      /\ Works(Executor)
                      /\ Goto(Executor, "exists")
                      /\ within' = "create"
                   \/ clone = "torn" /\ Fail /\ Works(Executor) /\ UNCHANGED clone
                   \/ Fault(Executor) /\ Fail /\ clone' \in Torn
                /\ UNCHANGED <<repo, job, at>>

\* Variant: a stale tree is kept and used.
StaleKept == /\ pc[Executor] = "exists"
             /\ Goto(Executor, IF Worktree(at[Executor]) THEN "working" ELSE "prune")
             /\ within' = IF Worktree(at[Executor]) THEN "job" ELSE "create"
             /\ UNCHANGED <<repo, env, clone, job, at, undisturbed>>

\* path.exists(): a stale tree is removed first.
CheckStale == /\ pc[Executor] = "exists"
              /\ Goto(Executor, IF tree[at[Executor]] = None THEN "prune" ELSE "rmtree")
              /\ UNCHANGED <<repo, clone, job, at, within, env, undisturbed>>

\* Variant: no prune before the branch is dropped.
CreateUnpruned == /\ pc[Executor] = "prune"
                  /\ Goto(Executor, "branch")
                  /\ UNCHANGED <<repo, clone, job, at, within, env, undisturbed>>

CreatePrune == /\ pc[Executor] = "prune"
               /\ \/ /\ Prune
                     /\ Works(Executor)
                     /\ Goto(Executor, "branch")
                     /\ UNCHANGED within
                  \/ Fault(Executor) /\ Fail /\ UNCHANGED entry
               /\ UNCHANGED <<tree, ref, clone, job, at>>

CreateBranch == /\ pc[Executor] = "branch"
                /\ \/ DropBranch(at[Executor]) /\ Works(Executor)
                   \/ Fault(Executor) /\ UNCHANGED ref
                /\ Goto(Executor, "add")
                /\ UNCHANGED <<tree, entry, clone, job, at, within>>

\* worktree add -b: makes the branch first, and is refused when that exists or
\* when the path does or is registered.  While it fills the tree the entry is
\* locked.
AddBegin ==
    LET s == at[Executor]
    IN  /\ pc[Executor] = "add"
        /\ \/ /\ ref[s] = None
              /\ ref' = [ref EXCEPT ![s] = Base]
              /\ \/ /\ tree[s] = None /\ entry[s] = None
                    /\ tree' = [tree EXCEPT ![s] = Partial]
                    /\ entry' = [entry EXCEPT ![s] = "locked"]
                    /\ Goto(Executor, "adding")
                    /\ UNCHANGED within
                 \/ /\ tree[s] # None \/ entry[s] # None
                    /\ Fail
                    /\ UNCHANGED <<tree, entry>>
              /\ Works(Executor)
           \/ /\ ref[s] # None
              /\ Fail
              /\ Works(Executor)
              /\ UNCHANGED repo
           \/ /\ Fault(Executor)
              /\ Fail
              /\ ref[s] = None
              /\ \E left \in {None, Base} : ref' = [ref EXCEPT ![s] = left]
              /\ UNCHANGED <<tree, entry>>
        /\ UNCHANGED <<clone, job, at>>

\* Filled and unlocked; or killed, which leaves the locked remains; or failed,
\* when git itself clears up; or overtaken by a remove().
AddEnd ==
    LET s == at[Executor]
    IN  /\ pc[Executor] = "adding"
        /\ \/ /\ tree[s] = Partial /\ entry[s] = "locked"
              /\ tree' = [tree EXCEPT ![s] = Base]
              /\ entry' = [entry EXCEPT ![s] = "plain"]
              /\ Goto(Executor, "working")
              /\ within' = "job"
              /\ Works(Executor)
           \/ /\ ~(tree[s] = Partial /\ entry[s] = "locked")
              /\ Fail
              /\ Works(Executor)
              /\ UNCHANGED <<tree, entry>>
           \/ /\ Fault(Executor)
              /\ Fail
              /\ \/ UNCHANGED <<tree, entry>>
                 \/ /\ tree' = [tree EXCEPT ![s] = None]
                    /\ entry' = [entry EXCEPT ![s] = None]
        /\ UNCHANGED <<ref, clone, job, at>>

-----------------------------------------------------------------------------
(* The users of the manager *)

\* The coder commits to the branch its tree has checked out.
Commit == LET s == at[Executor]
          IN  /\ pc[Executor] = "working"
              /\ Worktree(s) /\ entry[s] # None
              /\ tree' = [tree EXCEPT ![s] = job]
              /\ ref' = [ref EXCEPT ![s] = job]
              /\ UNCHANGED <<entry, clone, job, pc, at, within, env, undisturbed>>

\* The job is over and leaves its tree; a dry run removes it.
Leave(place) == /\ pc[Executor] = "working"
                /\ Goto(Executor, place)
                /\ UNCHANGED <<repo, clone, job, at, within, env, undisturbed>>

\* _cleanup_worktree in a callback, for a run that had some slug.
Cleanup(c, s) == /\ clone = "whole" /\ pc[c] = "idle" /\ cleanups < MaxCleanups
                 /\ cleanups' = cleanups + 1
                 /\ at' = [at EXCEPT ![c] = s]
                 /\ Goto(c, "rmtree")
                 /\ Enter(c, s)
                 /\ UNCHANGED <<repo, clone, job, within, faults, crashes>>

\* The process and its git commands are killed.
Crash == /\ crashes < MaxCrashes
         /\ crashes' = crashes + 1
         /\ pc' = [a \in Actors |-> "idle"]
         /\ within' = "job"
         /\ undisturbed' = {}
         /\ \E s \in Slugs :
               \/ UNCHANGED tree
               \/ /\ \E a \in Actors : pc[a] = "rmtree" /\ at[a] = s
                  /\ entry[s] # None /\ Worktree(s)
                  /\ \E left \in {Broken, None} : tree' = [tree EXCEPT ![s] = left]
         /\ IF pc[Executor] = "clone" THEN clone' \in Torn ELSE UNCHANGED clone
         /\ UNCHANGED <<entry, ref, job, at, cleanups, faults>>

Remove(a) == RemoveTree(a) \/ RemovePrune(a) \/ RemoveBranch(a)

Create == \/ EnsureCloned
          \/ CheckStale
          \/ CreatePrune
          \/ CreateBranch
          \/ AddBegin
          \/ AddEnd

Next == \/ \E s \in Slugs : \/ Begin(s)
                            \/ \E c \in Callbacks : Cleanup(c, s)
        \/ \E a \in Actors : Remove(a)
        \/ Create
        \/ Commit
        \/ \E place \in {"idle", "rmtree"} : Leave(place)
        \/ Crash

Spec == Init /\ [][Next]_vars

-----------------------------------------------------------------------------
(* Properties *)

RepoTyped == /\ clone \in {None, "torn", "empty", "whole"}
             /\ tree \in [Slugs -> Trees]
             /\ entry \in [Slugs -> {None, "plain", "locked"}]
             /\ ref \in [Slugs -> {None} \cup Contents]

ActorsTyped == /\ job \in 0 .. MaxJobs
               /\ pc \in [Actors -> Places]
               /\ at \in [Actors -> Slugs]
               /\ within \in {"create", "job"}
               /\ pc[Executor] \in {"idle", "clone", "working", "failed"} => within = "job"
               /\ \A a \in Actors : pc[a] \notin {"idle", "clone", "failed"} => clone = "whole"
               /\ undisturbed \subseteq Actors

\* Every variable keeps its type, the executor is in create() at its commands only,
\* and every worktree command finds a whole base clone to run in, whichever clones
\* and fetches failed before.
TypeOK == /\ RepoTyped
          /\ ActorsTyped
          /\ {cleanups, faults, crashes} \subseteq Nat

\* A job works in its own tree, a broken one or none: never in a leftover of an
\* earlier job of its slug, and never in one that `add` had not filled.
WorkIsOwn == pc[Executor] = "working" =>
                tree[at[Executor]] \in {None, Broken, Base, job}

\* What the job pushes is what it worked on: its branch, pushed by name, holds
\* the content of its tree, though callbacks delete branches.
BranchHoldsTheWork == pc[Executor] = "working" /\ Worktree(at[Executor]) =>
                         ref[at[Executor]] = tree[at[Executor]]

\* "Remove any stale worktree + branch so a retry starts clean": a job that meets
\* no fault and no other actor gets its tree, whatever the jobs, clones and
\* removals before it left, but for a clone killed before it knew its remote, a
\* directory that is no worktree, and a locked entry without one.
RetryStartsClean ==
    [][pc[Executor] # "failed" /\ pc'[Executor] = "failed" /\ Executor \in undisturbed' =>
          LET s == at[Executor]
          IN  clone = "torn" \/ tree[s] = Broken \/ (tree[s] = None /\ entry[s] = "locked")]_vars

\* An undisturbed remove() leaves neither directory, entry nor branch, whatever
\* an earlier create() or remove() left; but a broken directory stays.
RemoveLeavesNothing ==
    [][\A a \in Actors :
          /\ pc[a] = "rmbranch" /\ pc'[a] \in {"idle", "prune"} /\ crashes' = crashes
          /\ a \in undisturbed' /\ tree[at[a]] # Broken
          => tree[at[a]] = None /\ entry'[at[a]] = None /\ ref'[at[a]] = None]_vars
=============================================================================
