---------------------------- MODULE TaskExecution ----------------------------
(***************************************************************************)
(* One process of the agent: the background jobs of TaskExecutionService   *)
(* (one at a time under an asyncio.Lock), the Telegram callbacks that      *)
(* approve or cancel a run (concurrent with the jobs and with one another, *)
(* not under the lock), and what they share: the task_runs rows, the git   *)
(* worktrees, the branches on origin, the merge requests and the cards in  *)
(* the chat.  Every external call may fail, with or without having taken   *)
(* effect, and the process may be killed and restarted at any await.       *)
(*                                                                         *)
(* Job j creates run row j; the content of a change is named by the job    *)
(* whose coder committed it, Base is the target branch without a commit.   *)
(***************************************************************************)
EXTENDS Naturals, FiniteSets

CONSTANTS Jobs,         \* accepted tasks, numbered in the order of start()
          Slugs,        \* values of make_branch_slug; two tasks may share one
          Handlers,     \* callback updates the bot handles concurrently
          Faults,       \* the services that may fail: db, git, gitlab, telegram
          DryRunModes,  \* settings of execution_dry_run the process may boot with
          MaxPresses,   \* bound: button presses by the user
          MaxCrashes,   \* bound: process kills
          Base, None

ASSUME JobsAreNumbered == Jobs \subseteq Nat
ASSUME MarkersAreFresh == /\ Base # None
                          /\ {Base, None} \cap (Jobs \cup Slugs) = {}
ASSUME FaultsAssumption == Faults \subseteq {"db", "git", "gitlab", "telegram"}
ASSUME DryRunAssumption == DryRunModes \subseteq BOOLEAN
ASSUME BoundsAssumption == MaxPresses \in Nat /\ MaxCrashes \in Nat
ASSUME HandlersAreFinite == IsFiniteSet(Handlers)

VARIABLES
    \* the task_runs row of each job; mrIid names the job that opened the request
    status, branch, mrIid, error,
    \* what _execute has learned: the jobs whose gate_suite.all_passed, and the
    \* content the reviewer approved for each
    passed, reviewed,
    \* the job coroutines and the executor's lock
    pc, slug, raised, lock,
    \* git: content of each worktree and of each branch on origin
    worktree, remote,
    \* GitLab: the merge request a job opened, and the changes merged
    mr, trunk,
    \* Telegram: the run's card, how often each update waits, presses so far
    card, inbox, presses,
    \* runs whose Approve button was pressed (history)
    approvals,
    \* callback handlers: place, run, exception caught
    hpc, hrun, hexc,
    \* environment
    crashes, dryRun

evidence == <<passed, reviewed>>
rows     == <<status, branch, mrIid, error>>
jobs     == <<pc, slug, raised, lock>>
git      == <<worktree, remote>>
gitlab   == <<mr, trunk>>
chat     == <<card, inbox, presses, approvals>>
handlers == <<hpc, hrun, hexc>>
env      == <<crashes, dryRun>>

vars == <<evidence, rows, jobs, git, gitlab, chat, handlers, env>>

-----------------------------------------------------------------------------
(* Vocabulary *)

Statuses == {"none", "pending", "preparing", "coding", "testing", "reviewing",
             "pushing", "awaiting", "merging", "done", "failed", "cancelled"}
Contents == {None, Base} \cup Jobs
Causes   == {"none", "telegram", "other"}

\* The callbacks of the cards: a run and a button.
Buttons == {"approve", "cancel"}
Updates == Jobs \X Buttons

\* Where a job holds the lock: everything between entering and leaving
\* `async with self._lock`.
Critical == {"prepare", "tree", "savetree", "code", "coder", "claude", "test",
             "gates", "review", "reviewer", "dryrun", "dryclean", "push",
             "pushing", "openmr", "savemr", "await", "card", "fail"}
Places   == {"none", "queued", "end"} \cup Critical

HandlerPlaces == {"idle", "load", "begin", "merge", "clean", "finish", "failing",
                  "cancel", "save"}

\* `_set_status` calls of _execute: the place before, the status written and
\* the place after.
Stages == {[at |-> "prepare", status |-> "preparing", next |-> "tree"],
           [at |-> "code",    status |-> "coding",    next |-> "coder"],
           [at |-> "test",    status |-> "testing",   next |-> "gates"],
           [at |-> "review",  status |-> "reviewing", next |-> "reviewer"],
           [at |-> "push",    status |-> "pushing",   next |-> "pushing"],
           [at |-> "await",   status |-> "awaiting",  next |-> "card"]}

CanFail(service) == service \in Faults

Verified(c) == c \in passed /\ reviewed[c] = c

\* How a job moves: on, into the except clause, or out of the lock.
Goto(j, place) == /\ pc' = [pc EXCEPT ![j] = place]
                  /\ UNCHANGED <<slug, raised, lock>>

Raise(j, cause) == /\ pc' = [pc EXCEPT ![j] = "fail"]
                   /\ raised' = [raised EXCEPT ![j] = cause]
                   /\ UNCHANGED <<slug, lock>>

Release(j) == /\ pc' = [pc EXCEPT ![j] = "end"]
              /\ lock' = None
              /\ UNCHANGED <<slug, raised>>

\* How a handler moves.
HGoto(h, place) == /\ hpc' = [hpc EXCEPT ![h] = place]
                   /\ UNCHANGED <<hrun, hexc>>

HEnd(h) == /\ hpc' = [hpc EXCEPT ![h] = "idle"]
           /\ hrun' = [hrun EXCEPT ![h] = None]
           /\ hexc' = [hexc EXCEPT ![h] = "none"]

HRaise(h, cause) == /\ hpc' = [hpc EXCEPT ![h] = "failing"]
                    /\ hexc' = [hexc EXCEPT ![h] = cause]
                    /\ UNCHANGED hrun

\* WorktreeManager.remove: GitErrors are logged and swallowed, so a failing
\* git leaves the tree behind.
RemoveTree(s) == \/ worktree' = [worktree EXCEPT ![s] = None]
                 \/ CanFail("git") /\ UNCHANGED worktree

-----------------------------------------------------------------------------
Init == /\ status = [j \in Jobs |-> "none"]
        /\ branch = [j \in Jobs |-> None]
        /\ mrIid = [j \in Jobs |-> None]
        /\ error = [j \in Jobs |-> "none"]
        /\ passed = {}
        /\ reviewed = [j \in Jobs |-> None]
        /\ pc = [j \in Jobs |-> "none"]
        /\ slug = [j \in Jobs |-> None]
        /\ raised = [j \in Jobs |-> "none"]
        /\ lock = None
        /\ worktree = [s \in Slugs |-> None]
        /\ remote = [s \in Slugs |-> None]
        /\ mr = [j \in Jobs |-> "none"]
        /\ trunk = {}
        /\ card = [j \in Jobs |-> "none"]
        /\ inbox = [u \in Updates |-> 0]
        /\ presses = 0
        /\ approvals = {}
        /\ hpc = [h \in Handlers |-> "idle"]
        /\ hrun = [h \in Handlers |-> None]
        /\ hexc = [h \in Handlers |-> "none"]
        /\ crashes = 0
        /\ dryRun \in DryRunModes

-----------------------------------------------------------------------------
(* The jobs: start, _run_safe and _execute *)

\* start(): create_task for a task whose slug is s; it waits for the lock.
Start(j, s) == /\ pc[j] = "none"
               /\ \A k \in Jobs : k < j => pc[k] # "none"
               /\ pc' = [pc EXCEPT ![j] = "queued"]
               /\ slug' = [slug EXCEPT ![j] = s]
               /\ UNCHANGED <<raised, lock, evidence, rows, git, gitlab, chat,
                              handlers, env>>

\* Variant: the lock is not waited for.
AcquireUnlocked(j) ==
    /\ pc[j] = "queued"
    /\ status' = [status EXCEPT ![j] = "pending"]
    /\ pc' = [pc EXCEPT ![j] = "prepare"]
    /\ lock' = j
    /\ UNCHANGED <<slug, raised, branch, mrIid, error, evidence, git, gitlab, chat,
                   handlers, env>>

\* asyncio.Lock wakes its waiters in order.  create_for_task stands outside
\* the try: when it raises, the job is gone without a row or a message.
Acquire(j) == /\ pc[j] = "queued"
              /\ lock = None
              /\ \A k \in Jobs : k < j => pc[k] # "queued"
              /\ \/ /\ status' = [status EXCEPT ![j] = "pending"]
                    /\ pc' = [pc EXCEPT ![j] = "prepare"]
                    /\ lock' = j
                 \/ /\ CanFail("db")
                    /\ status' \in {status, [status EXCEPT ![j] = "pending"]}
                    /\ pc' = [pc EXCEPT ![j] = "end"]
                    /\ UNCHANGED lock
              /\ UNCHANGED <<slug, raised, branch, mrIid, error, evidence, git,
                             gitlab, chat, handlers, env>>

\* _set_status, then _notify, which swallows what Telegram raises.
EnterStage(j) ==
    /\ \E st \in Stages :
          /\ pc[j] = st.at
          /\ \/ /\ status' = [status EXCEPT ![j] = st.status]
                /\ Goto(j, st.next)
             \/ /\ CanFail("db")
                /\ status' \in {status, [status EXCEPT ![j] = st.status]}
                /\ Raise(j, "other")
    /\ UNCHANGED <<branch, mrIid, error, evidence, git, gitlab, chat, handlers, env>>

\* Variant: an existing tree is used again.
CreateTreeReusing(j) ==
    /\ pc[j] = "tree"
    /\ worktree' = [worktree EXCEPT ![slug[j]] = IF @ = None THEN Base ELSE @]
    /\ Goto(j, "savetree")
    /\ UNCHANGED <<remote, evidence, rows, gitlab, chat, handlers, env>>

\* ensure_cloned, then WorktreeManager.create: a stale tree and local branch of
\* this slug are dropped first.  A git command that fails, or is killed by its
\* timeout, leaves the old tree, no tree or a fresh one.
CreateTree(j) ==
    /\ pc[j] = "tree"
    /\ \/ /\ worktree' = [worktree EXCEPT ![slug[j]] = Base]
          /\ Goto(j, "savetree")
       \/ /\ CanFail("git")
          /\ \E left \in {worktree[slug[j]], None, Base} :
                worktree' = [worktree EXCEPT ![slug[j]] = left]
          /\ Raise(j, "other")
    /\ UNCHANGED <<remote, evidence, rows, gitlab, chat, handlers, env>>

SaveTree(j) == /\ pc[j] = "savetree"
               /\ \/ /\ branch' = [branch EXCEPT ![j] = slug[j]]
                     /\ Goto(j, "code")
                  \/ /\ CanFail("db")
                     /\ branch' \in {branch, [branch EXCEPT ![j] = slug[j]]}
                     /\ Raise(j, "other")
               /\ UNCHANGED <<status, mrIid, error, evidence, git, gitlab, chat,
                              handlers, env>>

\* ClaudeRunner.run refuses a cwd that is no directory (any more).
StartCoder(j) == /\ pc[j] = "coder"
                 /\ IF worktree[slug[j]] # None THEN Goto(j, "claude")
                                                ELSE Raise(j, "other")
                 /\ UNCHANGED <<evidence, rows, git, gitlab, chat, handlers, env>>

\* The coder ends: with or without a commit, and with a result _execute takes
\* (rate_limited, success, the event and counter saved) or raises on.
RunCoder(j) ==
    /\ pc[j] = "claude"
    /\ LET tree == worktree[slug[j]]
       IN  \E left \in {tree} \cup (IF tree = None THEN {} ELSE {j}) :
              worktree' = [worktree EXCEPT ![slug[j]] = left]
    /\ Goto(j, "test") \/ Raise(j, "other")
    /\ UNCHANGED <<remote, evidence, rows, gitlab, chat, handlers, env>>

\* QualityGates.run in the worktree; without one the subprocess cannot start.
RunGates(j) ==
    /\ pc[j] = "gates"
    /\ \/ /\ worktree[slug[j]] # None
          /\ passed' = passed \cup {j}
          /\ Goto(j, "review")
       \/ /\ Raise(j, "other")
          /\ UNCHANGED passed
    /\ UNCHANGED <<reviewed, rows, git, gitlab, chat, handlers, env>>

\* Variant: a "comment" verdict lets the job on.
ReviewCommented(j) ==
    /\ pc[j] = "reviewer"
    /\ worktree[slug[j]] # None
    /\ Goto(j, IF dryRun THEN "dryrun" ELSE "push")
    /\ UNCHANGED <<evidence, rows, git, gitlab, chat, handlers, env>>

\* diff_against_base and ReviewerAgent.review: only "approve" lets the job on.
Review(j) ==
    /\ pc[j] = "reviewer"
    /\ \/ /\ worktree[slug[j]] # None
          /\ reviewed' = [reviewed EXCEPT ![j] = worktree[slug[j]]]
          /\ Goto(j, IF dryRun THEN "dryrun" ELSE "push")
       \/ /\ Raise(j, "other")
          /\ UNCHANGED reviewed
    /\ UNCHANGED <<passed, rows, git, gitlab, chat, handlers, env>>

\* A dry run is done after the review: mark_done, then the tree is removed.
DryRunDone(j) == /\ pc[j] = "dryrun"
                 /\ \/ /\ status' = [status EXCEPT ![j] = "done"]
                       /\ Goto(j, "dryclean")
                    \/ /\ CanFail("db")
                       /\ status' \in {status, [status EXCEPT ![j] = "done"]}
                       /\ Raise(j, "other")
                 /\ UNCHANGED <<branch, mrIid, error, evidence, git, gitlab, chat,
                                handlers, env>>

DryRunClean(j) == /\ pc[j] = "dryclean"
                  /\ RemoveTree(slug[j])
                  /\ Release(j)
                  /\ UNCHANGED <<remote, evidence, rows, gitlab, chat, handlers, env>>

\* git push without force: origin takes it when it has no such branch or an
\* ancestor of what is pushed.  The push may land though its reply is lost.
FastForwards(old, new) == new # None /\ old \in {None, Base, new}

Push(j) ==
    LET s == slug[j]
    IN  /\ pc[j] = "pushing"
        /\ \/ /\ FastForwards(remote[s], worktree[s])
              /\ remote' = [remote EXCEPT ![s] = worktree[s]]
              /\ Goto(j, "openmr") \/ (CanFail("git") /\ Raise(j, "other"))
           \/ /\ CanFail("git") \/ ~FastForwards(remote[s], worktree[s])
              /\ Raise(j, "other")
              /\ UNCHANGED remote
        /\ UNCHANGED <<worktree, evidence, rows, gitlab, chat, handlers, env>>

\* create_merge_request: GitLab refuses a second open one for a source branch.
CanOpen(s) == /\ remote[s] # None
              /\ \A k \in Jobs : ~(mr[k] = "opened" /\ slug[k] = s)

OpenMR(j) ==
    /\ pc[j] = "openmr"
    /\ \/ /\ CanOpen(slug[j])
          /\ mr' = [mr EXCEPT ![j] = "opened"]
          /\ Goto(j, "savemr") \/ (CanFail("gitlab") /\ Raise(j, "other"))
       \/ /\ CanFail("gitlab") \/ ~CanOpen(slug[j])
          /\ Raise(j, "other")
          /\ UNCHANGED mr
    /\ UNCHANGED <<trunk, evidence, rows, git, chat, handlers, env>>

\* Variant: the request's number is kept in memory only.
SaveMRForgotten(j) == /\ pc[j] = "savemr"
                      /\ Goto(j, "await")
                      /\ UNCHANGED <<rows, evidence, git, gitlab, chat, handlers, env>>

SaveMR(j) == /\ pc[j] = "savemr"
             /\ \/ /\ mrIid' = [mrIid EXCEPT ![j] = j]
                   /\ Goto(j, "await")
                \/ /\ CanFail("db")
                   /\ mrIid' \in {mrIid, [mrIid EXCEPT ![j] = j]}
                   /\ Raise(j, "other")
             /\ UNCHANGED <<status, branch, error, evidence, git, gitlab, chat,
                            handlers, env>>

\* Variant: a failed send is retried from the AWAITING_APPROVAL stage.
SendCardRetried(j) ==
    /\ pc[j] = "card"
    /\ card' = [card EXCEPT ![j] = "buttons"]
    /\ Release(j) \/ (CanFail("telegram") /\ Goto(j, "await"))
    /\ UNCHANGED <<inbox, presses, approvals, evidence, rows, git, gitlab, handlers,
                   env>>

\* send_mr_ready, the one message of _execute that is not best effort.
SendCard(j) == /\ pc[j] = "card"
               /\ \/ /\ card' = [card EXCEPT ![j] = "buttons"]
                     /\ Release(j) \/ (CanFail("telegram") /\ Raise(j, "telegram"))
                  \/ /\ CanFail("telegram")
                     /\ Raise(j, "telegram")
                     /\ UNCHANGED card
               /\ UNCHANGED <<inbox, presses, approvals, evidence, rows, git, gitlab,
                              handlers, env>>

\* Variant: rate limits get a status of their own, unknown to TaskRunStatus.
FailRateLimited(j) ==
    /\ pc[j] = "fail"
    /\ status' = [status EXCEPT ![j] = "rate_limited"]
    /\ Release(j)
    /\ UNCHANGED <<branch, mrIid, error, evidence, git, gitlab, chat, handlers, env>>

\* Variant: the lock is acquired and released by hand, not on failures.
FailLocked(j) ==
    /\ pc[j] = "fail"
    /\ status' = [status EXCEPT ![j] = "failed"]
    /\ Goto(j, "end")
    /\ UNCHANGED <<branch, mrIid, error, evidence, git, gitlab, chat, handlers, env>>

\* The except clauses of _run_safe: mark_failed and a best-effort message.  If
\* mark_failed raises too, the lock is released and the row stays as it is.
Fail(j) == /\ pc[j] = "fail"
           /\ \/ /\ status' = [status EXCEPT ![j] = "failed"]
                 /\ error' = [error EXCEPT ![j] = raised[j]]
              \/ CanFail("db") /\ UNCHANGED <<status, error>>
           /\ Release(j)
           /\ UNCHANGED <<branch, mrIid, evidence, git, gitlab, chat, handlers, env>>

-----------------------------------------------------------------------------
(* The callbacks: on_mr_decision, approve_and_merge and cancel *)

\* The user presses a button of run j's card, as often as it is there: each
\* press is an update of its own, until an edit takes the buttons away.
Press(j, button) == /\ card[j] = "buttons"
                    /\ presses < MaxPresses
                    /\ presses' = presses + 1
                    /\ inbox' = [inbox EXCEPT ![<<j, button>>] = @ + 1]
                    /\ approvals' = IF button = "approve" THEN approvals \cup {j}
                                                         ELSE approvals
                    /\ UNCHANGED <<card, evidence, rows, jobs, git, gitlab,
                                   handlers, env>>

\* Variant: the cancel branch calls approve_mr.
ActForEither(button) == "load"

\* What a button shows on the card, and where its handler goes then.
TextFor(button) == IF button = "approve" THEN "merging" ELSE "cancelling"
ActFor(button) == IF button = "approve" THEN "load" ELSE "cancel"

\* on_mr_decision takes an update and first edits the card, which drops its
\* buttons; only then does it act.  Telegram refuses an edit that changes
\* nothing, and when the edit raises the decision is dropped.
Answer(h, update) ==
    LET j    == update[1]
        text == TextFor(update[2])
        Drop == UNCHANGED handlers
    IN  /\ hpc[h] = "idle"
        /\ inbox[update] > 0
        /\ inbox' = [inbox EXCEPT ![update] = @ - 1]
        /\ \/ /\ card[j] # text
              /\ card' = [card EXCEPT ![j] = text]
              /\ \/ /\ hpc' = [hpc EXCEPT ![h] = ActFor(update[2])]
                    /\ hrun' = [hrun EXCEPT ![h] = j]
                    /\ UNCHANGED hexc
                 \/ CanFail("telegram") /\ Drop
           \/ /\ CanFail("telegram") \/ card[j] = text
              /\ Drop
              /\ UNCHANGED card
        /\ UNCHANGED <<presses, approvals, evidence, rows, jobs, git, gitlab, env>>

\* Variant: approvals are refused while the executor is busy.
LoadRunWhenFree(h) ==
    /\ hpc[h] = "load"
    /\ IF /\ lock = None /\ status[hrun[h]] = "awaiting" /\ mrIid[hrun[h]] # None
       THEN HGoto(h, "begin")
       ELSE HEnd(h)
    /\ UNCHANGED <<evidence, rows, jobs, git, gitlab, chat, env>>

\* approve_and_merge: the checks, on the row as it is now ...
LoadRun(h) ==
    /\ hpc[h] = "load"
    /\ \/ /\ status[hrun[h]] = "awaiting"
          /\ mrIid[hrun[h]] # None
          /\ HGoto(h, "begin")
       \/ /\ \/ CanFail("db")
             \/ status[hrun[h]] # "awaiting"
             \/ mrIid[hrun[h]] = None
          /\ HEnd(h)
    /\ UNCHANGED <<evidence, rows, jobs, git, gitlab, chat, env>>

\* Variant: the progress message is sent before the try.
BeginMergeUnguarded(h) ==
    /\ hpc[h] = "begin"
    /\ status' = [status EXCEPT ![hrun[h]] = "merging"]
    /\ HGoto(h, "merge") \/ (CanFail("telegram") /\ HEnd(h))
    /\ UNCHANGED <<branch, mrIid, error, evidence, jobs, git, gitlab, chat, env>>

\* ... then, after an await, MERGING is written and a progress message sent,
\* this one not best effort.
BeginMerge(h) ==
    /\ hpc[h] = "begin"
    /\ \/ /\ status' = [status EXCEPT ![hrun[h]] = "merging"]
          /\ HGoto(h, "merge") \/ (CanFail("telegram") /\ HRaise(h, "telegram"))
       \/ /\ CanFail("db")
          /\ status' \in {status, [status EXCEPT ![hrun[h]] = "merging"]}
          /\ HRaise(h, "other")
    /\ UNCHANGED <<branch, mrIid, error, evidence, jobs, git, gitlab, chat, env>>

\* Variant: an error of the merge call is only logged.
MergeSwallowing(h) ==
    LET j == hrun[h]
        s == slug[j]
    IN  /\ hpc[h] = "merge"
        /\ \/ /\ mr[j] = "opened"
              /\ mr' = [mr EXCEPT ![j] = "merged"]
              /\ trunk' = trunk \cup ({remote[s]} \cap Jobs)
              /\ remote' = [remote EXCEPT ![s] = None]
           \/ CanFail("gitlab") /\ UNCHANGED <<mr, trunk, remote>>
        /\ HGoto(h, "clean")
        /\ UNCHANGED <<worktree, evidence, rows, jobs, chat, env>>

\* Variant: a request that is merged already is somebody else's to finish.
MergeOnce(h) ==
    LET j == hrun[h]
        s == slug[j]
    IN  /\ hpc[h] = "merge"
        /\ \/ /\ mr[j] = "opened"
              /\ mr' = [mr EXCEPT ![j] = "merged"]
              /\ trunk' = trunk \cup ({remote[s]} \cap Jobs)
              /\ remote' = [remote EXCEPT ![s] = None]
              /\ HGoto(h, "clean") \/ (CanFail("gitlab") /\ HRaise(h, "other"))
           \/ /\ CanFail("gitlab") /\ mr[j] = "opened"
              /\ HRaise(h, "other")
              /\ UNCHANGED <<mr, trunk, remote>>
           \/ /\ mr[j] # "opened"
              /\ HEnd(h)
              /\ UNCHANGED <<mr, trunk, remote>>
        /\ UNCHANGED <<worktree, evidence, rows, jobs, chat, env>>

\* merge_merge_request merges what the source branch holds now and removes that
\* branch; it reads the request back afterwards, which may fail.
Merge(h) ==
    LET j == hrun[h]
        s == slug[j]
    IN  /\ hpc[h] = "merge"
        /\ \/ /\ mr[j] = "opened"
              /\ mr' = [mr EXCEPT ![j] = "merged"]
              /\ trunk' = trunk \cup ({remote[s]} \cap Jobs)
              /\ remote' = [remote EXCEPT ![s] = None]
              /\ HGoto(h, "clean") \/ (CanFail("gitlab") /\ HRaise(h, "other"))
           \/ /\ CanFail("gitlab") \/ mr[j] # "opened"
              /\ HRaise(h, "other")
              /\ UNCHANGED <<mr, trunk, remote>>
        /\ UNCHANGED <<worktree, evidence, rows, jobs, chat, env>>

\* _cleanup_worktree removes the tree of the row's branch, whoever uses it.
Cleanup(j) == IF branch[j] = None THEN UNCHANGED worktree ELSE RemoveTree(branch[j])

CleanMerged(h) == /\ hpc[h] = "clean"
                  /\ Cleanup(hrun[h])
                  /\ HGoto(h, "finish")
                  /\ UNCHANGED <<remote, evidence, rows, jobs, gitlab, chat, env>>

\* mark_done, then send_run_finished, inside the same try.
FinishMerge(h) ==
    /\ hpc[h] = "finish"
    /\ \/ /\ status' = [status EXCEPT ![hrun[h]] = "done"]
          /\ HEnd(h) \/ (CanFail("telegram") /\ HRaise(h, "telegram"))
       \/ /\ CanFail("db")
          /\ status' \in {status, [status EXCEPT ![hrun[h]] = "done"]}
          /\ HRaise(h, "other")
    /\ UNCHANGED <<branch, mrIid, error, evidence, jobs, git, gitlab, chat, env>>

FailMerge(h) ==
    /\ hpc[h] = "failing"
    /\ \/ /\ status' = [status EXCEPT ![hrun[h]] = "failed"]
          /\ error' = [error EXCEPT ![hrun[h]] = hexc[h]]
       \/ CanFail("db") /\ UNCHANGED <<status, error>>
    /\ HEnd(h)
    /\ UNCHANGED <<branch, mrIid, evidence, jobs, git, gitlab, chat, env>>

\* cancel: whatever the status, the tree is removed ...
CleanCancelled(h) == /\ hpc[h] = "cancel"
                     /\ \/ Cleanup(hrun[h]) /\ HGoto(h, "save")
                        \/ /\ CanFail("db")
                           /\ HEnd(h)
                           /\ UNCHANGED worktree
                     /\ UNCHANGED <<remote, evidence, rows, jobs, gitlab, chat, env>>

\* ... and CANCELLED is written; the merge request stays open.
SaveCancelled(h) == /\ hpc[h] = "save"
                    /\ \/ status' = [status EXCEPT ![hrun[h]] = "cancelled"]
                       \/ CanFail("db") /\ UNCHANGED status
                    /\ HEnd(h)
                    /\ UNCHANGED <<branch, mrIid, error, evidence, jobs, git, gitlab,
                                   chat, env>>

-----------------------------------------------------------------------------
(* The process *)

\* Killed and restarted: coroutines, lock and handlers are gone, queued jobs
\* with them; rows, trees, branches and cards stay.  Updates being handled may
\* be delivered again, their offset not being confirmed yet.
InFlight == {h \in Handlers : hpc[h] # "idle"}
UpdateOf(h) == <<hrun[h], IF hpc[h] \in {"cancel", "save"} THEN "cancel" ELSE "approve">>

Crash == /\ crashes < MaxCrashes
         /\ crashes' = crashes + 1
         /\ dryRun' \in DryRunModes
         /\ pc' = [j \in Jobs |-> IF pc[j] = "none" THEN "none" ELSE "end"]
         /\ lock' = None
         /\ hpc' = [h \in Handlers |-> "idle"]
         /\ hrun' = [h \in Handlers |-> None]
         /\ hexc' = [h \in Handlers |-> "none"]
         /\ \E again \in SUBSET InFlight :
               inbox' = [u \in Updates |-> inbox[u] + Cardinality({h \in again : UpdateOf(h) = u})]
         /\ UNCHANGED <<slug, raised, card, presses, approvals, evidence,
                        rows, git, gitlab>>

JobStep(j) == \/ Acquire(j)
              \/ EnterStage(j)
              \/ CreateTree(j)
              \/ SaveTree(j)
              \/ StartCoder(j)
              \/ RunCoder(j)
              \/ RunGates(j)
              \/ Review(j)
              \/ DryRunDone(j)
              \/ DryRunClean(j)
              \/ Push(j)
              \/ OpenMR(j)
              \/ SaveMR(j)
              \/ SendCard(j)
              \/ Fail(j)

HandlerStep(h) == \/ LoadRun(h)
                  \/ BeginMerge(h)
                  \/ Merge(h)
                  \/ CleanMerged(h)
                  \/ FinishMerge(h)
                  \/ FailMerge(h)
                  \/ CleanCancelled(h)
                  \/ SaveCancelled(h)

Next == \/ \E j \in Jobs : \/ \E s \in Slugs : Start(j, s)
                           \/ JobStep(j)
                           \/ \E button \in Buttons : Press(j, button)
        \/ \E h \in Handlers : \/ \E update \in Updates : Answer(h, update)
                               \/ HandlerStep(h)
        \/ Crash

Spec == Init /\ [][Next]_vars

\* A started coroutine goes on: git, Claude, gates and Telegram calls all have
\* timeouts in the code, the database answers or raises, GitLab is assumed to
\* do so too.  Nothing makes the user press, the process crash or tasks arrive.
Fairness == /\ \A j \in Jobs : WF_vars(JobStep(j))
            /\ \A h \in Handlers : WF_vars(HandlerStep(h))
            /\ WF_vars(\E h \in Handlers : \E update \in Updates : Answer(h, update))

FairSpec == Spec /\ Fairness

-----------------------------------------------------------------------------
(* Safety *)

\* Every variable keeps its type; statuses are those of TaskRunStatus that the
\* code writes.
TypeOK == /\ status \in [Jobs -> Statuses]
          /\ branch \in [Jobs -> Slugs \cup {None}]
          /\ mrIid \in [Jobs -> Jobs \cup {None}]
          /\ error \in [Jobs -> Causes]
          /\ passed \subseteq Jobs
          /\ reviewed \in [Jobs -> Contents]
          /\ pc \in [Jobs -> Places]
          /\ slug \in [Jobs -> Slugs \cup {None}]
          /\ raised \in [Jobs -> Causes]
          /\ lock \in Jobs \cup {None}
          /\ worktree \in [Slugs -> Contents]
          /\ remote \in [Slugs -> Contents]
          /\ mr \in [Jobs -> {"none", "opened", "merged"}]
          /\ trunk \subseteq Jobs
          /\ card \in [Jobs -> {"none", "buttons", "merging", "cancelling"}]
          /\ inbox \in [Updates -> Nat]
          /\ presses \in Nat
          /\ approvals \subseteq Jobs
          /\ hpc \in [Handlers -> HandlerPlaces]
          /\ hrun \in [Handlers -> Jobs \cup {None}]
          /\ hexc \in [Handlers -> Causes]
          /\ crashes \in Nat
          /\ dryRun \in BOOLEAN

\* The path of _execute from a created tree to its push.
Working == Critical \ {"prepare", "tree", "fail", "openmr", "savemr", "await", "card"}

\* While a job works, its tree holds its own change or none: no other job of
\* the same slug, no leftover of an earlier run and no cleanup by a callback
\* puts a foreign change in it (_run_safe's lock with WorktreeManager.create).
WorktreeIsOwn == \A j \in Jobs : pc[j] \in Working =>
                                    worktree[slug[j]] \in {None, Base, j}

\* A change on origin passed the gates and was approved by the reviewer as it
\* is there, though trees are shared by slug, left behind by crashes and
\* removed by callbacks between the review and the push.
PublishedWasVerified == \A s \in Slugs : remote[s] \in Jobs => Verified(remote[s])

\* A change reaches the target branch only if it was verified and the user
\* pressed Approve for a run of its branch (on_mr_decision, approve_and_merge).
MergedWasApproved == \A c \in trunk : /\ Verified(c)
                                      /\ \E a \in approvals : slug[a] = slug[c]

\* A run whose row awaits approval, or is being merged, has everything the
\* merge needs: its request number, its branch and a request in GitLab.  So
\* the "run has no MR to merge" error of approve_and_merge never happens.
AwaitingIsMergeable == \A j \in Jobs : status[j] \in {"awaiting", "merging"} =>
                                          /\ mrIid[j] = j
                                          /\ mr[j] # "none"
                                          /\ branch[j] = slug[j]

\* mark_done is only reached by a merged request or by a dry run, which leaves
\* its change unpublished although the gates and the reviewer passed it.
DoneIsMergedOrDry == \A j \in Jobs : status[j] = "done" =>
                        \/ mr[j] = "merged"
                        \/ /\ mrIid[j] = None /\ mr[j] = "none"
                           /\ j \in passed /\ reviewed[j] # None
                           /\ j \notin trunk

\* A run that left the executor, by a decision or a failure, never goes back to
\* a stage or to awaiting approval: the job and the callbacks write the same row
\* blindly, and a card can be live before the job that sent it is finished.
Decided == {"merging", "done", "failed", "cancelled"}

NeverReopened == [][\A j \in Jobs : status[j] \in Decided => status'[j] \in Decided]_vars

(* Refinement *)

\* The executor implements MergeGate: what is verified, published, approved and
\* merged here is so there.
Gate == INSTANCE MergeGate WITH
            Changes   <- Jobs,
            Branches  <- Slugs,
            branch    <- slug,
            verified  <- {c \in Jobs : Verified(c)},
            published <- trunk \cup {c \in Jobs : \E s \in Slugs : remote[s] = c},
            approved  <- approvals,
            merged    <- trunk

KeepsTheGate == Gate!Spec

(* Liveness *)

\* Without a crash and with a working database, every accepted task settles:
\* its run is done, failed, or waits for the user; no failure keeps the lock.
AcceptedSettles ==
    \A j \in Jobs : (pc[j] = "queued") ~>
                       (pc[j] = "end" /\ status[j] \in Decided \cup {"awaiting"})

\* A merge that began ends in a recorded outcome, also when two approvals of the
\* run, both past the check of its status, merge at the same time.
MergingResolves ==
    \A j \in Jobs : (status[j] = "merging") ~> (status[j] \in Decided \ {"merging"})

\* An approval sent to the bot is acted on, even next to other presses.
ApprovalActsOn ==
    \A j \in Jobs : (inbox[<<j, "approve">>] > 0) ~> (status[j] # "awaiting")

(* A claim of the repository the code does not keep *)

\* "a Telegram outage must not abort a run" (TaskExecutionService._notify).
OutageNeverAborts == \A j \in Jobs : status[j] = "failed" => error[j] # "telegram"
=============================================================================
