# A verification project for the personal AI engineer

The program watches Notion for tasks, offers each one in Telegram, and for an accepted task lets
Claude write the change in a git worktree, runs the quality gates, has a second Claude review the
diff, pushes the branch, opens a merge request and merges it when the user says so. One asyncio
process does all of this; PostgreSQL, git, GitLab, Notion and Telegram can each fail at any call, and
scripts started by hand work in the same directories.
This directory holds TLA+ models of it, TLC runs that check them on small instances, and proofs
checked by TLAPS for every instance. Paths below are relative to `src/src/ai_agent/`.

## Inventory

| Component | State | Operations | What is hard |
|---|---|---|---|
| `TaskExecutionService` | `_lock`, `_dry_run`, background tasks | `start`, `_run_safe`, `_execute`, `approve_and_merge`, `cancel` | callbacks run next to jobs without the lock; any of ~20 awaits may fail, with or without effect |
| `TaskDecisionService`, Telegram handlers | none (cards live in the chat) | `on_decision`, `on_mr_decision` | the same button twice, two buttons, redelivery after a restart, an edit that fails |
| `TaskRunsRepository` | a `task_runs` row per run | blind writes of single columns | job and callbacks write one row |
| `WorktreeManager`, `run_git` | directories, git's worktree registry, local branches | `create`, `remove`, `push`, `make_branch_slug` | commands killed at a timeout, swallowed errors, leftovers, `remove` next to `create`; names that collide or that git refuses |
| `RepoManager` | the base clone | `ensure_cloned` | a clone killed halfway, which is taken for a clone ever after |
| `GitLabClient` | merge requests, target branch (GitLab's) | create, merge | a merge whose reply is lost |
| `TaskIntakeService`, `NotionPollerInterface` | a poll's local variables | `process_poll_result`, `_handle_removed`, the loop | decisions made during a poll, a poll broken off halfway |
| `NotionClient` | cached user id | `fetch_tasks`, `fetch_page_body` | a query of many pages over data that changes; a body fetched in nested requests, any of which fails |
| `TasksRepository` | the `tasks` table | upsert, decision, notified | row created, card sent and card recorded are three steps |
| `ClaudeRunner` | none | one CLI call | exit code, timeout, last result and last rate limit together decide |
| `ReviewerAgent` | none | one CLI call, verdict from free text | a regular expression that counts braces |
| `QualityGates` | none | three commands in order | failures and timeouts of one among the others |
| lifecycle (`main.py`), dependency container | stop event, bot and poller tasks, one executor per process | start, stop, demo task | a dead bot in a live process, jobs and CLI threads that outlive the stop; nothing recovers killed jobs |
| scripts (`trigger_via_service.py`, `demo_e2e.py`, `offline_e2e.py`) | an executor, or its parts, in a process of their own | run a job, clean up | no lock is common to two processes; the trigger leaves before its job ends |
| `coder_prompt.py` | none | prompt, merge request text | whether the description is there |
| settings, schemas, errors, logging, migrations | configuration, declarations | | nothing a model would tell apart |

Interactions: poller -> intake -> card in the chat -> `on_decision` -> `accept` -> `start` -> job
(worktree, CLI, gates, CLI, push, merge request) -> card in the chat -> `on_mr_decision` ->
`approve_and_merge` or `cancel`, which share rows, trees and branches with running jobs.

What makes each part correct: nothing unverified on origin and nothing unapproved on the target
branch (execution, worktrees); a row that agrees with GitLab and whose decisions stay (execution,
callbacks); a card once per task, removals only of absent and undecided tasks, and a table that
catches up (intake); only good work passes and failures are told completely (agent calls); a retry
that starts clean (worktrees); a description that is the page or nothing (text); an agent that comes
back (processes); and everything accepted settles. `PROJECT.json` lists the hazards by line under "hazards".

## The modules

**MergeGate** is the abstract specification: changes are begun, verified, published, approved and
merged, with no stages, locks or faults. `Gated` is its promise.

**TaskExecution** is the core. A job is a coroutine with a program counter `pc[j]` whose places are
the awaits of `_run_safe` and `_execute`; `EnterStage` is `_set_status`, the other actions carry the
names of the calls. A handler `h` is one callback update at work, with its own counter `hpc[h]`.
Rows are the functions `status`, `branch`, `mrIid`, `error`; `worktree` and `remote` say which job's
change a tree or a branch on origin holds; `mr` and `trunk` are GitLab's. `Faults` names the
services that may fail; a failing call may have taken effect wherever a reply can be lost, a write
of a row among them. `inbox` counts how often each button's update waits, because every press is an
update of its own, and the updates whose handlers a crash kills may be delivered again. `Crash`
kills the coroutines and keeps what is on disk, in the database and in the chat.
Abstractions: a change is named by its job; `make_branch_slug` becomes a choice of slug that jobs
may share; progress messages and `append_event` only add failing branches that other calls already
have; the event loop switches at awaits, so an action is what happens between two of them.

**WorktreeManager** opens up the two steps `CreateTree` and `RemoveTree`: one action per git command
of `create` and `remove`, with git's own rules (`add -b` makes the branch first and is refused for a
path that exists or is registered; `remove` is refused for a directory without its `.git` file;
`prune` spares locked entries; `branch -D` is refused for a branch that is checked out) and what a
killed command leaves: a locked entry with a half-filled tree, a half-deleted directory, or a clone
with a `.git` directory but no remote (`clone`). The executor and callbacks interleave between
commands; `within` tells the `remove` inside `create` from the one that ends a dry run.

**AgentCalls** opens up `RunCoder`, `RunGates` and `Review`: it computes the outcomes TaskExecution
chooses. The CLI prints lines (a line is the kind of event it parses to), ends by itself or at its
timeout, and `CoderDone`/`ReviewerDone` are the branches of `_run_blocking`, `_execute` and `review`.
`broken` says which gates the coder's work does not pass (a gate may fail by chance besides), and
`named` which gates the error that is raised names. The reviewer's message is a sequence of tokens, braces of objects and braces in strings among them;
`Scan` and `FindAll` are what `findall` returns for the regular expression of `reviewer.py`, which
takes both kinds for braces, `IsObject` and `VerdictIn` what `json.loads` and `ReviewVerdict` take,
which take one.

**TaskIntake** is the poller with `process_poll_result`, and the callbacks of task cards. `ppc` is
the poller's place; `known`, `snapshot`, `decision` and `notified` are the table; `fetched`, `todo`
and `missing` are the local variables of a poll. `Edit` changes Notion at any moment, also between
two requests of one query.

**TaskText** is what a job computes before its coder runs: `Slug` is `make_branch_slug` over classes
of characters; `frames` is the stack of recursive calls of `_fetch_blocks`, one request or one child
per step, and `collected` the lists they build; `Rendered` and `Markdown` are `_notion_blocks.py`, with
a line for a block (which block, its indentation, its number in a list) in place of its characters.

**Processes** is the container: the agent, the trigger script and a probe, each `down`, `up`,
`closing` (main has left `asyncio.wait`, its jobs still run) or `unwinding` (jobs are cancelled, the
process waits for CLI threads and git children). `lock` is a function of the process, because the
executor is a singleton of a process' container. A job is TaskExecution's in the steps that touch a
worktree; all else may fail at any of them. A callback of the agent's
bot removes trees without the lock, of the agent's runs and of those whose card the trigger sent, also
while `main` closes. With PID 1 everything ends.

`MCTaskExecution`, `MCTaskIntake`, `MCWorktreeManager` and `MCProcesses` declare the model values and
the symmetry sets TLC uses; AgentCalls and TaskText need none. An operator marked `Variant` in a module is a plausible bug of the definition below it;
no specification uses it. It is there to be swapped in, to see that a property notices.

## The runs

| Run | Bounds | What it shows |
|---|---|---|
| TaskExecutionSafety | 2 jobs, 2 slugs, 2 handlers, 2 presses, 1 crash, all services fail | `WorktreeIsOwn`, `PublishedWasVerified`, `MergedWasApproved`, `AwaitingIsMergeable`, `DoneIsMergedOrDry`, `NeverReopened`, and `KeepsTheGate`: the executor implements MergeGate |
| TaskExecutionLive | 2 jobs, 1 slug, 2 handlers, 2 presses; git, GitLab, Telegram fail | `AcceptedSettles`, `MergingResolves` |
| TaskExecutionApproval | 2 jobs, 1 slug, 3 handlers, 3 presses; GitLab fails | `ApprovalActsOn`, and `MergingResolves` with two approvals of one run at work at once |
| TaskIntakeSafety | 2 pages, 2 handlers, 2 edits, 2 presses, 1 fault, 1 crash | `OneCardPerPage`, `NotifiedHasCard`, `RemovedWasAbsent`, `RemovalSparesDecided`, `AcceptStarts` |
| TaskIntakeLive | 2 pages, 2 versions, 2 edits, 2 faults, 1 crash | `RemovalIsRecorded`, `SnapshotCatchesUp`, `OfferedUnlessCallFails` |
| AgentCalls | 3 gates, 3 lines per CLI, messages of 7 tokens | `OnlyGoodWorkPasses`, `ApprovalWasSaid`, `LimitIsReported`, `FailuresAreNamed`, `PlainVerdictIsRead`, `RejectionIsNoApproval` |
| WorktreeManager | 3 jobs, 2 slugs, 2 callbacks, 2 cleanups, 2 faults, 1 crash | `WorkIsOwn`, `BranchHoldsTheWork`, `RetryStartsClean`, `RemoveLeavesNothing` |
| TaskText | titles of 5 characters, numbers of 2 digits, slugs of 9; pages of 5 blocks, 2 per request, depth 2 | `SlugIsTidy`, `NumberIsReadBack`, `BodyIsThePage` |
| Processes | agent, trigger, 1 probe, 3 jobs, 1 slug; any number of stops, kills, restarts | `PushesReviewedWork`, `ProbesCleanUp`, `AgentComesBack` |
| TaskExecutionOutage | 1 job, only Telegram fails | violated: `OutageNeverAborts` |
| TaskIntakeLostCard | 1 page, 1 fault | violated: `NewTaskIsOffered` |
| TaskTextSafeRef | titles of 3 characters | violated: `SlugIsSafeRef` |

Each module's `TypeOK` is checked with its safety properties; TaskText, a computation without
concurrency, states none. In WorktreeManager it says besides that every worktree command finds a whole
base clone, and in Processes that the lock of a process that goes on is held by a job of its own at work.

Why the bounds are enough. Two jobs and two slugs give both the shared and the separate slug; the
lock makes a third job a repetition. Two handlers and two presses give approve against cancel and an
update delivered again. For two approvals of one run at work at once the second has to find a card
that its own edit changes: approve, cancel and approve are pressed before the first edit takes the
buttons away, and the edit for cancel falls between the others. That needs three presses and three
handlers, which TaskExecutionApproval has (Telegram works there, so that no reply is lost). The safety
run is too large for a third press; its properties are proved for any number of presses and handlers.
Two pages give a query of two requests with an edit between them. Seven tokens hold an
object in an object beside another object or a brace in a string. In WorktreeManager the third job
meets what two earlier ones, two failures and a crash left, and two callbacks may clean up the same
slug. A page of five blocks has lists that a nested block interrupts, children below the depth that
is fetched, and blocks that need a second and third request; a slug of nine characters is cut inside
a word, at a dash, and at the first character behind the number. Three jobs of one slug are two of
one process with one of another, or a job of each process. The proofs below need no bounds.

Deadlock is not checked where the system may stop: all jobs ended and nobody presses a button
(TaskExecution), the job is over (AgentCalls, TaskText), the bounded jobs are used up
(WorktreeManager, Processes). The
intake runs check it: the poller never stops.

### What the violated runs show

* `OutageNeverAborts`. `_notify` promises that "a Telegram outage must not abort a run"
  (`services/task_execution_service.py:57`). `send_mr_ready` (line 211) is not sent that way: it fails
  a run whose merge request is open. Lines 236 and 240 fail one that is about to be merged or is merged.
* `NewTaskIsOffered`. The README (line 80) promises a card for a new task. A card is only sent in
  the poll that created the row (`services/task_intake_service.py:41`), so one failed send loses it.
* `SlugIsSafeRef`. `make_branch_slug` is to make "a safe git ref slug" (`git_ops/worktree.py:17`). It
  keeps dots, and git refuses `..` and a dot at the end of a ref: the branch of a task with such a title can
  never be made. In words, not in a run: a slug may end in `.lock`, which git refuses too.

### What the properties leave open

The code does these things, no text of the repository promises otherwise, and the models take the
steps; no property excludes them.

* A merged change whose run is FAILED (a reply lost after the merge, or the second of two approvals)
  or CANCELLED (`cancel` looks at no status). `DoneIsMergedOrDry` is about DONE only, and
  `NeverReopened` about decided runs that go back to a stage.
* A second Accept of one task starts a second run. `AcceptStarts` says that each starts one.
* A decision made after a poll read the table may be overwritten with REMOVED.
  `RemovalSparesDecided` is about earlier ones.
* A press whose edit fails is dropped, as `ApprovalActsOn` assumes a working Telegram.
* A job whose tree another process touched (the trigger's, whose lock is its own, or a CLI thread of
  a process that unwinds) may push what nobody reviewed: `PushesReviewedWork` exempts it, and so says
  that a process does no such harm to itself, and that its callbacks, which take no lock, do none.

`RetryStartsClean` and `RemoveLeavesNothing` carry exceptions that the code earns: a directory whose
`.git` file is gone survives every `remove`; a directory deleted by a killed `remove` whose entry
is locked makes `add` fail; and a clone killed before it wrote its remote is only ever fetched. The
first two fail every later run of that slug, the last every run.

### Where a text and the code differ, without a run

* `send_execution_failed` prints `run.status` (`clients/telegram_client.py:102`) after `mark_failed`
  set it, so the stage it names is always `failed`.
* `ClaudeRunRequest` describes an inactivity timeout and a wait for rate limits
  (`ai/claude_runner.py:65-70`) that nothing implements.
* `_extract_last_json` is to "find the last JSON object substring" (`ai/reviewer.py:175`); an object
  with a brace in a string, or three deep, is not found. `PlainVerdictIsRead`,
  `RejectionIsNoApproval` and `ApprovalWasSaid` bound the harm. One case remains: a rejection with a
  closing brace in a string is cut short there, and an object with an approval that it nests behind
  that string is then read in its place. The prompt asks for no such object (findings have no
  `verdict`), and `RejectionIsNoApproval` excludes it.
* `clients/_notion_blocks.py:5` skips unknown block types; the code renders their text. Line 78
  collapses three or more blank lines; the code does so from two on. The model follows the code.
* `scripts/trigger_via_service.py:3` runs a task "through the full FSM"; it leaves after at most
  20 minutes, while the coder alone may take 30, and at the first look at a settled row, which may be
  before the card is sent or a dry run's tree removed. Leaving cancels the job.

## Fairness

Liveness assumes that a coroutine that can go on does (weak fairness of each job, each handler, the
poller, and of taking some waiting update). The event loop gives that, and the calls between
two steps end: git, the CLI and the gates are killed at timeouts in the code, the Notion and
Telegram libraries have timeouts of their own, and a database call answers or raises. GitLab is assumed to
answer: its client sets no timeout. In Processes no call of a job is promised to end: `main` goes on
once it has left `asyncio.wait`, a CLI thread ends by its timeout, and compose restarts the container
(`restart: unless-stopped`); so `AgentComesBack` does not rest on the jobs. Nothing makes the user press, a task arrive, a page change, or the process crash,
and in TaskIntake faults are finitely many by `MaxFaults`. `AcceptedSettles` assumes a working database, as
a job whose `mark_failed` fails leaves its row in a stage; `ApprovalActsOn` a working Telegram, as a
failed edit drops the press.

## The proofs

For any constants that satisfy the assumptions in the modules:

* `MergeGateProofs`: `Spec => []Gated`.
* `TaskExecutionProofs`: `TypeOK`, `WorktreeIsOwn`, `PublishedWasVerified`, `MergedWasApproved`,
  `AwaitingIsMergeable`, `DoneIsMergedOrDry`, `NeverReopened`, and `KeepsTheGate`, the refinement of
  MergeGate. `WorktreeIsOwn` is not inductive: that a tree holds no foreign change depends on at most
  one job being between its first and last step, thus on the lock, and on what the job has done so far.
  The inductive invariant therefore adds that the lock is held exactly by the job inside,
  that a job past the gates and past the review has its evidence, that what was
  reviewed is the base or the job's own change, that origin holds verified changes only, what each place of a
  job or a handler implies for its row and its request, and that a card with buttons, an update and
  a handler at work each stem from a run whose job has sent its card. Its proof has one lemma per
  group of actions and one step per conjunct an action can disturb.
* `TaskIntakeProofs`: `TypeOK`, `OneCardPerPage`, `NotifiedHasCard`, `RemovedWasAbsent`,
  `RemovalSparesDecided`. The invariant relates the poll's local variables to its history: a page
  behind the cursor that was not fetched, and then a missing one, did not match at some moment of
  this poll; a missing page was undecided when the poll began; a page without a row has no card.
  `AcceptStarts` follows from what a handler at the step between decision and start has stored.
* `WorktreeManagerProofs`: all five properties of the run. The invariant adds that every worktree is
  registered (which is what makes git protect its branch from `remove`), and for an operation nobody
  disturbs what each of its commands has achieved. That is the argument for taking `create` and
  `remove` as single steps in TaskExecution.
* `AgentCallsProofs`: all seven properties of the run. For `TypeOK`, `FailuresAreNamed`,
  `OnlyGoodWorkPasses` and `LimitIsReported` the invariant says what each phase knows of the streams
  and that a gate that the work does not pass is never among the green ones; lemmas say what the last
  line of a kind is. `LimitIsReported` is about the coder's call: a reviewer that fails is never
  reported as rate limited (`ai/reviewer.py` raises a reviewer's error whatever the reason). `PlainVerdictIsRead`, `RejectionIsNoApproval` and
  `ApprovalWasSaid` are about what the regular expression finds in a message of any length. `Scan` is
  a recursive function; that there is one, and that it satisfies its definition, is proved first.
  Then: the last match found reaches at least to where any match begins; a match that
  begins before a balanced text cannot end in it, because what was open before is still open
  (`NothingClosesWithin`); so the last match begins in the object at the end, and either is the
  object or is cut short by a brace in a string, and then is no object or holds no approval.
* `TaskTextProofs`: all three properties of the run. `Collapsed` is a recursive function, of which
  an induction shows that it keeps the first and the last character and leaves no two dashes in a
  row; what is cut from a title begins with no dash; so the last `strip` takes dashes at the end
  only, at most down to the first character behind the number. `BodyIsThePage` holds for pages and
  requests of any size and any max_depth. Its invariant says what the calls of `_fetch_blocks` have
  collected: the calls stand on the stack by depth, so that no block is listed by two of them; a call
  has collected the first children of its block; and a block that no call lists has its children
  collected, all of them, just when it was itself collected and lies above max_depth. So when the
  stack is empty the page is there.
  Below a block lies nothing that comes behind its next sibling, which gives, by induction from the
  last block back, that `render_blocks` lists what is shown below a block in document order; the
  numbers are those of the list items next to each other; collapsing leaves the texts and
  one blank behind a text, and the last `strip` the lines from the first text to the last.
* `DataLemmas`: what the two modules above need of numbers and sequences: extrema of sets, inductions
  over intervals, ascending enumerations of a set, functions defined by recursion over a sequence.
* `ProcessesProofs`: `TypeOK`, `PushesReviewedWork` and `ProbesCleanUp`. The invariant says that a job of an executor
  that has its tree holds the lock of its process, and that nobody else
  does, that probes keep to slugs of their own, and that a job about to push finds what was reviewed, nothing, or the trace of another process; for the
  probes, that a process that is down has no job at work and that the one at work is its last.

The inductive invariants were also checked by TLC on the runs' instances.

Only model-checked: all liveness (fairness and ENABLED are beyond the prover): `AcceptedSettles`,
`MergingResolves`, `ApprovalActsOn`, `RemovalIsRecorded`, `SnapshotCatchesUp`, `OfferedUnlessCallFails`,
and `AgentComesBack`. The induction theorems of the library take a predicate as a parameter, which the provers cannot instantiate; the inductions of
`DataLemmas` name a set instead, which they can.

## Not modelled

* Settings, schemas, errors, logging and migrations: no state that any property
  could tell apart. Wording of cards and of merge request descriptions.
* `/ping`, `/start`, `/status` and `/list`: they read the database and answer. `/list` asks once per
  decision, so a task decided meanwhile may be listed twice or not at all.
* The event log and counters of a run, which nothing reads back.
* Task numbers below 1: Notion numbers its tasks from 1 on.
* Work a coder leaves uncommitted: gates see it, the reviewer and the push do not. What the coder
  does in its tree is external, and the models take a commit as its only effect.
* A script interrupted by hand: its CLI and its `finally` then work in the tree at once, and what is
  left depends on signals the terminal sends.
* `get_merge_request`, `get_latest_pipeline`, `post_note`, `RepoManager.fetch`, `feedback_for_claude`
  and the `AWAITING_CI` status have no user in the code.
* TaskIntake and TaskExecution are not composed into one system: they meet in `start(task)` and
  share neither variables nor tables, so that a composition would be their product. `AcceptStarts`
  on one side and `Start`, enabled at any time, on the other are the interface.

## Order of work

MergeGate and TaskExecution with their proofs came first, as the merge gate is what the program is
trusted with; then TaskIntake; then the modules that justify the single steps of TaskExecution
(WorktreeManager, AgentCalls, TaskText); then Processes, which places them side by side.
