------------------------------ MODULE Processes ------------------------------
(***************************************************************************)
(* The processes of the container and what they share: the agent (main.py, *)
(* PID 1, restarted by compose), trigger_via_service.py, which runs the     *)
(* agent's own executor from a second process, and the probes demo_e2e.py   *)
(* and offline_e2e.py, which drive the parts of the executor by hand.  Each *)
(* process has its own lock and dies with the container; the worktrees are  *)
(* common to all.  A job is TaskExecution's, in the few steps that touch a   *)
(* worktree; git works (WorktreeManager is about the rest).                 *)
(***************************************************************************)
EXTENDS Naturals

CONSTANTS Agent, Trigger, \* processes
          Probes,         \* processes: demo_e2e and offline_e2e
          Jobs,           \* bound: what the processes run, in order of start
          Slugs,          \* the slugs of the agent's tasks
          DemoSlug,       \* that of the demo task, main's and the trigger's
          Base, None

ASSUME ProcessesDiffer == /\ Agent # Trigger /\ {Agent, Trigger} \cap Probes = {}
                          /\ None \notin {Agent, Trigger} \cup Probes
ASSUME JobsAreNumbered == Jobs \subseteq Nat
ASSUME SlugsAssumption == DemoSlug \in Slugs /\ Slugs \cap Probes = {}
ASSUME MarkersAreFresh == Base # None /\ {Base, None} \cap Jobs = {}

VARIABLES
    life,       \* of each process: "down", "up", "closing" or "unwinding"
    hears,      \* the agent's bot and its poller are both running
    stopped,    \* the container was stopped by hand
    owner, slug, pc,    \* of each job
    lock,       \* the executor's lock of each process
    tree,       \* the content of each worktree: None, Base or a job's commit
    origin,     \* the content of each pushed branch
    approved,   \* what the reviewer of each job saw, as long as it runs
    contested   \* history: jobs whose tree another process has touched

container == <<life, hears, stopped>>
jobs      == <<owner, slug, pc, lock>>
work      == <<tree, origin, approved, contested>>

vars == <<container, jobs, work>>

-----------------------------------------------------------------------------
Processes == {Agent, Trigger} \cup Probes

\* "end": the job ran its course; "cut": its process ended or died under it, or
\* create() failed.
Places == {"none", "queued", "create", "work", "review", "push", "clean", "end", "cut"}
Over == {"none", "end", "cut"}
InTree == {"work", "review", "push", "clean"}

\* What a cancelled job may still wait for: the CLI's thread, a git child.
Lingering == {"work", "review", "push"}

Runs(j) == life[owner[j]] \in {"up", "closing"}

\* The services are singletons of their process' container, and so is the lock.
New(j, p, s) == /\ owner[j] = None
                /\ \A i \in Jobs : i < j => owner[i] # None
                /\ owner' = [owner EXCEPT ![j] = p]
                /\ slug' = [slug EXCEPT ![j] = s]
                /\ pc' = [pc EXCEPT ![j] = IF p \in Probes THEN "create" ELSE "queued"]
                /\ UNCHANGED lock

Goto(j, place) == /\ pc' = [pc EXCEPT ![j] = place]
                  /\ UNCHANGED <<owner, slug, lock>>

\* Variant: the lock is released by hand, and not on every way out.
LeaveLocked(j, place) == Goto(j, place)

\* A job leaves its lock; its tree stays.
Leave(j, place) == /\ pc' = [pc EXCEPT ![j] = place]
                   /\ lock' = [p \in Processes |-> IF lock[p] = j THEN None ELSE lock[p]]
                   /\ UNCHANGED <<owner, slug>>

\* Variant: an empty diff returns from main before the try.
FinishEmpty(j) == IF owner[j] \in Probes /\ tree[slug[j]] # Base
                  THEN Goto(j, "clean") ELSE Leave(j, "end")

\* A job of the executor leaves its tree behind; a probe has a `finally`.
Finish(j) == IF owner[j] \in Probes THEN Goto(j, "clean") ELSE Leave(j, "end")

\* Process p makes the tree of s hold c, under the jobs of others.
Write(p, s, c) == /\ tree' = [tree EXCEPT ![s] = c]
                  /\ contested' = contested \cup
                         {k \in Jobs : slug[k] = s /\ owner[k] # p /\ pc[k] \in InTree}

Init == /\ life = [p \in Processes |-> "down"]
        /\ hears = FALSE
        /\ stopped = FALSE
        /\ owner = [j \in Jobs |-> None]
        /\ slug = [j \in Jobs |-> None]
        /\ pc = [j \in Jobs |-> "none"]
        /\ lock = [p \in Processes |-> None]
        /\ tree = [s \in Slugs \cup Probes |-> None]
        /\ origin = [s \in Slugs |-> None]
        /\ approved = [j \in Jobs |-> None]
        /\ contested = {}

-----------------------------------------------------------------------------
(* The jobs *)

\* An accepted task, whatever others run.
Start(j, s) == /\ life[Agent] = "up"
               /\ New(j, Agent, s)
               /\ UNCHANGED <<container, work>>

\* Variant: an executor, and a lock, for every caller.
AcquireOwn(j) == /\ pc[j] = "queued" /\ Runs(j)
                 /\ pc' = [pc EXCEPT ![j] = "create"]
                 /\ lock' = [lock EXCEPT ![owner[j]] = j]
                 /\ UNCHANGED <<owner, slug, container, work>>

Acquire(j) == /\ pc[j] = "queued" /\ Runs(j)
              /\ lock[owner[j]] = None
              /\ pc' = [pc EXCEPT ![j] = "create"]
              /\ lock' = [lock EXCEPT ![owner[j]] = j]
              /\ UNCHANGED <<owner, slug, container, work>>

\* create() removes a stale tree first.  A probe calls it before its `try`.
CreateTree(j) == /\ pc[j] = "create" /\ Runs(j)
                 /\ \/ /\ Write(owner[j], slug[j], Base)
                       /\ Goto(j, "work")
                    \/ /\ \E left \in {None, tree[slug[j]]} :
                             Write(owner[j], slug[j], left)
                       /\ Leave(j, "cut")
                 /\ UNCHANGED <<origin, approved, container>>

\* The coder commits or not, in whatever tree is at its path.
Commits(j) == \/ UNCHANGED <<tree, contested>>
              \/ tree[slug[j]] # None /\ Write(owner[j], slug[j], j)

Work(j) == /\ pc[j] = "work" /\ Runs(j)
           /\ Commits(j)
           /\ Goto(j, "review") \/ Finish(j)
           /\ UNCHANGED <<origin, approved, container>>

\* Gates and reviewer; a probe stops here, whatever they say, and offline_e2e
\* already at an empty diff.
Review(j) == /\ pc[j] = "review" /\ Runs(j)
             /\ \/ /\ tree[slug[j]] # None /\ owner[j] \notin Probes
                   /\ approved' = [approved EXCEPT ![j] = tree[slug[j]]]
                   /\ Goto(j, "push")
                \/ UNCHANGED approved /\ Finish(j)
             /\ UNCHANGED <<tree, origin, contested, container>>

\* The branch of the tree is pushed; the child outlives a cancelled job.  A dry
\* run removes the tree instead.
Push(j) == /\ pc[j] = "push" /\ life[owner[j]] # "down"
           /\ \/ /\ tree[slug[j]] # None
                 /\ origin' = [origin EXCEPT ![slug[j]] = tree[slug[j]]]
                 /\ contested' = contested \ {j}
                 /\ UNCHANGED tree
              \/ UNCHANGED <<origin, tree, contested>>
              \/ Runs(j) /\ Write(owner[j], slug[j], None) /\ UNCHANGED origin
           /\ approved' = [approved EXCEPT ![j] = None]
           /\ Finish(j)
           /\ UNCHANGED container

\* The `finally` of a probe.
Clean(j) == /\ pc[j] = "clean" /\ Runs(j)
            /\ Write(owner[j], slug[j], None)
            /\ Goto(j, "end")
            /\ UNCHANGED <<origin, approved, container>>

\* A callback of the agent removes the tree of a run, lock or no lock: the card may
\* be of a run of the trigger, and a handler at work goes on while main closes.
Cleanup(s) == /\ life[Agent] \in {"up", "closing"}
              /\ \E j \in Jobs : /\ owner[j] \in {Agent, Trigger} /\ slug[j] = s
                                 /\ pc[j] # "queued"
              /\ Write(Agent, s, None)
              /\ UNCHANGED <<origin, approved, container, jobs>>

-----------------------------------------------------------------------------
(* The processes *)

\* The demo task is accepted without a card.
InjectDemoTask == \E j \in Jobs : New(j, Agent, DemoSlug)

\* docker starts the container, again until it comes up: main.run connects,
\* injects the demo task if told to, and starts bot and poller.
Boot == /\ life[Agent] = "down"
        /\ life' = [life EXCEPT ![Agent] = "up"]
        /\ hears' = TRUE
        /\ stopped' = FALSE
        /\ UNCHANGED jobs \/ InjectDemoTask
        /\ UNCHANGED work

\* docker exec of a script.
Launch(p, j) == /\ p # Agent
                /\ life[Agent] # "down" /\ life[p] = "down"
                /\ life' = [life EXCEPT ![p] = "up"]
                /\ New(j, p, IF p = Trigger THEN DemoSlug ELSE p)
                /\ UNCHANGED <<hears, stopped, work>>

\* start_polling raises, as it does when the network is out at the start; the
\* poller's loop swallows what its polls raise.
BotEnds == /\ life[Agent] = "up"
           /\ hears
           /\ hears' = FALSE
           /\ UNCHANGED <<life, stopped, jobs, work>>

\* SIGTERM: docker stops the container.
RequestStop == /\ life[Agent] = "up"
               /\ ~stopped
               /\ stopped' = TRUE
               /\ UNCHANGED <<life, hears, jobs, work>>

\* Variant: asyncio.wait for ALL_COMPLETED.
CloseAll == /\ life[Agent] = "up"
            /\ stopped /\ ~hears
            /\ life' = [life EXCEPT ![Agent] = "closing"]
            /\ UNCHANGED <<hears, stopped, jobs, work>>

\* asyncio.wait returns at the FIRST_COMPLETED of bot, poller and stop event; the
\* others are cancelled, and then the clients are closed while the jobs go on.
Close == /\ life[Agent] = "up"
         /\ stopped \/ ~hears
         /\ life' = [life EXCEPT ![Agent] = "closing"]
         /\ hears' = FALSE
         /\ UNCHANGED <<stopped, jobs, work>>

\* main returns and asyncio.run cancels its jobs: the agent's after closing, the
\* trigger's when its run settled or after 240 looks at it.
Unwind(p) ==
    /\ \/ p = Agent /\ life[p] = "closing"
       \/ p = Trigger /\ life[p] = "up"
    /\ life' = [life EXCEPT ![p] = "unwinding"]
    /\ pc' = [j \in Jobs |-> IF owner[j] = p /\ pc[j] \notin Over \cup Lingering
                             THEN "cut" ELSE pc[j]]
    /\ UNCHANGED <<owner, slug, lock, hears, stopped, work>>

\* The CLI's thread ends, by its timeout at the latest, or a git child does.
ThreadEnds(j) == /\ pc[j] \in Lingering /\ life[owner[j]] = "unwinding"
                 /\ IF pc[j] = "work" THEN Commits(j) ELSE UNCHANGED <<tree, contested>>
                 /\ Goto(j, "cut")
                 /\ UNCHANGED <<origin, approved, container>>

\* What dies with the processes in gone.
Die(gone) == /\ life' = [p \in Processes |-> IF p \in gone THEN "down" ELSE life[p]]
             /\ lock' = [p \in Processes |-> IF p \in gone THEN None ELSE lock[p]]
             /\ pc' = [j \in Jobs |-> IF owner[j] \in gone /\ pc[j] \notin Over
                                      THEN "cut" ELSE pc[j]]
             /\ approved' = [j \in Jobs |-> IF owner[j] \in gone THEN None ELSE approved[j]]
             /\ contested' = {j \in contested : owner[j] \notin gone}
             /\ UNCHANGED <<owner, slug, stopped, tree, origin>>

\* A process ends; with PID 1 all others do.
Exit(p) == /\ life[p] = "unwinding" \/ (p \in Probes /\ life[p] = "up")
           /\ \A j \in Jobs : owner[j] = p => pc[j] \in Over
           /\ Die(IF p = Agent THEN Processes ELSE {p})
           /\ UNCHANGED hears

\* The container is killed: out of memory, or 10 s after its SIGTERM.
Kill == /\ life[Agent] # "down"
        /\ Die(Processes)
        /\ hears' = FALSE

Next == \/ Boot
        \/ BotEnds
        \/ RequestStop
        \/ Close
        \/ Kill
        \/ \E p \in Processes : \/ Unwind(p)
                                \/ Exit(p)
                                \/ \E j \in Jobs : Launch(p, j)
        \/ \E s \in Slugs : \/ Cleanup(s)
                            \/ \E j \in Jobs : Start(j, s)
        \/ \E j \in Jobs : \/ Acquire(j)
                           \/ CreateTree(j)
                           \/ Work(j)
                           \/ Review(j)
                           \/ Push(j)
                           \/ Clean(j)
                           \/ ThreadEnds(j)

Spec == Init /\ [][Next]_vars

\* main goes on, the CLI has a timeout, and compose restarts the container
\* `unless-stopped`.  No call of a job is promised to end.
Fairness == /\ WF_vars(Close)
            /\ WF_vars(Unwind(Agent))
            /\ WF_vars(Exit(Agent))
            /\ WF_vars(Boot /\ ~stopped)
            /\ \A j \in Jobs : WF_vars(ThreadEnds(j))

FairSpec == Spec /\ Fairness

-----------------------------------------------------------------------------
(* Properties *)

\* Where a job of an executor holds the lock of its process.
Holding == {"create", "work", "review", "push"}
HeldByOwn == \A p \in Processes : lock[p] # None /\ life[p] # "unwinding" =>
                p \notin Probes /\ owner[lock[p]] = p /\ pc[lock[p]] \in Holding

\* Every variable keeps its type, without the agent no script runs, and the lock of
\* a process that goes on is held by a job of its own that is at work, or by none.
TypeOK == /\ life \in [Processes -> {"down", "up", "closing", "unwinding"}]
          /\ life[Agent] = "down" => \A p \in Processes : life[p] = "down"
          /\ {hears, stopped} \subseteq BOOLEAN
          /\ owner \in [Jobs -> Processes \cup {None}]
          /\ slug \in [Jobs -> Slugs \cup Probes \cup {None}]
          /\ pc \in [Jobs -> Places]
          /\ lock \in [Processes -> Jobs \cup {None}]
          /\ HeldByOwn
          /\ tree \in [Slugs \cup Probes -> Jobs \cup {Base, None}]
          /\ origin \in [Slugs -> Jobs \cup {Base, None}]
          /\ approved \in [Jobs -> Jobs \cup {Base, None}]
          /\ contested \subseteq Jobs

\* What a job pushes is what its reviewer saw, unless another process touched the
\* tree meanwhile: two jobs of one process never do, though tasks may share a
\* slug, callbacks remove trees and threads outlive their jobs.
PushesReviewedWork ==
    [][\A s \in Slugs : origin'[s] # origin[s] =>
          \E j \in Jobs : /\ slug[j] = s /\ pc[j] = "push" /\ pc'[j] = "end"
                          /\ j \in contested \/ origin'[s] = approved[j]]_vars

\* The probes' promise to clean up: one that ran its course, whatever its coder,
\* gates and reviewer did, left no tree.
ProbesCleanUp == \A j \in Jobs : owner[j] \in Probes /\ pc[j] = "end" =>
                    \/ tree[slug[j]] = None
                    \/ \E k \in Jobs : k > j /\ slug[k] = slug[j]

\* An agent that lost its bot or its poller, or died, is up with both again
\* unless it is stopped by hand, whatever its jobs were doing.
AgentComesBack == ~hears ~> (hears \/ stopped)
=============================================================================
