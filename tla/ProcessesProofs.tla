--------------------------- MODULE ProcessesProofs ---------------------------
(***************************************************************************)
(* Theorems about Processes, for any jobs, slugs and probes: a job pushes  *)
(* what its reviewer saw unless another process touched its tree, a probe  *)
(* cleans up, and no script outlives the agent.                            *)
(***************************************************************************)
EXTENDS Processes, TLAPS

USE DEF container, jobs, work

\* A job that was never started has no process and no slug.
StartedInv == \A j \in Jobs : /\ owner[j] = None <=> pc[j] = "none"
                              /\ owner[j] = None => slug[j] = None

\* Probes work in trees of their own, past the lock, and never push.
KindInv == \A j \in Jobs : owner[j] # None =>
              IF owner[j] \in Probes
              THEN slug[j] \in Probes /\ slug[j] = owner[j] /\ pc[j] \notin {"queued", "push"}
              ELSE slug[j] \in Slugs /\ pc[j] # "clean"

\* A job of an executor that has its tree has the lock of its process.
LockInv == \A j \in Jobs : pc[j] \in {"create", "work", "review", "push"} /\ owner[j] \notin Probes
                              => lock[owner[j]] = j

\* While a job is about to push, its tree is what the reviewer saw, was removed,
\* or was touched by another process.
ReviewedInv == \A j \in Jobs : pc[j] = "push" =>
                  approved[j] = tree[slug[j]] \/ tree[slug[j]] = None \/ j \in contested

IndInv == TypeOK /\ StartedInv /\ KindInv /\ LockInv /\ ReviewedInv

\* A job of an executor that writes its tree has it for itself, as far as its own
\* process goes: whoever is about to push from the same tree is contested.
LEMMA WriteContests ==
    ASSUME IndInv, NEW j \in Jobs, NEW c,
           pc[j] \in {"create", "work", "review", "clean"}, Write(owner[j], slug[j], c)
    PROVE  \A k \in Jobs : pc[k] = "push" => k \in contested' \/ tree'[slug[k]] = tree[slug[k]]
<1> SUFFICES ASSUME NEW k \in Jobs, pc[k] = "push", slug[k] = slug[j] PROVE k \in contested'
  BY DEF Write, IndInv, TypeOK
<1>1. owner[j] \in Processes /\ owner[k] \in Processes
  BY DEF IndInv, StartedInv, TypeOK
<1>2. owner[k] \notin Probes /\ owner[j] \notin Probes
  BY <1>1, SlugsAssumption, ProcessesDiffer DEF IndInv, KindInv, Processes
<1>3. k # j /\ pc[j] # "clean"
  BY <1>1, <1>2, ProcessesDiffer DEF IndInv, KindInv, Processes
<1>4. owner[k] # owner[j]
  BY <1>2, <1>3 DEF IndInv, LockInv
<1> QED BY <1>4 DEF Write, InTree

LEMMA InitInv == Init => IndInv
  BY ProcessesDiffer, SlugsAssumption
  DEF Init, IndInv, TypeOK, HeldByOwn, StartedInv, KindInv, LockInv, ReviewedInv, Processes,
      Places

\* A lock is left with its holder, by a job that goes or with the process.
LEMMA HeldStep == IndInv /\ [Next]_vars => HeldByOwn'
<1> SUFFICES ASSUME IndInv, [Next]_vars, NEW p \in Processes,
                    lock'[p] # None, life'[p] # "unwinding"
             PROVE  p \notin Probes /\ owner'[lock'[p]] = p /\ pc'[lock'[p]] \in Holding
  BY DEF HeldByOwn
<1> USE ProcessesDiffer, SlugsAssumption, MarkersAreFresh
    DEF IndInv, TypeOK, HeldByOwn, Holding, StartedInv, Processes, Goto, Leave, Finish
<1>1. ASSUME NEW j \in Jobs, NEW q \in Processes, NEW s, New(j, q, s), life[p] # "unwinding"
      PROVE  p \notin Probes /\ owner'[lock'[p]] = p /\ pc'[lock'[p]] \in Holding
  BY <1>1 DEF New
<1>2. ASSUME NEW j \in Jobs, NEW s \in Slugs, Start(j, s)
      PROVE  p \notin Probes /\ owner'[lock'[p]] = p /\ pc'[lock'[p]] \in Holding
  BY <1>1, <1>2 DEF Start
<1>3. CASE \E j \in Jobs : Acquire(j)
  BY <1>3 DEF Acquire, Runs, KindInv
<1>4. ASSUME NEW j \in Jobs, CreateTree(j) \/ Work(j) \/ Review(j) \/ Push(j)
      PROVE  p \notin Probes /\ owner'[lock'[p]] = p /\ pc'[lock'[p]] \in Holding
  <2>1. life' = life /\ owner' = owner
    BY <1>4 DEF CreateTree, Work, Review, Push
  <2>2. \/ \E place \in {"end", "cut"} : Leave(j, place)
        \/ \E place \in {"work", "review", "push"} : Goto(j, place)
        \/ owner[j] \in Probes /\ Goto(j, "clean")
    BY <1>4 DEF CreateTree, Work, Review, Push
  <2>3. CASE \E place \in {"end", "cut"} : Leave(j, place)
    BY <2>1, <2>3
  <2>4. CASE \E place \in {"work", "review", "push"} : Goto(j, place)
    BY <2>1, <2>4
  <2>5. CASE owner[j] \in Probes /\ Goto(j, "clean")
    <3>1. lock[p] # j
      BY <2>1, <2>5, <1>4 DEF CreateTree, Work, Review, Push, LockInv, KindInv
    <3> QED
      BY <2>1, <2>5, <3>1
  <2> QED
    BY <2>2, <2>3, <2>4, <2>5
<1>5. CASE \E j \in Jobs : Clean(j) \/ ThreadEnds(j)
  BY <1>5 DEF Clean, ThreadEnds, Lingering
<1>6. CASE Boot
  BY <1>1, <1>6 DEF Boot, InjectDemoTask
<1>7. ASSUME NEW q \in Processes, NEW j \in Jobs, Launch(q, j)
      PROVE  p \notin Probes /\ owner'[lock'[p]] = p /\ pc'[lock'[p]] \in Holding
  BY <1>1, <1>7 DEF Launch
<1>8. CASE BotEnds \/ RequestStop \/ Close \/ \E s \in Slugs : Cleanup(s)
  BY <1>8 DEF BotEnds, RequestStop, Close, Cleanup
<1>9. CASE \E q \in Processes : Unwind(q)
  BY <1>9 DEF Unwind
<1>10. CASE Kill
  BY <1>10 DEF Kill, Die
<1>11. ASSUME NEW q \in Processes, Exit(q)
       PROVE  p \notin Probes /\ owner'[lock'[p]] = p /\ pc'[lock'[p]] \in Holding
  <2> DEFINE gone == IF q = Agent THEN Processes ELSE {q}
  <2>1. Die(gone)
    BY <1>11 DEF Exit
  <2> HIDE DEF gone
  <2>2. p \notin gone /\ lock'[p] = lock[p] /\ life'[p] = life[p] /\ owner' = owner
    BY <2>1 DEF Die
  <2>3. pc'[lock[p]] = pc[lock[p]]
    BY <2>1, <2>2 DEF Die
  <2> QED
    BY <2>2, <2>3
<1>12. CASE UNCHANGED vars
  BY <1>12 DEF vars
<1> QED
  BY <1>2, <1>3, <1>4, <1>5, <1>6, <1>7, <1>8, <1>9, <1>10, <1>11, <1>12 DEF Next

LEMMA StepInv == IndInv /\ [Next]_vars => IndInv'
<1> SUFFICES ASSUME IndInv, [Next]_vars PROVE IndInv'
  OBVIOUS
<1> USE ProcessesDiffer, SlugsAssumption, MarkersAreFresh
    DEF IndInv, TypeOK, StartedInv, KindInv, LockInv, ReviewedInv, Processes, Places, Over, InTree,
        Goto, Leave, Finish
<1> HeldByOwn'
  BY HeldStep
<1>1. ASSUME NEW j \in Jobs, NEW s \in Slugs, Start(j, s) PROVE IndInv'
  BY <1>1 DEF Start, New
<1>2. ASSUME NEW j \in Jobs, Acquire(j) PROVE IndInv'
  BY <1>2 DEF Acquire
<1>3. ASSUME NEW j \in Jobs, CreateTree(j) PROVE IndInv'
  BY <1>3, WriteContests DEF CreateTree, Write
<1>4. ASSUME NEW j \in Jobs, Work(j) PROVE IndInv'
  BY <1>4, WriteContests DEF Work, Commits, Write
<1>5. ASSUME NEW j \in Jobs, Review(j) PROVE IndInv'
  BY <1>5 DEF Review
<1>6. ASSUME NEW j \in Jobs, Push(j) PROVE IndInv'
  BY <1>6 DEF Push, Write
<1>7. ASSUME NEW j \in Jobs, Clean(j) PROVE IndInv'
  BY <1>7, WriteContests DEF Clean, Write
<1>8. ASSUME NEW s \in Slugs, Cleanup(s) PROVE IndInv'
  BY <1>8 DEF Cleanup, Write
<1>9. CASE Boot
  <2>1. CASE UNCHANGED jobs
    BY <1>9, <2>1 DEF Boot
  <2>2. ASSUME NEW j \in Jobs, New(j, Agent, DemoSlug) PROVE IndInv'
    <3>1. /\ life' = [life EXCEPT ![Agent] = "up"]
          /\ hears' = TRUE /\ stopped' = FALSE
          /\ UNCHANGED work
      BY <1>9 DEF Boot
    <3>2. TypeOK'
      <4>1. {hears, stopped}' \subseteq BOOLEAN
        BY <3>1
      <4> QED BY <2>2, <3>1, <4>1 DEF New
    <3>3. StartedInv' /\ KindInv' /\ LockInv' /\ ReviewedInv'
      BY <2>2, <3>1 DEF New
    <3> QED BY <3>2, <3>3
  <2> QED BY <1>9, <2>1, <2>2 DEF Boot, InjectDemoTask
<1>10. ASSUME NEW p \in Processes, NEW j \in Jobs, Launch(p, j) PROVE IndInv'
  BY <1>10 DEF Launch, New
<1>11. CASE BotEnds \/ RequestStop \/ Close
  BY <1>11 DEF BotEnds, RequestStop, Close
<1>12. ASSUME NEW p \in Processes, Unwind(p) PROVE IndInv'
  BY <1>12 DEF Unwind, Lingering
<1>13. ASSUME NEW j \in Jobs, ThreadEnds(j) PROVE IndInv'
  BY <1>13, WriteContests DEF ThreadEnds, Commits, Write, Lingering
<1>14. ASSUME NEW p \in Processes, Exit(p) PROVE IndInv'
  BY <1>14 DEF Exit, Die
<1>15. CASE Kill
  BY <1>15 DEF Kill, Die
<1>16. CASE UNCHANGED vars
  BY <1>16 DEF vars
<1> QED
  BY <1>1, <1>2, <1>3, <1>4, <1>5, <1>6, <1>7, <1>8, <1>9, <1>10, <1>11, <1>12, <1>13, <1>14,
     <1>15, <1>16
  DEF Next

THEOREM Inductive == Spec => []IndInv
<1> QED BY InitInv, StepInv, PTL DEF Spec

\* TypeOK: every variable keeps its type, no script outlives the agent, and a lock is
\* held by a job at work of its process (_run_safe, the services of the container).
THEOREM TypeCorrect == Spec => []TypeOK
<1>1. IndInv => TypeOK
  BY DEF IndInv
<1> QED BY <1>1, Inductive, PTL

LEMMA PushStep ==
    IndInv /\ [Next]_vars =>
        \A s \in Slugs : origin'[s] # origin[s] =>
            \E j \in Jobs : /\ slug[j] = s /\ pc[j] = "push" /\ pc'[j] = "end"
                            /\ j \in contested \/ origin'[s] = approved[j]
<1> SUFFICES ASSUME IndInv, [Next]_vars, NEW s \in Slugs, origin'[s] # origin[s]
             PROVE  \E j \in Jobs : /\ slug[j] = s /\ pc[j] = "push" /\ pc'[j] = "end"
                                    /\ j \in contested \/ origin'[s] = approved[j]
  OBVIOUS
<1>1. PICK j \in Jobs : Push(j)
  BY DEF Next, vars, Start, Acquire, CreateTree, Work, Review, Clean, Cleanup, Boot, Launch,
         BotEnds, RequestStop, Close, Unwind, ThreadEnds, Exit, Kill, Die
<1>2. owner[j] \notin Probes /\ pc[j] = "push"
  BY <1>1 DEF Push, IndInv, StartedInv, KindInv
<1>3. pc'[j] = "end"
  BY <1>1, <1>2 DEF Push, Finish, Leave, IndInv, TypeOK
<1>4. slug[j] = s /\ origin'[s] = tree[s] /\ tree[s] # None
  BY <1>1 DEF Push, IndInv, TypeOK
<1> QED BY <1>2, <1>3, <1>4 DEF IndInv, ReviewedInv

\* PushesReviewedWork: what a job pushes is what its reviewer saw, unless another
\* process touched its tree; within a process the lock and the singletons see to it.
THEOREM ReviewedPushes == Spec => PushesReviewedWork
<1> QED BY Inductive, PushStep, PTL DEF Spec, PushesReviewedWork

-----------------------------------------------------------------------------
(* The probes *)

\* A process that is down has no job at work.
DownInv == \A j \in Jobs : owner[j] # None /\ pc[j] \notin Over => life[owner[j]] # "down"

\* Jobs start in the order of their numbers, and a probe has no job behind the
\* one at work.
OrderInv == /\ \A j, k \in Jobs : owner[k] # None /\ j < k => owner[j] # None
            /\ \A j, k \in Jobs : owner[j] \in Probes /\ owner[k] = owner[j] /\ pc[j] \notin Over
                                     => k <= j

ProbeInv == DownInv /\ OrderInv /\ ProbesCleanUp

LEMMA ProbeInit == Init => ProbeInv
  BY ProcessesDiffer DEF Init, ProbeInv, DownInv, OrderInv, ProbesCleanUp, Over

\* The tree a probe left is written by a later job of that probe only.
LEMMA ProbeTree ==
    ASSUME IndInv, ProbeInv, NEW k \in Jobs, pc[k] \notin Over, NEW j \in Jobs,
           owner[j] \in Probes, pc[j] = "end", slug[k] = slug[j]
    PROVE  k > j
<1>1. owner[j] # None /\ owner[k] # None
  BY ProcessesDiffer DEF IndInv, StartedInv, Over
<1>2. owner[k] = owner[j]
  BY <1>1, SlugsAssumption DEF IndInv, KindInv
<1>3. k # j
  BY DEF Over
<1> QED BY <1>2, <1>3, JobsAreNumbered DEF ProbeInv, OrderInv

\* A new job is the last one, and a probe begins it with no other at work.
LEMMA ProbeNew ==
    ASSUME IndInv, ProbeInv, NEW j \in Jobs, NEW p \in Processes, NEW s, New(j, p, s),
           life' = [life EXCEPT ![p] = "up"], p \in Probes => life[p] = "down", tree' = tree
    PROVE  ProbeInv'
<1> USE ProcessesDiffer DEF Over
<1>1. /\ owner[j] = None /\ pc[j] = "none"
      /\ owner' = [owner EXCEPT ![j] = p] /\ slug' = [slug EXCEPT ![j] = s]
      /\ pc'[j] \in {"create", "queued"}
      /\ \A k \in Jobs \ {j} : pc'[k] = pc[k]
  BY DEF New, IndInv, StartedInv, TypeOK
<1>2. \A k \in Jobs \ {j} : owner'[k] = owner[k] /\ slug'[k] = slug[k]
  BY <1>1 DEF IndInv, TypeOK
<1>3. owner'[j] = p /\ p # None
  BY <1>1 DEF IndInv, TypeOK, Processes
<1>4. \A k \in Jobs : owner[k] # None <=> k < j
  BY <1>1, JobsAreNumbered DEF New, ProbeInv, OrderInv
<1>5. DownInv'
  BY <1>1, <1>2, <1>3 DEF ProbeInv, DownInv, IndInv, TypeOK
<1>6. ASSUME p \in Probes PROVE \A k \in Jobs : owner[k] = p => pc[k] \in Over
  BY <1>3, <1>6 DEF ProbeInv, DownInv
<1>7. OrderInv'
  <2>1. ASSUME NEW i \in Jobs, NEW k \in Jobs, owner'[k] # None, i < k PROVE owner'[i] # None
    BY <2>1, <1>1, <1>2, <1>3, <1>4, JobsAreNumbered DEF ProbeInv, OrderInv
  <2>2. ASSUME NEW i \in Jobs, NEW k \in Jobs, owner'[i] \in Probes, owner'[k] = owner'[i], pc'[i] \notin Over
        PROVE  k <= i
    <3>1. CASE i = j
      BY <3>1, <2>2, <1>2, <1>3, <1>4, JobsAreNumbered
    <3>2. CASE i # j /\ k = j
      BY <3>2, <2>2, <1>1, <1>2, <1>3, <1>6
    <3>3. CASE i # j /\ k # j
      BY <3>3, <2>2, <1>1, <1>2 DEF ProbeInv, OrderInv
    <3> QED BY <3>1, <3>2, <3>3
  <2> QED BY <2>1, <2>2 DEF OrderInv
<1>8. ProbesCleanUp'
  <2> SUFFICES ASSUME NEW i \in Jobs, owner'[i] \in Probes, pc'[i] = "end"
               PROVE  tree'[slug'[i]] = None \/ \E k \in Jobs : k > i /\ slug'[k] = slug'[i]
    BY DEF ProbesCleanUp
  <2>1. i # j /\ owner[i] \in Probes /\ pc[i] = "end"
    BY <1>1, <1>2
  <2>2. \A k \in Jobs : k > i /\ slug[k] = slug[i] => \E h \in Jobs : h > i /\ slug'[h] = slug'[i]
    <3>1. slug[i] \in Probes
      BY <2>1, <1>3 DEF IndInv, KindInv, StartedInv
    <3>2. slug[j] = None
      BY <1>1 DEF IndInv, StartedInv
    <3> QED BY <3>1, <3>2, <1>2
  <2> QED BY <2>1, <2>2, <1>2 DEF ProbeInv, ProbesCleanUp
<1> QED BY <1>5, <1>7, <1>8 DEF ProbeInv

LEMMA ProbeStep == IndInv /\ ProbeInv /\ [Next]_vars => ProbeInv'
<1> SUFFICES ASSUME IndInv, ProbeInv, [Next]_vars PROVE ProbeInv'
  OBVIOUS
<1> USE ProcessesDiffer, SlugsAssumption, MarkersAreFresh, JobsAreNumbered
    DEF ProbeInv, DownInv, OrderInv, ProbesCleanUp, IndInv, TypeOK, StartedInv, KindInv,
        Processes, Places, Over, Goto, Leave, Finish
<1>1. ASSUME NEW j \in Jobs, NEW s \in Slugs, Start(j, s) PROVE ProbeInv'
  <2>1. life' = [life EXCEPT ![Agent] = "up"] /\ tree' = tree
    BY <1>1 DEF Start
  <2> QED BY <1>1, <2>1, ProbeNew DEF Start
<1>2. ASSUME NEW j \in Jobs, Acquire(j) PROVE ProbeInv'
  BY <1>2 DEF Acquire
<1>3. ASSUME NEW j \in Jobs, CreateTree(j) PROVE ProbeInv'
  BY <1>3, ProbeTree DEF CreateTree, Write, Runs
<1>4. ASSUME NEW j \in Jobs, Work(j) PROVE ProbeInv'
  BY <1>4, ProbeTree DEF Work, Commits, Write, Runs
<1>5. ASSUME NEW j \in Jobs, Review(j) PROVE ProbeInv'
  BY <1>5 DEF Review, Runs
<1>6. ASSUME NEW j \in Jobs, Push(j) PROVE ProbeInv'
  BY <1>6 DEF Push, Write
<1>7. ASSUME NEW j \in Jobs, Clean(j) PROVE ProbeInv'
  BY <1>7, ProbeTree DEF Clean, Write, Runs
<1>8. ASSUME NEW s \in Slugs, Cleanup(s) PROVE ProbeInv'
  BY <1>8 DEF Cleanup, Write
<1>9. CASE Boot
  <2>1. CASE UNCHANGED jobs
    BY <1>9, <2>1 DEF Boot
  <2>2. ASSUME NEW j \in Jobs, New(j, Agent, DemoSlug) PROVE ProbeInv'
    <3>1. life' = [life EXCEPT ![Agent] = "up"] /\ UNCHANGED work
      BY <1>9 DEF Boot
    <3> QED BY <2>2, <3>1, ProbeNew
  <2> QED BY <1>9, <2>1, <2>2 DEF Boot, InjectDemoTask
<1>10. ASSUME NEW p \in Processes, NEW j \in Jobs, Launch(p, j) PROVE ProbeInv'
  BY <1>10, ProbeNew DEF Launch
<1>11. CASE BotEnds \/ RequestStop \/ Close
  BY <1>11 DEF BotEnds, RequestStop, Close
<1>12. ASSUME NEW p \in Processes, Unwind(p) PROVE ProbeInv'
  BY <1>12 DEF Unwind, Lingering
<1>13. ASSUME NEW j \in Jobs, ThreadEnds(j) PROVE ProbeInv'
  BY <1>13, ProbeTree DEF ThreadEnds, Commits, Write, Lingering
<1>14. ASSUME NEW p \in Processes, Exit(p) PROVE ProbeInv'
  BY <1>14 DEF Exit, Die
<1>15. CASE Kill
  BY <1>15 DEF Kill, Die
<1>16. CASE UNCHANGED vars
  BY <1>16 DEF vars
<1> QED
  BY <1>1, <1>2, <1>3, <1>4, <1>5, <1>6, <1>7, <1>8, <1>9, <1>10, <1>11, <1>12, <1>13, <1>14,
     <1>15, <1>16
  DEF Next

\* ProbesCleanUp: a probe that ran its course left no tree, until it is run again.
THEOREM CleanProbes == Spec => []ProbesCleanUp
<1>1. Spec => []ProbeInv
  BY Inductive, ProbeInit, ProbeStep, PTL DEF Spec
<1>2. ProbeInv => ProbesCleanUp
  BY DEF ProbeInv
<1> QED BY <1>1, <1>2, PTL
=============================================================================
