------------------------- MODULE TaskExecutionProofs -------------------------
(***************************************************************************)
(* Theorems about TaskExecution, for every value of its constants.  First  *)
(* the types, which need two facts besides TypeOK: a started job has a     *)
(* slug and a working handler has a run.  Then the inductive invariant     *)
(* behind PublishedWasVerified and MergedWasApproved, and the refinement.  *)
(***************************************************************************)
EXTENDS TaskExecution, FiniteSetTheorems, TLAPS

\* A job that was started has its slug, one that was not has none.
SlugInv == \A j \in Jobs : IF pc[j] = "none" THEN slug[j] = None
                                             ELSE slug[j] \in Slugs

\* A handler at work has a run.
RunInv == \A h \in Handlers : hpc[h] # "idle" => hrun[h] \in Jobs

TypeInv == TypeOK /\ SlugInv /\ RunInv

USE DEF evidence, rows, jobs, git, gitlab, chat, handlers, env

\* As many updates come back after a kill as handlers had them in their hands.
LEMMA RedeliveredCount ==
    ASSUME NEW again \in SUBSET InFlight, NEW u \in Updates
    PROVE  /\ Cardinality({h \in again : UpdateOf(h) = u}) \in Nat
           /\ Cardinality({h \in again : UpdateOf(h) = u}) > 0
                 => \E h \in InFlight : u = UpdateOf(h)
<1> DEFINE Same == {h \in again : UpdateOf(h) = u}
<1>1. Same \subseteq Handlers
  BY DEF InFlight
<1>2. IsFiniteSet(Same)
  BY <1>1, HandlersAreFinite, FS_Subset
<1>3. Cardinality(Same) \in Nat
  BY <1>2, FS_CardinalityType
<1>4. Same = {} => Cardinality(Same) = 0
  BY <1>2, FS_EmptySet
<1>5. Same # {} => \E h \in InFlight : u = UpdateOf(h)
  OBVIOUS
<1> HIDE DEF Same
<1>6. Cardinality(Same) > 0 => \E h \in InFlight : u = UpdateOf(h)
  BY <1>3, <1>4, <1>5
<1> QED
  BY <1>3, <1>6 DEF Same

\* So what waits after a kill waited before it or was being handled.
LEMMA CrashInbox ==
    ASSUME inbox \in [Updates -> Nat], Crash
    PROVE  /\ inbox' \in [Updates -> Nat]
           /\ \A u \in Updates : inbox'[u] > 0 =>
                 inbox[u] > 0 \/ \E h \in InFlight : u = UpdateOf(h)
<1>1. PICK again \in SUBSET InFlight :
         inbox' = [u \in Updates |-> inbox[u] + Cardinality({h \in again : UpdateOf(h) = u})]
  BY DEF Crash
<1> DEFINE back(u) == Cardinality({h \in again : UpdateOf(h) = u})
<1>2. \A u \in Updates : /\ back(u) \in Nat
                         /\ back(u) > 0 => \E h \in InFlight : u = UpdateOf(h)
  BY RedeliveredCount, Zenon
<1>3. inbox' = [u \in Updates |-> inbox[u] + back(u)]
  BY <1>1
<1> HIDE DEF back
<1>4. inbox' \in [Updates -> Nat]
  BY <1>2, <1>3
<1>5. ASSUME NEW u \in Updates, inbox'[u] > 0
      PROVE  inbox[u] > 0 \/ back(u) > 0
  BY <1>2, <1>3, <1>5
<1> QED
  BY <1>2, <1>4, <1>5

LEMMA TypeInit == Init => TypeInv
  BY DryRunAssumption
     DEF Init, TypeInv, TypeOK, SlugInv, RunInv, Statuses, Contents, Causes, Places,
         HandlerPlaces

LEMMA TypeStep == TypeInv /\ [Next]_vars => TypeInv'
<1> SUFFICES ASSUME TypeInv, [Next]_vars PROVE TypeInv'
  OBVIOUS
<1> USE DEF TypeInv, TypeOK, SlugInv, RunInv, Contents, Causes, Places, Critical,
            HandlerPlaces, Goto, Raise, Release, HGoto, HEnd, HRaise
<1>1. ASSUME NEW j \in Jobs, NEW s \in Slugs, Start(j, s) PROVE TypeInv'
  BY <1>1 DEF Start
<1>2. ASSUME NEW j \in Jobs, JobStep(j) PROVE TypeInv'
  <2>1. CASE Acquire(j)
    BY <2>1 DEF Acquire, Statuses
  <2>2. CASE EnterStage(j)
    BY <2>2 DEF EnterStage, Stages, Statuses
  <2>3. CASE CreateTree(j)
    BY <2>3 DEF CreateTree
  <2>4. CASE SaveTree(j)
    BY <2>4 DEF SaveTree
  <2>5. CASE StartCoder(j)
    BY <2>5 DEF StartCoder
  <2>6. CASE RunCoder(j)
    BY <2>6 DEF RunCoder
  <2>7. CASE RunGates(j)
    BY <2>7 DEF RunGates
  <2>8. CASE Review(j)
    BY <2>8 DEF Review
  <2>9. CASE DryRunDone(j)
    BY <2>9 DEF DryRunDone, Statuses
  <2>10. CASE DryRunClean(j)
    BY <2>10 DEF DryRunClean, RemoveTree
  <2>11. CASE Push(j)
    BY <2>11 DEF Push
  <2>12. CASE OpenMR(j)
    BY <2>12 DEF OpenMR
  <2>13. CASE SaveMR(j)
    BY <2>13 DEF SaveMR
  <2>14. CASE SendCard(j)
    BY <2>14 DEF SendCard
  <2>15. CASE Fail(j)
    BY <2>15 DEF Fail, Statuses
  <2> QED
    BY <1>2, <2>1, <2>2, <2>3, <2>4, <2>5, <2>6, <2>7, <2>8, <2>9, <2>10, <2>11,
       <2>12, <2>13, <2>14, <2>15 DEF JobStep
<1>3. ASSUME NEW j \in Jobs, NEW button \in Buttons, Press(j, button)
      PROVE  TypeInv'
  BY <1>3, BoundsAssumption DEF Press, Updates
<1>4. ASSUME NEW h \in Handlers, NEW update \in Updates, Answer(h, update)
      PROVE  TypeInv'
  BY <1>4 DEF Answer, TextFor, ActFor, Updates, Buttons
<1>5. ASSUME NEW h \in Handlers, HandlerStep(h) PROVE TypeInv'
  <2>1. CASE LoadRun(h)
    BY <2>1 DEF LoadRun
  <2>2. CASE BeginMerge(h)
    BY <2>2 DEF BeginMerge, Statuses
  <2>3. CASE Merge(h)
    BY <2>3 DEF Merge
  <2>4. CASE CleanMerged(h)
    BY <2>4 DEF CleanMerged, Cleanup, RemoveTree
  <2>5. CASE FinishMerge(h)
    BY <2>5 DEF FinishMerge, Statuses
  <2>6. CASE FailMerge(h)
    BY <2>6 DEF FailMerge, Statuses
  <2>7. CASE CleanCancelled(h)
    BY <2>7 DEF CleanCancelled, Cleanup, RemoveTree
  <2>8. CASE SaveCancelled(h)
    BY <2>8 DEF SaveCancelled, Statuses
  <2> QED
    BY <1>5, <2>1, <2>2, <2>3, <2>4, <2>5, <2>6, <2>7, <2>8 DEF HandlerStep
<1>6. ASSUME Crash PROVE TypeInv'
  <2>1. inbox' \in [Updates -> Nat]
    BY <1>6, CrashInbox
  <2> QED
    BY <1>6, <2>1, DryRunAssumption DEF Crash
<1>7. CASE UNCHANGED vars
  BY <1>7 DEF vars
<1> QED
  BY <1>1, <1>2, <1>3, <1>4, <1>5, <1>6, <1>7 DEF Next

\* Every variable keeps its type, whatever the number of jobs, slugs, handlers,
\* presses and crashes and whichever services fail.
THEOREM TypeCorrect == Spec => []TypeOK
<1>1. Spec => []TypeInv
  BY TypeInit, TypeStep, PTL DEF Spec
<1>2. TypeInv => TypeOK
  BY DEF TypeInv
<1> QED
  BY <1>1, <1>2, PTL

-----------------------------------------------------------------------------
(* The gate: nothing unverified is published, nothing unapproved is merged *)

\* A job inside `async with self._lock` holds the lock, so it is alone there.
LockInv == \A j \in Jobs : pc[j] \in Critical => lock = j

\* What a job has learned by its place.  The tree of a reviewed job holds what
\* was reviewed until the push, or is gone.
EvidenceInv ==
    \A j \in Jobs :
       /\ pc[j] \in {"review", "reviewer", "dryrun", "push", "pushing"} => j \in passed
       /\ pc[j] \in {"push", "pushing"} =>
             /\ reviewed[j] \in {Base, j}
             /\ worktree[slug[j]] \in {None, reviewed[j]}
       /\ reviewed[j] # None =>
             pc[j] \in {"dryrun", "dryclean", "push", "pushing", "openmr", "savemr",
                        "await", "card", "fail", "end"}

\* A card, its updates and its handlers exist only for a job that left _execute.
CardInv ==
    \A j \in Jobs :
       (\/ card[j] # "none"
        \/ j \in approvals
        \/ \E button \in Buttons : inbox[<<j, button>>] > 0
        \/ \E h \in Handlers : hrun[h] = j) => pc[j] \in {"fail", "end"}

\* An update or a handler on the way to a merge stems from a press of Approve.
ApprovalInv ==
    /\ \A j \in Jobs : inbox[<<j, "approve">>] > 0 => j \in approvals
    /\ \A h \in Handlers : hpc[h] \in {"load", "begin", "merge", "clean", "finish", "failing"}
                              => hrun[h] \in approvals

\* A change is on the branch of its own slug.
OriginInv == \A s \in Slugs : remote[s] \in Jobs => slug[remote[s]] = s

GateInv == /\ LockInv
           /\ WorktreeIsOwn
           /\ EvidenceInv
           /\ CardInv
           /\ ApprovalInv
           /\ OriginInv
           /\ PublishedWasVerified
           /\ MergedWasApproved

IndInv == TypeInv /\ GateInv

LEMMA GateStep == IndInv /\ [Next]_vars => GateInv'
<1> SUFFICES ASSUME IndInv, [Next]_vars PROVE GateInv'
  OBVIOUS
<1> USE MarkersAreFresh
    DEF IndInv, TypeInv, TypeOK, SlugInv, RunInv, GateInv, LockInv, WorktreeIsOwn, EvidenceInv,
        CardInv, ApprovalInv, OriginInv, PublishedWasVerified, MergedWasApproved, Verified,
        Working, Contents, Critical, Goto, Raise, Release, HGoto, HEnd, HRaise
<1>1. ASSUME NEW j \in Jobs, NEW s \in Slugs, Start(j, s) PROVE GateInv'
  BY <1>1 DEF Start
<1>2. ASSUME NEW j \in Jobs, JobStep(j) PROVE GateInv'
  <2>1. CASE Acquire(j)
    BY <2>1 DEF Acquire
  <2>2. CASE EnterStage(j)
    BY <2>2 DEF EnterStage, Stages
  <2>3. CASE CreateTree(j)
    BY <2>3 DEF CreateTree
  <2>4. CASE SaveTree(j)
    BY <2>4 DEF SaveTree
  <2>5. CASE StartCoder(j)
    BY <2>5 DEF StartCoder
  <2>6. CASE RunCoder(j)
    BY <2>6 DEF RunCoder
  <2>7. CASE RunGates(j)
    BY <2>7 DEF RunGates
  <2>8. CASE Review(j)
    BY <2>8 DEF Review
  <2>9. CASE DryRunDone(j)
    BY <2>9 DEF DryRunDone
  <2>10. CASE DryRunClean(j)
    BY <2>10 DEF DryRunClean, RemoveTree
  <2>11. CASE Push(j)
    BY <2>11 DEF Push, FastForwards
  <2>12. CASE OpenMR(j)
    BY <2>12 DEF OpenMR, CanOpen
  <2>13. CASE SaveMR(j)
    BY <2>13 DEF SaveMR
  <2>14. CASE SendCard(j)
    BY <2>14 DEF SendCard
  <2>15. CASE Fail(j)
    BY <2>15 DEF Fail
  <2> QED
    BY <1>2, <2>1, <2>2, <2>3, <2>4, <2>5, <2>6, <2>7, <2>8, <2>9, <2>10, <2>11, <2>12, <2>13, <2>14, <2>15 DEF JobStep
<1>3. ASSUME NEW j \in Jobs, NEW button \in Buttons, Press(j, button)
      PROVE  GateInv'
  BY <1>3 DEF Press, Updates, Buttons
<1>4. ASSUME NEW h \in Handlers, NEW update \in Updates, Answer(h, update)
      PROVE  GateInv'
  BY <1>4 DEF Answer, TextFor, ActFor, Updates, Buttons
<1>5. ASSUME NEW h \in Handlers, HandlerStep(h) PROVE GateInv'
  <2>1. CASE LoadRun(h)
    BY <2>1 DEF LoadRun
  <2>2. CASE BeginMerge(h)
    BY <2>2 DEF BeginMerge
  <2>3. CASE Merge(h)
    <3> DEFINE j == hrun[h]
    <3>1. j \in approvals /\ j \in Jobs /\ slug[j] \in Slugs
      BY <2>3 DEF Merge
    <3>2. /\ UNCHANGED <<evidence, rows, jobs, chat, worktree>>
          /\ hpc'[h] \in {"clean", "failing"} /\ hrun' = hrun
          /\ \A g \in Handlers \ {h} : hpc'[g] = hpc[g]
      BY <2>3 DEF Merge
    <3>3. /\ \A s \in Slugs : remote'[s] \in {None, remote[s]}
          /\ \A c \in trunk' \ trunk : c \in Jobs /\ c = remote[slug[j]]
      BY <2>3, <3>1 DEF Merge
    <3>4. MergedWasApproved'
      BY <3>1, <3>2, <3>3
    <3>5. OriginInv' /\ PublishedWasVerified'
      BY <3>2, <3>3
    <3>6. ApprovalInv'
      BY <2>3, <3>1, <3>2 DEF Merge
    <3> QED
      BY <3>2, <3>4, <3>5, <3>6
  <2>4. CASE CleanMerged(h)
    BY <2>4 DEF CleanMerged, Cleanup, RemoveTree
  <2>5. CASE FinishMerge(h)
    <3>1. CASE HEnd(h)
      BY <2>5, <3>1 DEF FinishMerge
    <3>2. CASE HRaise(h, "telegram") \/ HRaise(h, "other")
      BY <2>5, <3>2 DEF FinishMerge
    <3> QED
      BY <2>5, <3>1, <3>2 DEF FinishMerge
  <2>6. CASE FailMerge(h)
    BY <2>6 DEF FailMerge
  <2>7. CASE CleanCancelled(h)
    BY <2>7 DEF CleanCancelled, Cleanup, RemoveTree
  <2>8. CASE SaveCancelled(h)
    BY <2>8 DEF SaveCancelled
  <2> QED
    BY <1>5, <2>1, <2>2, <2>3, <2>4, <2>5, <2>6, <2>7, <2>8 DEF HandlerStep
<1>6. ASSUME Crash PROVE GateInv'
  <2>1. /\ UNCHANGED <<evidence, git, gitlab, slug, card, approvals>>
        /\ \A j \in Jobs : pc'[j] = IF pc[j] = "none" THEN "none" ELSE "end"
        /\ \A g \in Handlers : hpc'[g] = "idle" /\ hrun'[g] = None
    BY <1>6 DEF Crash
  <2>2. \A u \in Updates : inbox'[u] > 0 => inbox[u] > 0 \/ \E g \in InFlight : u = UpdateOf(g)
    BY <1>6, CrashInbox
  <2>3. CardInv'
    BY <2>1, <2>2 DEF UpdateOf, Updates, InFlight
  <2>4. ApprovalInv'
    BY <2>1, <2>2 DEF UpdateOf, Updates, Buttons, InFlight, HandlerPlaces
  <2> QED
    BY <2>1, <2>3, <2>4
<1>7. CASE UNCHANGED vars
  BY <1>7 DEF vars
<1> QED
  BY <1>1, <1>2, <1>3, <1>4, <1>5, <1>6, <1>7 DEF Next

LEMMA GateInit == Init => GateInv
  BY MarkersAreFresh
     DEF Init, GateInv, LockInv, WorktreeIsOwn, EvidenceInv, CardInv, ApprovalInv, OriginInv,
         PublishedWasVerified, MergedWasApproved, Working, Critical, Updates, Buttons

\* The inductive invariant holds of every reachable state.
THEOREM Inductive == Spec => []IndInv
<1>1. Init => IndInv
  BY TypeInit, GateInit DEF IndInv
<1>2. IndInv /\ [Next]_vars => IndInv'
  BY TypeStep, GateStep DEF IndInv
<1> QED
  BY <1>1, <1>2, PTL DEF Spec

\* Only what the gates and the reviewer passed is ever on origin, with any
\* number of tasks sharing slugs, crashes, failing calls and callbacks.
THEOREM OnlyVerifiedIsPublished == Spec => []PublishedWasVerified
<1>1. IndInv => PublishedWasVerified
  BY DEF IndInv, GateInv
<1> QED
  BY <1>1, Inductive, PTL

\* A merged change was verified, and the user approved a run of its branch.
THEOREM OnlyApprovedIsMerged == Spec => []MergedWasApproved
<1>1. IndInv => MergedWasApproved
  BY DEF IndInv, GateInv
<1> QED
  BY <1>1, Inductive, PTL

\* No job ever finds a foreign change in the tree it works in.
THEOREM NoForeignWork == Spec => []WorktreeIsOwn
<1>1. IndInv => WorktreeIsOwn
  BY DEF IndInv, GateInv
<1> QED
  BY <1>1, Inductive, PTL

-----------------------------------------------------------------------------
(* The refinement of MergeGate *)

Published == trunk \cup {c \in Jobs : \E s \in Slugs : remote[s] = c}
VerifiedJobs == {c \in Jobs : Verified(c)}

LEMMA GateStart == Init => Gate!Init
  BY MarkersAreFresh DEF Init, Gate!Init, Verified

LEMMA GateMove == IndInv /\ [Next]_vars => [Gate!Next]_(Gate!vars)
<1> SUFFICES ASSUME IndInv, [Next]_vars
             PROVE  Gate!Next \/ UNCHANGED Gate!vars
  OBVIOUS
<1> DEFINE Quiet == UNCHANGED <<slug, VerifiedJobs, Published, approvals, trunk>>
<1> USE MarkersAreFresh
<1>q. Quiet => UNCHANGED Gate!vars
  BY DEF Gate!vars, Published, VerifiedJobs
<1>e. UNCHANGED <<passed, reviewed>> => UNCHANGED VerifiedJobs
  BY DEF VerifiedJobs, Verified
<1>p. UNCHANGED <<remote, trunk>> => UNCHANGED Published
  BY DEF Published
<1>s. UNCHANGED <<slug, passed, reviewed, remote, trunk, approvals>> => Quiet
  BY <1>e, <1>p
<1>1. ASSUME NEW j \in Jobs, NEW s \in Slugs, Start(j, s) PROVE Gate!Next
  <2>1. Gate!Begin(j, s)
    BY <1>1, <1>e, <1>p DEF Start, Gate!Begin, IndInv, TypeInv, SlugInv, VerifiedJobs, Published
  <2> QED
    BY <2>1 DEF Gate!Next
<1>2. ASSUME NEW j \in Jobs, JobStep(j) PROVE Gate!Next \/ UNCHANGED Gate!vars
  <2>1. CASE RunGates(j) \/ Review(j)
    <3>1. /\ UNCHANGED <<slug, remote, trunk, approvals>>
          /\ slug[j] # None
          /\ \/ VerifiedJobs' = VerifiedJobs
             \/ VerifiedJobs' = VerifiedJobs \cup {j}
      BY <2>1 DEF RunGates, Review, Goto, Raise, VerifiedJobs, Verified, IndInv, TypeInv,
                  TypeOK, SlugInv, GateInv, EvidenceInv
    <3>2. CASE VerifiedJobs' = VerifiedJobs
      BY <3>1, <3>2, <1>p, <1>q
    <3>3. CASE VerifiedJobs' = VerifiedJobs \cup {j}
      BY <3>1, <3>3, <1>p DEF Gate!Next, Gate!Verify, VerifiedJobs, Published
    <3> QED
      BY <3>1, <3>2, <3>3
  <2>2. CASE Push(j)
    <3>1. /\ UNCHANGED <<slug, passed, reviewed, trunk, approvals>>
          /\ \/ Published' = Published
             \/ Published' = Published \cup {j} /\ j \in VerifiedJobs
      BY <2>2 DEF Push, FastForwards, Goto, Raise, Published, VerifiedJobs, Verified, IndInv,
                  TypeInv, TypeOK, SlugInv, GateInv, EvidenceInv, Contents
    <3>2. CASE Published' = Published
      BY <3>1, <3>2, <1>e, <1>q
    <3>3. CASE Published' = Published \cup {j} /\ j \in VerifiedJobs
      BY <3>1, <3>3, <1>e DEF Gate!Next, Gate!Publish, VerifiedJobs, Published
    <3> QED
      BY <3>1, <3>2, <3>3
  <2>3. CASE ~(RunGates(j) \/ Review(j) \/ Push(j))
    BY <1>2, <2>3, <1>q, <1>s
       DEF JobStep, Acquire, EnterStage, CreateTree, SaveTree, StartCoder, RunCoder, DryRunDone,
           DryRunClean, OpenMR, SaveMR, SendCard, Fail, Goto, Raise, Release
  <2> QED
    BY <2>1, <2>2, <2>3
<1>3. ASSUME NEW j \in Jobs, NEW button \in Buttons, Press(j, button)
      PROVE  Gate!Next \/ UNCHANGED Gate!vars
  <2>1. UNCHANGED <<slug, passed, reviewed, remote, trunk>> /\ slug[j] # None
    BY <1>3 DEF Press, IndInv, TypeInv, SlugInv, GateInv, CardInv
  <2>2. CASE button = "approve"
    BY <1>3, <2>1, <2>2, <1>e, <1>p DEF Press, Gate!Next, Gate!Approve, VerifiedJobs, Published
  <2>3. CASE button # "approve"
    BY <1>3, <2>1, <2>3, <1>q, <1>s DEF Press
  <2> QED
    BY <2>2, <2>3
<1>4. ASSUME NEW h \in Handlers, NEW update \in Updates, Answer(h, update)
      PROVE  UNCHANGED Gate!vars
  BY <1>4, <1>q, <1>s DEF Answer
<1>5. ASSUME NEW h \in Handlers, HandlerStep(h) PROVE Gate!Next \/ UNCHANGED Gate!vars
  <2>1. CASE Merge(h)
    <3> DEFINE c == remote[slug[hrun[h]]]
    <3>1. /\ hrun[h] \in approvals /\ hrun[h] \in Jobs /\ slug[hrun[h]] \in Slugs
          /\ UNCHANGED <<slug, passed, reviewed, approvals>>
      BY <2>1 DEF Merge, IndInv, TypeInv, RunInv, SlugInv, TypeOK, GateInv, ApprovalInv, CardInv
    <3>2. \/ trunk' = trunk /\ remote' = remote
          \/ trunk' = trunk \cup ({c} \cap Jobs) /\ remote' = [remote EXCEPT ![slug[hrun[h]]] = None]
      BY <2>1 DEF Merge
    <3>3. Published' = Published
      BY <3>1, <3>2 DEF Published, IndInv, TypeInv, TypeOK
    <3>4. CASE trunk' = trunk
      BY <3>1, <3>3, <3>4, <1>e, <1>q
    <3>5. CASE trunk' # trunk
      <4>1. c \in Jobs /\ trunk' = trunk \cup {c}
        BY <3>2, <3>5
      <4>2. c \in Published /\ slug[hrun[h]] = slug[c]
        BY <3>1, <4>1 DEF Published, IndInv, GateInv, OriginInv
      <4> QED
        BY <3>1, <3>3, <4>1, <4>2, <1>e DEF Gate!Next, Gate!Merge, VerifiedJobs, Published
    <3> QED
      BY <3>4, <3>5
  <2>2. CASE ~Merge(h)
    BY <1>5, <2>2, <1>q, <1>s
       DEF HandlerStep, LoadRun, BeginMerge, CleanMerged, FinishMerge, FailMerge,
           CleanCancelled, SaveCancelled, HGoto, HEnd, HRaise
  <2> QED
    BY <2>1, <2>2
<1>6. ASSUME Crash PROVE UNCHANGED Gate!vars
  BY <1>6, <1>q, <1>s DEF Crash
<1>7. CASE UNCHANGED vars
  BY <1>7, <1>q, <1>s DEF vars
<1> QED
  BY <1>1, <1>2, <1>3, <1>4, <1>5, <1>6, <1>7 DEF Next

\* The executor, its callbacks and their failures implement the abstract gate.
THEOREM ImplementsMergeGate == Spec => KeepsTheGate
<1>1. Spec => []IndInv
  BY Inductive
<1> QED
  BY <1>1, GateStart, GateMove, PTL DEF Spec, KeepsTheGate, Gate!Spec

-----------------------------------------------------------------------------
(* The run's row: what its status implies, and which way it moves *)

\* Places before the card is sent at which the row cannot be decided yet.
Undecided == {"none", "queued"} \cup (Critical \ {"dryclean", "card", "fail"})

\* The row against the job's place ...
StageInv ==
    \A j \in Jobs :
       /\ pc[j] \in Undecided => status[j] \notin Decided
       /\ pc[j] \in Critical \ {"prepare", "tree", "savetree", "fail"} => branch[j] = slug[j]
       /\ pc[j] \in {"savemr", "await", "card"} => mr[j] # "none"
       /\ pc[j] \in {"await", "card"} => mrIid[j] # None
       /\ pc[j] = "dryrun" => reviewed[j] # None

\* ... against the request it names ...
RequestInv ==
    \A j \in Jobs :
       /\ mrIid[j] # None => /\ mrIid[j] = j
                             /\ mr[j] # "none"
                             /\ branch[j] = slug[j]
       /\ mr[j] # "none" => pc[j] \in {"savemr", "await", "card", "fail", "end"}
       /\ mrIid[j] # None => pc[j] \in {"await", "card", "fail", "end"}
       /\ status[j] \in {"awaiting", "merging"} => mrIid[j] # None

\* ... and against the handlers that write it too.
HandlerInv ==
    \A h \in Handlers : /\ hpc[h] = "begin" => mrIid[hrun[h]] # None
                        /\ hpc[h] \in {"clean", "finish"} => mr[hrun[h]] = "merged"

\* Only a job that got past its push has its change on origin or merged.
PushedInv == \A j \in Published : pc[j] \in {"openmr", "savemr", "await", "card", "fail", "end"}

\* A row that is done although no request was merged is a dry run's.
DoneInv ==
    \A j \in Jobs : status[j] = "done" =>
       \/ mr[j] = "merged"
       \/ /\ pc[j] \in {"dryclean", "fail", "end"}
          /\ mrIid[j] = None /\ mr[j] = "none"
          /\ j \in passed /\ reviewed[j] # None
          /\ j \notin Published

RowInv == StageInv /\ RequestInv /\ HandlerInv /\ PushedInv /\ DoneInv

LEMMA RowInit == Init => RowInv
  BY MarkersAreFresh
     DEF Init, RowInv, StageInv, RequestInv, HandlerInv, PushedInv, DoneInv, Published, Undecided,
         Decided, Critical

LEMMA RowStep == IndInv /\ RowInv /\ [Next]_vars => RowInv'
<1> SUFFICES ASSUME IndInv, RowInv, [Next]_vars PROVE RowInv'
  OBVIOUS
<1> USE MarkersAreFresh
    DEF IndInv, TypeInv, TypeOK, SlugInv, RunInv, GateInv, LockInv, EvidenceInv, CardInv, RowInv,
        StageInv, RequestInv, HandlerInv, PushedInv, DoneInv, Published, Undecided, Decided,
        Critical, Goto, Raise, Release, HGoto, HEnd, HRaise
<1>1. ASSUME NEW j \in Jobs, NEW s \in Slugs, Start(j, s) PROVE RowInv'
  BY <1>1 DEF Start
<1>2. ASSUME NEW j \in Jobs, JobStep(j) PROVE RowInv'
  <2>1. CASE Acquire(j)
    BY <2>1 DEF Acquire
  <2>2. CASE EnterStage(j)
    BY <2>2 DEF EnterStage, Stages
  <2>3. CASE CreateTree(j)
    BY <2>3 DEF CreateTree
  <2>4. CASE SaveTree(j)
    BY <2>4 DEF SaveTree
  <2>5. CASE StartCoder(j)
    BY <2>5 DEF StartCoder
  <2>6. CASE RunCoder(j)
    BY <2>6 DEF RunCoder
  <2>7. CASE RunGates(j)
    BY <2>7 DEF RunGates
  <2>8. CASE Review(j)
    BY <2>8 DEF Review
  <2>9. CASE DryRunDone(j)
    BY <2>9 DEF DryRunDone
  <2>10. CASE DryRunClean(j)
    BY <2>10 DEF DryRunClean, RemoveTree
  <2>11. CASE Push(j)
    BY <2>11 DEF Push, FastForwards
  <2>12. CASE OpenMR(j)
    BY <2>12 DEF OpenMR, CanOpen
  <2>13. CASE SaveMR(j)
    BY <2>13 DEF SaveMR
  <2>14. CASE SendCard(j)
    BY <2>14 DEF SendCard
  <2>15. CASE Fail(j)
    BY <2>15 DEF Fail
  <2> QED
    BY <1>2, <2>1, <2>2, <2>3, <2>4, <2>5, <2>6, <2>7, <2>8, <2>9, <2>10, <2>11, <2>12, <2>13, <2>14, <2>15 DEF JobStep
<1>3. ASSUME NEW j \in Jobs, NEW button \in Buttons, Press(j, button)
      PROVE  RowInv'
  BY <1>3 DEF Press, Updates, Buttons
<1>4. ASSUME NEW h \in Handlers, NEW update \in Updates, Answer(h, update)
      PROVE  RowInv'
  BY <1>4 DEF Answer, TextFor, ActFor, Updates, Buttons
<1>5. ASSUME NEW h \in Handlers, HandlerStep(h) PROVE RowInv'
  <2>1. CASE LoadRun(h)
    BY <2>1 DEF LoadRun
  <2>2. CASE BeginMerge(h)
    <3>1. /\ UNCHANGED <<branch, mrIid, evidence, jobs, git, gitlab, chat>>
          /\ hrun[h] \in Jobs /\ pc[hrun[h]] \in {"fail", "end"}
      BY <2>2 DEF BeginMerge
    <3>2. StageInv'
      BY <2>2, <3>1 DEF BeginMerge
    <3>3. RequestInv'
      BY <2>2, <3>1 DEF BeginMerge
    <3>4. HandlerInv'
      BY <2>2, <3>1 DEF BeginMerge
    <3>5. PushedInv'
      BY <2>2, <3>1 DEF BeginMerge
    <3>6. DoneInv'
      BY <2>2, <3>1 DEF BeginMerge
    <3> QED
      BY <3>2, <3>3, <3>4, <3>5, <3>6
  <2>3. CASE Merge(h)
    BY <2>3 DEF Merge
  <2>4. CASE CleanMerged(h)
    BY <2>4 DEF CleanMerged, Cleanup, RemoveTree
  <2>5. CASE FinishMerge(h)
    <3>1. /\ UNCHANGED <<branch, mrIid, evidence, jobs, git, gitlab, chat>>
          /\ hrun[h] \in Jobs /\ pc[hrun[h]] \in {"fail", "end"}
      BY <2>5 DEF FinishMerge
    <3>2. StageInv'
      BY <2>5, <3>1 DEF FinishMerge
    <3>3. RequestInv'
      BY <2>5, <3>1 DEF FinishMerge
    <3>4. HandlerInv'
      BY <2>5, <3>1 DEF FinishMerge
    <3>5. PushedInv'
      BY <2>5, <3>1 DEF FinishMerge
    <3>6. DoneInv'
      BY <2>5, <3>1 DEF FinishMerge
    <3> QED
      BY <3>2, <3>3, <3>4, <3>5, <3>6
  <2>6. CASE FailMerge(h)
    <3>1. /\ UNCHANGED <<branch, mrIid, evidence, jobs, git, gitlab, chat>>
          /\ hrun[h] \in Jobs /\ pc[hrun[h]] \in {"fail", "end"}
      BY <2>6 DEF FailMerge
    <3>2. StageInv'
      BY <2>6, <3>1 DEF FailMerge
    <3>3. RequestInv'
      BY <2>6, <3>1 DEF FailMerge
    <3>4. HandlerInv'
      BY <2>6, <3>1 DEF FailMerge
    <3>5. PushedInv'
      BY <2>6, <3>1 DEF FailMerge
    <3>6. DoneInv'
      BY <2>6, <3>1 DEF FailMerge
    <3> QED
      BY <3>2, <3>3, <3>4, <3>5, <3>6
  <2>7. CASE CleanCancelled(h)
    BY <2>7 DEF CleanCancelled, Cleanup, RemoveTree
  <2>8. CASE SaveCancelled(h)
    <3>1. /\ UNCHANGED <<branch, mrIid, evidence, jobs, git, gitlab, chat>>
          /\ hrun[h] \in Jobs /\ pc[hrun[h]] \in {"fail", "end"}
      BY <2>8 DEF SaveCancelled
    <3>2. StageInv'
      BY <2>8, <3>1 DEF SaveCancelled
    <3>3. RequestInv'
      BY <2>8, <3>1 DEF SaveCancelled
    <3>4. HandlerInv'
      BY <2>8, <3>1 DEF SaveCancelled
    <3>5. PushedInv'
      BY <2>8, <3>1 DEF SaveCancelled
    <3>6. DoneInv'
      BY <2>8, <3>1 DEF SaveCancelled
    <3> QED
      BY <3>2, <3>3, <3>4, <3>5, <3>6
  <2> QED
    BY <1>5, <2>1, <2>2, <2>3, <2>4, <2>5, <2>6, <2>7, <2>8 DEF HandlerStep
<1>6. ASSUME Crash PROVE RowInv'
  BY <1>6 DEF Crash
<1>7. CASE UNCHANGED vars
  BY <1>7 DEF vars
<1> QED
  BY <1>1, <1>2, <1>3, <1>4, <1>5, <1>6, <1>7 DEF Next

LEMMA RowAlways == Spec => [](IndInv /\ RowInv)
<1>1. Spec => []IndInv
  BY Inductive
<1>2. Spec => []RowInv
  BY <1>1, RowInit, RowStep, PTL DEF Spec
<1> QED
  BY <1>1, <1>2, PTL

\* The error "run has no MR to merge" is never raised: a run that awaits its
\* approval has its request, its number and its branch.
THEOREM ApprovalFindsItsRequest == Spec => []AwaitingIsMergeable
<1>1. IndInv /\ RowInv => AwaitingIsMergeable
  BY DEF RowInv, RequestInv, AwaitingIsMergeable
<1> QED
  BY <1>1, RowAlways, PTL

\* A done run is merged, or it is a dry run that published nothing.
THEOREM DoneMeansDone == Spec => []DoneIsMergedOrDry
<1>1. IndInv /\ RowInv => DoneIsMergedOrDry
  BY DEF RowInv, DoneInv, DoneIsMergedOrDry, Published
<1> QED
  BY <1>1, RowAlways, PTL

\* No job or callback ever takes a decided run back to a stage of _execute or
\* to awaiting approval.
THEOREM DecisionsStay == Spec => NeverReopened
<1> DEFINE Stays == \A j \in Jobs : status[j] \in Decided => status'[j] \in Decided
<1>1. ASSUME IndInv, RowInv, Next PROVE Stays
  <2> SUFFICES ASSUME NEW k \in Jobs, status[k] \in Decided PROVE status'[k] \in Decided
    OBVIOUS
  <2>1. pc[k] \notin Undecided
    BY <1>1 DEF RowInv, StageInv
  <2>2. ASSUME NEW j \in Jobs, Acquire(j) \/ EnterStage(j) PROVE status'[k] = status[k]
    BY <2>1, <2>2, <1>1 DEF Acquire, EnterStage, Stages, Undecided, Critical, IndInv, TypeInv, TypeOK
  <2>3. ASSUME NEW j \in Jobs, JobStep(j) PROVE status'[k] \in Decided
    BY <2>2, <2>3, <1>1 DEF JobStep, CreateTree, SaveTree, StartCoder, RunCoder, RunGates,
       Review, DryRunDone, DryRunClean, Push, OpenMR, SaveMR, SendCard, Fail, Decided, rows,
       IndInv, TypeInv, TypeOK
  <2>4. ASSUME NEW h \in Handlers, HandlerStep(h) PROVE status'[k] \in Decided
    BY <2>4, <1>1 DEF HandlerStep, LoadRun, BeginMerge, Merge, CleanMerged, FinishMerge,
       FailMerge, CleanCancelled, SaveCancelled, Decided, rows, IndInv, TypeInv, TypeOK
  <2> QED
    BY <2>3, <2>4, <1>1 DEF Next, Start, Press, Answer, Crash, rows
<1>2. (IndInv /\ RowInv) /\ [Next]_vars => [Stays]_vars
  BY <1>1
<1> QED
  BY <1>2, RowAlways, PTL DEF Spec, NeverReopened
=============================================================================
