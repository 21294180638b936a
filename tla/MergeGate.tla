------------------------------ MODULE MergeGate ------------------------------
(***************************************************************************)
(* What the agent promises about the target branch, with no stages, locks, *)
(* faults or messages: a change is published (pushed to origin) only after *)
(* the quality gates and the reviewer passed that very change, and it      *)
(* reaches the target branch only after the user approved a run working on *)
(* the branch that carries it.  TaskExecution is shown to implement this.  *)
(***************************************************************************)
CONSTANTS Changes,      \* one change per accepted task
          Branches,     \* remote branch names
          None          \* "no branch yet"

VARIABLES branch,       \* branch[c]: the branch change c is made for
          verified,     \* changes that passed gates and review
          published,    \* changes that were pushed to origin
          approved,     \* changes whose merge request the user approved
          merged        \* changes on the target branch

vars == <<branch, verified, published, approved, merged>>

Init == /\ branch = [c \in Changes |-> None]
        /\ verified = {}
        /\ published = {}
        /\ approved = {}
        /\ merged = {}

\* The user accepts a task: a change is begun for some branch.
Begin(c, b) == /\ branch[c] = None
               /\ branch' = [branch EXCEPT ![c] = b]
               /\ UNCHANGED <<verified, published, approved, merged>>

\* Gates and reviewer have passed the change.
Verify(c) == /\ branch[c] # None
             /\ verified' = verified \cup {c}
             /\ UNCHANGED <<branch, published, approved, merged>>

Publish(c) == /\ c \in verified
              /\ published' = published \cup {c}
              /\ UNCHANGED <<branch, verified, approved, merged>>

Approve(c) == /\ branch[c] # None
              /\ approved' = approved \cup {c}
              /\ UNCHANGED <<branch, verified, published, merged>>

\* Merging is by branch: the approved run and the change share it.
Merge(c) == /\ c \in published
            /\ \E a \in approved : branch[a] = branch[c]
            /\ merged' = merged \cup {c}
            /\ UNCHANGED <<branch, verified, published, approved>>

Next == \E c \in Changes : \/ \E b \in Branches : Begin(c, b)
                           \/ Verify(c)
                           \/ Publish(c)
                           \/ Approve(c)
                           \/ Merge(c)

Spec == Init /\ [][Next]_vars

-----------------------------------------------------------------------------
TypeOK == /\ branch \in [Changes -> Branches \cup {None}]
          /\ verified \subseteq Changes
          /\ published \subseteq Changes
          /\ approved \subseteq Changes
          /\ merged \subseteq Changes

\* Nothing unverified is published and nothing unpublished is merged; what is
\* merged was approved on its branch.  The gate approve_and_merge and _execute
\* form together.
Gated == /\ published \subseteq verified
         /\ merged \subseteq published
         /\ \A c \in merged : \E a \in approved : branch[a] = branch[c]
=============================================================================
