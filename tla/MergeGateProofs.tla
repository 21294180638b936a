--------------------------- MODULE MergeGateProofs ---------------------------
(* The abstract gate keeps its promise, for any changes and branches. *)
EXTENDS MergeGate, TLAPS

\* Approved changes have a branch, so no later Begin moves them to another.
ApprovedHaveBranch == \A a \in approved : branch[a] # None

GatedInv == TypeOK /\ Gated /\ ApprovedHaveBranch

LEMMA GatedStep == GatedInv /\ [Next]_vars => GatedInv'
<1> SUFFICES ASSUME GatedInv, [Next]_vars PROVE GatedInv'
  OBVIOUS
<1> USE DEF GatedInv, TypeOK, Gated, ApprovedHaveBranch
<1>1. ASSUME NEW c \in Changes, NEW b \in Branches, Begin(c, b) PROVE GatedInv'
  BY <1>1 DEF Begin
<1>2. ASSUME NEW c \in Changes, Verify(c) PROVE GatedInv'
  BY <1>2 DEF Verify
<1>3. ASSUME NEW c \in Changes, Publish(c) PROVE GatedInv'
  BY <1>3 DEF Publish
<1>4. ASSUME NEW c \in Changes, Approve(c) PROVE GatedInv'
  BY <1>4 DEF Approve
<1>5. ASSUME NEW c \in Changes, Merge(c) PROVE GatedInv'
  BY <1>5 DEF Merge
<1>6. CASE UNCHANGED vars
  BY <1>6 DEF vars
<1> QED
  BY <1>1, <1>2, <1>3, <1>4, <1>5, <1>6 DEF Next

\* What is merged was published, verified and approved on its branch.
THEOREM GateHolds == Spec => []Gated
<1>1. Init => GatedInv
  BY DEF Init, GatedInv, TypeOK, Gated, ApprovedHaveBranch
<1>2. GatedInv => Gated
  BY DEF GatedInv
<1> QED
  BY <1>1, <1>2, GatedStep, PTL DEF Spec
=============================================================================
