-------------------------- MODULE TaskIntakeProofs --------------------------
(***************************************************************************)
(* Theorems about TaskIntake, for any pages, handlers, edits and faults:   *)
(* types, one card per page, and what may be reported as removed.          *)
(***************************************************************************)
EXTENDS TaskIntake, TLAPS

USE DEF table, poller, chat, handlers, env, history

\* The poller has a page at work, and a working handler an update.
WorkInv == /\ ppc \in {"card", "mark", "remove"} => page \in Pages
           /\ \A h \in Handlers : hpc[h] # "idle" => hupd[h] \in Pages \X Buttons

TypeInv == TypeOK /\ WorkInv

\* A page without a row has had no card; neither has the one a card is about to
\* be sent for.
CardInv == /\ \A p \in Pages \ known : cards[p] = 0
           /\ ppc = "card" => page \in known /\ cards[page] = 0
           /\ ppc = "mark" => cards[page] > 0

Reporting == ppc \in {"upsert", "card", "mark", "removed", "remove"}

\* Every page the fetch has passed without reading it did not match at some
\* moment of this poll.
PassedInv == /\ ppc # "fetch" => cursor = 0
             /\ ppc = "fetch" => \A p \in Pages :
                                       /\ p <= cursor => p \in todo \cup absent
                                       /\ p \notin absent => notion[p] # 0
             /\ ppc = "list"  => Pages \subseteq todo \cup absent

\* What is handled as removed was absent, and undecided when the poll began.
RemovableInv == /\ Reporting => missing \subseteq absent \cap open
                /\ ppc = "remove" => page \in absent \cap open

IndInv == /\ TypeInv
          /\ CardInv
          /\ PassedInv
          /\ RemovableInv
          /\ OneCardPerPage
          /\ NotifiedHasCard

LEMMA InitInv == Init => IndInv
  BY NoneIsFresh DEF Init, IndInv, TypeInv, TypeOK, TableTyped, PollerTyped, ChatTyped, WorkInv, CardInv, PassedInv,
     RemovableInv, Reporting, OneCardPerPage, NotifiedHasCard, Decisions, UserDecisions

LEMMA StepInv == IndInv /\ [Next]_vars => IndInv'
<1> SUFFICES ASSUME IndInv, [Next]_vars PROVE IndInv'
  OBVIOUS
<1> USE DEF IndInv, TypeInv, TypeOK, TableTyped, PollerTyped, ChatTyped, WorkInv, CardInv,
        PassedInv, RemovableInv, Reporting,
        OneCardPerPage, NotifiedHasCard, PollTo, EndPoll, Fault, NoFault, Abort, Matching
<1>1. ASSUME NEW p \in Pages, NEW v \in {0} \cup Versions, Edit(p, v) PROVE IndInv'
  <2>1. TypeInv'
    BY <1>1 DEF Edit
  <2>2. CardInv' /\ OneCardPerPage' /\ NotifiedHasCard'
    BY <1>1 DEF Edit
  <2>3. PassedInv'
    BY <1>1 DEF Edit
  <2>4. RemovableInv'
    BY <1>1 DEF Edit
  <2> QED
    BY <2>1, <2>2, <2>3, <2>4
<1>2. ASSUME NEW p \in Pages, NEW button \in Buttons, Press(p, button) PROVE IndInv'
  <2>1. inbox' \subseteq Pages \X Buttons /\ presses' \in Nat
    BY <1>2 DEF Press
  <2>2. TypeOK'
    BY <1>2, <2>1 DEF Press
  <2>3. WorkInv' /\ CardInv' /\ PassedInv' /\ RemovableInv'
    BY <1>2 DEF Press
  <2>4. OneCardPerPage' /\ NotifiedHasCard'
    BY <1>2 DEF Press
  <2> QED
    BY <2>2, <2>3, <2>4
<1>3. CASE Wake
  <2>1. TypeInv' /\ CardInv'
    BY <1>3 DEF Wake
  <2>2. PassedInv'
    <3>1. cursor' = 0 /\ \A p \in Pages : p \in Nat \ {0}
      BY <1>3, PagesAreNumbers DEF Wake
    <3>2. \A p \in Pages \ absent' : notion'[p] # 0
      BY <1>3 DEF Wake
    <3>3. ppc' = "fetch"
      BY <1>3 DEF Wake
    <3> QED
      BY <3>1, <3>2, <3>3
  <2>3. RemovableInv' /\ OneCardPerPage' /\ NotifiedHasCard'
    BY <1>3 DEF Wake
  <2> QED
    BY <2>1, <2>2, <2>3
<1>4. CASE Fetch
  <2>1. (notion \in [Pages -> {0} \cup Versions] /\ {edits, faults, crashes} \subseteq Nat)'
    BY <1>4 DEF Fetch, IsNext
  <2>2. TableTyped'
    BY <1>4 DEF Fetch, IsNext
  <2>3. PollerTyped'
    <3>1. PollerTyped /\ notion \in [Pages -> {0} \cup Versions]
      OBVIOUS
    <3> HIDE DEF IndInv
    <3> QED
      BY <3>1, <1>4 DEF Fetch, IsNext
  <2>4. ChatTyped'
    BY <1>4 DEF Fetch, IsNext
  <2>5. WorkInv'
    BY <1>4 DEF Fetch, IsNext
  <2>6. CardInv'
    BY <1>4 DEF Fetch, IsNext
  <2>7. PassedInv'
    <3> DEFINE rest == {p \in Matching : p > cursor}
    <3>1. PollerTyped /\ PassedInv /\ ppc = "fetch" /\ UNCHANGED notion
      BY <1>4 DEF Fetch
    <3>a. /\ cursor \in Nat
          /\ \A q \in Pages : q \in Nat
          /\ \A q \in Pages : q <= cursor => q \in todo \cup absent
          /\ \A q \in Pages \ absent : notion[q] # 0
      <4>1. Pages \subseteq Nat /\ cursor \in {0} \cup Pages
        BY <3>1, PagesAreNumbers
      <4>2. cursor \in Nat /\ \A q \in Pages : q \in Nat
        BY <4>1
      <4>3. \A q \in Pages :
               /\ q <= cursor => q \in todo \cup absent
               /\ q \notin absent => notion[q] # 0
        BY <3>1
      <4> QED
        BY <4>2, <4>3
    <3> HIDE DEF IndInv, TypeInv
    <3>2. CASE Abort
      BY <3>2
    <3>3. ASSUME NEW p \in rest, \A q \in rest : p <= q,
                 todo' = todo \cup {p}, absent' = absent,
                 \/ rest = {p} /\ ppc' = "list" /\ cursor' = 0
                 \/ ppc' = "fetch" /\ cursor' = p
          PROVE  PassedInv'
      <4>1. ASSUME NEW q \in Pages, q <= p PROVE q \in todo' \cup absent'
        <5>1. CASE q <= cursor
          BY <3>a, <3>3, <5>1
        <5>2. CASE q = p
          BY <3>3, <5>2
        <5>3. CASE q > cursor /\ q # p
          <6>1. q \notin rest
            BY <3>a, <3>3, <4>1, <5>3
          <6> QED
            BY <3>a, <3>3, <6>1, <5>3
        <5> QED
          BY <3>a, <5>1, <5>2, <5>3
      <4>2. ASSUME NEW q \in Pages, rest = {p} PROVE q \in todo' \cup absent'
        <5>1. CASE q > cursor
          BY <3>a, <3>3, <4>2, <5>1
        <5> QED
          BY <3>a, <3>3, <5>1
      <4>3. \A q \in Pages \ absent' : notion'[q] # 0
        BY <3>a, <3>1, <3>3
      <4>4. CASE rest = {p} /\ ppc' = "list" /\ cursor' = 0
        BY <4>2, <4>4
      <4>5. CASE ppc' = "fetch" /\ cursor' = p
        BY <4>1, <4>3, <4>5
      <4> QED
        BY <3>3, <4>4, <4>5
    <3>4. CASE rest = {} /\ PollTo("list") /\ cursor' = 0 /\ UNCHANGED <<todo, absent>>
      <4>1. Pages \subseteq todo' \cup absent'
        BY <3>a, <3>4
      <4> QED
        BY <3>4, <4>1
    <3> QED
      BY <1>4, <3>2, <3>3, <3>4 DEF Fetch, IsNext
  <2>8. RemovableInv'
    BY <1>4 DEF Fetch, IsNext
  <2>9. OneCardPerPage'
    BY <1>4 DEF Fetch, IsNext
  <2>10. NotifiedHasCard'
    BY <1>4 DEF Fetch, IsNext
  <2> QED
    BY <2>1, <2>2, <2>3, <2>4, <2>5, <2>6, <2>7, <2>8, <2>9, <2>10
<1>5. CASE ListBefore
  <2>1. (notion \in [Pages -> {0} \cup Versions] /\ {edits, faults, crashes} \subseteq Nat)'
    BY <1>5 DEF ListBefore, Missing, PendingNotified
  <2>2. TableTyped'
    BY <1>5 DEF ListBefore, Missing, PendingNotified
  <2>3. PollerTyped'
    <3>1. PollerTyped /\ TableTyped
      OBVIOUS
    <3> HIDE DEF IndInv
    <3> QED
      BY <3>1, <1>5 DEF ListBefore, Missing, PendingNotified
  <2>4. ChatTyped'
    BY <1>5 DEF ListBefore, Missing, PendingNotified
  <2>5. WorkInv'
    BY <1>5 DEF ListBefore, Missing, PendingNotified
  <2>6. CardInv'
    BY <1>5 DEF ListBefore, Missing, PendingNotified
  <2>7. PassedInv'
    BY <1>5 DEF ListBefore, Missing, PendingNotified
  <2>8. RemovableInv'
    BY <1>5 DEF ListBefore, Missing, PendingNotified
  <2>9. OneCardPerPage'
    BY <1>5 DEF ListBefore, Missing, PendingNotified
  <2>10. NotifiedHasCard'
    BY <1>5 DEF ListBefore, Missing, PendingNotified
  <2> QED
    BY <2>1, <2>2, <2>3, <2>4, <2>5, <2>6, <2>7, <2>8, <2>9, <2>10
<1>6. CASE Upsert
  <2>1. (notion \in [Pages -> {0} \cup Versions] /\ {edits, faults, crashes} \subseteq Nat)'
    BY <1>6 DEF Upsert, IsNext, NeedsCard
  <2>2. TableTyped'
    <3>1. TableTyped /\ PollerTyped
      OBVIOUS
    <3>2. \/ \E p \in Pages : /\ known' = known \cup {p}
                             /\ snapshot' = [snapshot EXCEPT ![p] = fetched[p]]
          \/ UNCHANGED <<known, snapshot>>
      BY <1>6 DEF Upsert, IsNext
    <3>3. UNCHANGED <<decision, notified>>
      BY <1>6 DEF Upsert
    <3> HIDE DEF IndInv
    <3> QED
      BY <3>1, <3>2, <3>3
  <2>3. PollerTyped'
    <3>1. PollerTyped
      OBVIOUS
    <3> HIDE DEF IndInv
    <3> QED
      BY <3>1, <1>6 DEF Upsert, IsNext, NeedsCard
  <2>4. ChatTyped'
    BY <1>6 DEF Upsert, IsNext, NeedsCard
  <2>5. WorkInv'
    BY <1>6 DEF Upsert, IsNext, NeedsCard
  <2>6. CardInv'
    BY <1>6 DEF Upsert, IsNext, NeedsCard
  <2>7. PassedInv'
    BY <1>6 DEF Upsert, IsNext, NeedsCard
  <2>8. RemovableInv'
    BY <1>6 DEF Upsert, IsNext, NeedsCard
  <2>9. OneCardPerPage'
    BY <1>6 DEF Upsert, IsNext, NeedsCard
  <2>10. NotifiedHasCard'
    BY <1>6 DEF Upsert, IsNext, NeedsCard
  <2> QED
    BY <2>1, <2>2, <2>3, <2>4, <2>5, <2>6, <2>7, <2>8, <2>9, <2>10
<1>7. CASE SendCard
  <2>1. (notion \in [Pages -> {0} \cup Versions] /\ {edits, faults, crashes} \subseteq Nat)'
    BY <1>7 DEF SendCard
  <2>2. TableTyped'
    BY <1>7 DEF SendCard
  <2>3. PollerTyped'
    BY <1>7 DEF SendCard
  <2>4. ChatTyped'
    <3>1. page \in Pages /\ cards \in [Pages -> Nat] /\ live \subseteq Pages
      BY <1>7 DEF SendCard
    <3>2. \/ cards' = [cards EXCEPT ![page] = @ + 1] /\ live' = live \cup {page}
          \/ UNCHANGED <<cards, live>>
      BY <1>7 DEF SendCard
    <3>3. UNCHANGED <<inbox, presses, hpc, hupd, started>>
      BY <1>7 DEF SendCard
    <3>4. cards' \in [Pages -> Nat] /\ live' \subseteq Pages
      <4> HIDE DEF IndInv
      <4> QED
        BY <3>1, <3>2
    <3> QED
      BY <3>3, <3>4
  <2>5. WorkInv'
    BY <1>7 DEF SendCard
  <2>6. CardInv'
    BY <1>7 DEF SendCard
  <2>7. PassedInv'
    BY <1>7 DEF SendCard
  <2>8. RemovableInv'
    BY <1>7 DEF SendCard
  <2>9. OneCardPerPage'
    BY <1>7 DEF SendCard
  <2>10. NotifiedHasCard'
    BY <1>7 DEF SendCard
  <2> QED
    BY <2>1, <2>2, <2>3, <2>4, <2>5, <2>6, <2>7, <2>8, <2>9, <2>10
<1>8. CASE MarkNotified
  <2>1. (notion \in [Pages -> {0} \cup Versions] /\ {edits, faults, crashes} \subseteq Nat)'
    BY <1>8 DEF MarkNotified
  <2>2. TableTyped'
    BY <1>8 DEF MarkNotified
  <2>3. PollerTyped'
    BY <1>8 DEF MarkNotified
  <2>4. ChatTyped'
    BY <1>8 DEF MarkNotified
  <2>5. WorkInv'
    BY <1>8 DEF MarkNotified
  <2>6. CardInv'
    BY <1>8 DEF MarkNotified
  <2>7. PassedInv'
    BY <1>8 DEF MarkNotified
  <2>8. RemovableInv'
    BY <1>8 DEF MarkNotified
  <2>9. OneCardPerPage'
    BY <1>8 DEF MarkNotified
  <2>10. NotifiedHasCard'
    BY <1>8 DEF MarkNotified
  <2> QED
    BY <2>1, <2>2, <2>3, <2>4, <2>5, <2>6, <2>7, <2>8, <2>9, <2>10
<1>9. CASE ReportRemoved
  <2>1. (notion \in [Pages -> {0} \cup Versions] /\ {edits, faults, crashes} \subseteq Nat)'
    BY <1>9 DEF ReportRemoved
  <2>2. TableTyped'
    BY <1>9 DEF ReportRemoved
  <2>3. PollerTyped'
    <3>1. PollerTyped
      OBVIOUS
    <3> HIDE DEF IndInv
    <3> QED
      BY <3>1, <1>9 DEF ReportRemoved
  <2>4. ChatTyped'
    BY <1>9 DEF ReportRemoved
  <2>5. WorkInv'
    BY <1>9 DEF ReportRemoved
  <2>6. CardInv'
    BY <1>9 DEF ReportRemoved
  <2>7. PassedInv'
    BY <1>9 DEF ReportRemoved
  <2>8. RemovableInv'
    BY <1>9 DEF ReportRemoved
  <2>9. OneCardPerPage'
    BY <1>9 DEF ReportRemoved
  <2>10. NotifiedHasCard'
    BY <1>9 DEF ReportRemoved
  <2> QED
    BY <2>1, <2>2, <2>3, <2>4, <2>5, <2>6, <2>7, <2>8, <2>9, <2>10
<1>10. CASE SetRemoved
  BY <1>10 DEF SetRemoved, Decisions
<1>11. ASSUME NEW h \in Handlers, NEW update \in inbox, Take(h, update) PROVE IndInv'
  BY <1>11 DEF Take
<1>12. ASSUME NEW h \in Handlers, Handle(h) PROVE IndInv'
  <2>1. CASE Decide(h)
    BY <2>1 DEF Decide, HandlerDone, DecisionOf, Decisions, UserDecisions, Buttons
  <2>2. CASE StartRun(h)
    BY <2>2 DEF StartRun, HandlerDone
  <2>3. CASE CloseCard(h)
    <3>1. TypeOK'
      <4>1. TableTyped' /\ PollerTyped'
        BY <2>3 DEF CloseCard
      <4>2. live' \subseteq Pages /\ UNCHANGED <<cards, inbox, presses, started>>
        BY <2>3 DEF CloseCard
      <4>3. /\ hpc' \in [Handlers -> {"idle", "decide", "start", "edit"}]
            /\ hupd' \in [Handlers -> (Pages \X Buttons) \cup {None}]
        BY <2>3 DEF CloseCard, HandlerDone
      <4>4. ChatTyped'
        BY <4>2, <4>3
      <4> QED
        BY <2>3, <4>1, <4>4 DEF CloseCard
    <3>2. WorkInv'
      BY <2>3 DEF CloseCard, HandlerDone
    <3>3. CardInv' /\ PassedInv' /\ RemovableInv' /\ OneCardPerPage' /\ NotifiedHasCard'
      BY <2>3 DEF CloseCard, HandlerDone
    <3> QED
      BY <3>1, <3>2, <3>3
  <2> QED
    BY <1>12, <2>1, <2>2, <2>3 DEF Handle
<1>13. CASE Crash
  BY <1>13 DEF Crash, InFlight
<1>14. CASE UNCHANGED vars
  BY <1>14 DEF vars
<1> QED
  BY <1>1, <1>2, <1>3, <1>4, <1>5, <1>6, <1>7, <1>8, <1>9, <1>10, <1>11, <1>12, <1>13, <1>14
     DEF Next, Poll

THEOREM Inductive == Spec => []IndInv
  BY InitInv, StepInv, PTL DEF Spec

\* Every variable keeps its type.
THEOREM TypeCorrect == Spec => []TypeOK
<1> IndInv => TypeOK
  BY DEF IndInv, TypeInv
<1> QED
  BY Inductive, PTL

\* No page gets a second card, whatever fails, crashes or disappears: only the
\* poll that creates the row sends one.
THEOREM OneCard == Spec => []OneCardPerPage
<1> IndInv => OneCardPerPage
  BY DEF IndInv
<1> QED
  BY Inductive, PTL

\* Only a page whose card was sent is marked as notified.
THEOREM NotifiedCards == Spec => []NotifiedHasCard
<1> IndInv => NotifiedHasCard
  BY DEF IndInv
<1> QED
  BY Inductive, PTL

\* Only SetRemoved writes REMOVED, for the page the poll is at work on, which
\* was absent in this poll and undecided when the poll read the table.
LEMMA OnlyPollRemoves ==
    ASSUME IndInv, [Next]_vars, NEW p \in Pages, decision[p] # "removed",
           decision'[p] = "removed"
    PROVE  p \in absent \cap open
<1> USE DEF Fault, NoFault
<1>1. \/ UNCHANGED decision
      \/ SetRemoved
      \/ \E h \in Handlers : Decide(h)
  BY DEF Next, Poll, Handle, vars, Edit, Press, Wake, Fetch, ListBefore, Upsert, SendCard,
     MarkNotified, ReportRemoved, Take, StartRun, CloseCard, Crash
<1>2. CASE UNCHANGED decision
  BY <1>2
<1>3. CASE SetRemoved
  <2>1. ppc = "remove" /\ page \in absent \cap open
    BY <1>3 DEF SetRemoved, IndInv, RemovableInv
  <2>2. p = page
    BY <1>3 DEF SetRemoved, IndInv, TypeInv, TypeOK, TableTyped
  <2> QED
    BY <2>1, <2>2
<1>4. ASSUME NEW h \in Handlers, Decide(h) PROVE FALSE
  <2>1. hupd[h] \in Pages \X Buttons
    BY <1>4 DEF Decide, IndInv, TypeInv, WorkInv
  <2>2. DecisionOf(hupd[h][2]) # "removed"
    BY <2>1 DEF Buttons, DecisionOf
  <2> QED
    BY <1>4, <2>1, <2>2 DEF Decide, IndInv, TypeInv, TypeOK, TableTyped
<1> QED
  BY <1>1, <1>2, <1>3, <1>4

\* A task is removed only if its page was absent during that poll.
THEOREM RemovedWereAbsent == Spec => RemovedWasAbsent
<1>1. IndInv /\ [Next]_vars =>
        [\A p \in Pages : decision[p] # "removed" /\ decision'[p] = "removed" => p \in absent]_vars
  BY OnlyPollRemoves
<1> QED
  BY <1>1, Inductive, PTL DEF Spec, RemovedWasAbsent

\* A decision made before the poll read the table is not replaced by REMOVED.
THEOREM DecidedAreSpared == Spec => RemovalSparesDecided
<1>1. IndInv /\ [Next]_vars =>
        [\A p \in Pages :
            decision[p] \in UserDecisions /\ decision'[p] = "removed" => p \in open]_vars
  BY OnlyPollRemoves DEF UserDecisions
<1> QED
  BY <1>1, Inductive, PTL DEF Spec, RemovalSparesDecided

-----------------------------------------------------------------------------
(* Accepted tasks *)

\* A handler that closes the card of an accepted task has started the run.
StartedInv == \A h \in Handlers :
                 hpc[h] = "edit" /\ hupd[h][2] = "accept" => started[hupd[h][1]] > 0

LEMMA StartedStep ==
    ASSUME IndInv, StartedInv, [Next]_vars
    PROVE  /\ StartedInv'
           /\ \A h \in Handlers :
                 /\ hpc[h] # "idle" /\ hpc'[h] = "idle" /\ hupd[h][2] = "accept"
                 /\ faults' = faults /\ crashes' = crashes
                 => started[hupd[h][1]] > 0
<1> USE DEF IndInv, TypeInv, TypeOK, ChatTyped, StartedInv, Fault, NoFault, HandlerDone
<1> DEFINE Kept == \A h \in Handlers :
                      /\ hpc[h] # "idle" /\ hpc'[h] = "idle" /\ hupd[h][2] = "accept"
                      /\ faults' = faults /\ crashes' = crashes
                      => started[hupd[h][1]] > 0
<1>1. ASSUME UNCHANGED handlers PROVE StartedInv' /\ Kept
  BY <1>1
<1>2. ASSUME NEW h \in Handlers, NEW update \in inbox, Take(h, update)
      PROVE  UNCHANGED started /\ hpc'[h] = "decide"
             /\ \A g \in Handlers \ {h} : hpc'[g] = hpc[g] /\ hupd'[g] = hupd[g]
  BY <1>2 DEF Take
<1>3. ASSUME NEW h \in Handlers, Decide(h)
      PROVE  /\ UNCHANGED started /\ hpc[h] # "edit"
             /\ hpc'[h] = "idle" => faults' # faults
             /\ hpc'[h] = "edit" => hupd'[h][2] # "accept"
             /\ \A g \in Handlers \ {h} : hpc'[g] = hpc[g] /\ hupd'[g] = hupd[g]
  BY <1>3 DEF Decide
<1>4. ASSUME NEW h \in Handlers, StartRun(h)
      PROVE  /\ \A p \in Pages : started'[p] >= started[p]
             /\ hpc'[h] = "idle" => faults' # faults
             /\ hpc'[h] = "edit" => hupd'[h] = hupd[h] /\ started'[hupd[h][1]] > 0
             /\ \A g \in Handlers \ {h} : hpc'[g] = hpc[g] /\ hupd'[g] = hupd[g]
  <2>1. hupd[h][1] \in Pages
    BY <1>4 DEF StartRun, WorkInv
  <2> QED
    BY <1>4, <2>1 DEF StartRun
<1>5. ASSUME NEW h \in Handlers, CloseCard(h)
      PROVE  /\ UNCHANGED started /\ hpc[h] = "edit" /\ hpc'[h] = "idle"
             /\ \A g \in Handlers \ {h} : hpc'[g] = hpc[g] /\ hupd'[g] = hupd[g]
  BY <1>5 DEF CloseCard
<1>6. ASSUME Crash PROVE StartedInv' /\ Kept
  BY <1>6 DEF Crash
<1>7. \A h \in Handlers : hpc[h] # "idle" => hupd[h][1] \in Pages
  BY DEF WorkInv
<1>8. \/ UNCHANGED handlers
      \/ \E h \in Handlers : \/ \E update \in inbox : Take(h, update)
                             \/ Handle(h)
      \/ Crash
  BY DEF Next, Poll, vars, Edit, Press, Wake, Fetch, ListBefore, Upsert, SendCard,
     MarkNotified, ReportRemoved, SetRemoved
<1> HIDE DEF Fault, NoFault, HandlerDone
<1>9. ASSUME NEW h \in Handlers,
             (\E update \in inbox : Take(h, update)) \/ Decide(h) \/ CloseCard(h)
      PROVE  StartedInv' /\ Kept
  BY <1>9, <1>2, <1>3, <1>5
<1>10. ASSUME NEW h \in Handlers, StartRun(h) PROVE StartedInv' /\ Kept
  <2>1. Kept
    BY <1>10, <1>4
  <2>2. ASSUME NEW g \in Handlers, hpc'[g] = "edit", hupd'[g][2] = "accept"
        PROVE  started'[hupd'[g][1]] > 0
    <3>1. CASE g = h
      BY <1>10, <1>4, <2>2, <3>1
    <3>2. CASE g # h
      <4>1. started[hupd[g][1]] > 0 /\ hupd[g][1] \in Pages
        BY <1>10, <1>4, <1>7, <2>2, <3>2
      <4>2. started'[hupd[g][1]] >= started[hupd[g][1]]
        BY <1>10, <1>4, <4>1
      <4>3. started' \in [Pages -> Nat] /\ started \in [Pages -> Nat]
        BY <1>10 DEF StartRun
      <4> QED
        BY <1>10, <1>4, <3>2, <4>1, <4>2, <4>3
    <3> QED
      BY <3>1, <3>2
  <2> QED
    BY <2>1, <2>2
<1>11. CASE \E h \in Handlers : (\E update \in inbox : Take(h, update)) \/ Handle(h)
  <2>1. PICK h \in Handlers : (\E update \in inbox : Take(h, update)) \/ Handle(h)
    BY <1>11
  <2>2. (\E update \in inbox : Take(h, update)) \/ Decide(h) \/ CloseCard(h) \/ StartRun(h)
    BY <2>1 DEF Handle
  <2>3. CASE StartRun(h)
    BY <1>10, <2>3
  <2>4. CASE (\E update \in inbox : Take(h, update)) \/ Decide(h) \/ CloseCard(h)
    BY <1>9, <2>4
  <2> QED
    BY <2>2, <2>3, <2>4
<1> QED
  BY <1>1, <1>6, <1>8, <1>11

\* An accept that is handled without a failure has started a run, whatever was
\* decided about the task before (TaskDecisionService.accept).
THEOREM AcceptedAreStarted == Spec => AcceptStarts
<1>1. Init => StartedInv
  BY DEF Init, StartedInv
<1>2. IndInv /\ StartedInv /\ [Next]_vars =>
        /\ StartedInv'
        /\ [\A h \in Handlers :
              /\ hpc[h] # "idle" /\ hpc'[h] = "idle" /\ hupd[h][2] = "accept"
              /\ faults' = faults /\ crashes' = crashes
              => started[hupd[h][1]] > 0]_vars
  BY StartedStep
<1> QED
  BY <1>1, <1>2, Inductive, PTL DEF Spec, AcceptStarts
=============================================================================
