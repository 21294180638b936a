----------------------------- MODULE TaskIntake -----------------------------
(***************************************************************************)
(* Discovery and opt-in: the poller fetches the pages matching the filter, *)
(* TaskIntakeService compares them with the tasks table and writes to the  *)
(* chat, and the callbacks of the task cards write the user's decisions to *)
(* the same rows.  Notion is edited at any moment, also between the pages  *)
(* of one query; poller and callbacks interleave at every await.           *)
(*                                                                         *)
(* A Notion page is a number; its content is a version, 0 when the page    *)
(* does not match the filter (deleted, reassigned, moved to another        *)
(* status).                                                                *)
(***************************************************************************)
EXTENDS Naturals

CONSTANTS Pages,        \* page ids, in the order the query returns them
          Versions,     \* contents of a matching page that differ in _diff
          Handlers,     \* callback updates handled concurrently
          MaxEdits,     \* bound: edits of pages in Notion
          MaxPresses,   \* bound: presses of card buttons
          MaxFaults,    \* bound: failing calls to Notion, Telegram or the database
          MaxCrashes,   \* bound: process kills
          None

ASSUME PagesAreNumbers == Pages \subseteq Nat \ {0}
ASSUME VersionsAreNumbers == Versions \subseteq Nat \ {0}
ASSUME NoneIsFresh == None \notin Pages \cup Nat
ASSUME BoundsAssumption == {MaxEdits, MaxPresses, MaxFaults, MaxCrashes} \subseteq Nat

VARIABLES
    notion,     \* the version of each page, 0 if it does not match
    \* tasks table: rows there are, content they hold, decision, notified_at set
    known, snapshot, decision, notified,
    \* the poller: place, last page fetched, fetched versions, pages to upsert,
    \* before_ids - current_ids, page at work
    ppc, cursor, fetched, todo, missing, page,
    \* Telegram: cards sent per page, cards with buttons, updates, presses
    cards, live, inbox, presses,
    \* callback handlers: place, update; start() calls per page
    hpc, hupd, started,
    \* environment
    edits, faults, crashes,
    \* history: pages that did not match at some moment of the current poll,
    \* and pages undecided when the poll read before_ids
    absent, open

table    == <<known, snapshot, decision, notified>>
poller   == <<ppc, cursor, fetched, todo, missing, page>>
chat     == <<cards, live, inbox, presses>>
handlers == <<hpc, hupd, started>>
env      == <<edits, faults, crashes>>
history  == <<absent, open>>

vars == <<notion, table, poller, chat, handlers, env, history>>

-----------------------------------------------------------------------------
Buttons   == {"accept", "skip", "defer"}
UserDecisions   == {"accepted", "skipped", "deferred"}
Decisions == {"pending", "removed"} \cup UserDecisions

\* Variant: the callback's word is stored as it is.
DecisionOfRaw(button) == button

\* The TaskDecision each button stands for.
DecisionOf(button) == CASE button = "accept" -> "accepted"
                        [] button = "skip"   -> "skipped"
                        [] button = "defer"  -> "deferred"

\* p is the next of ps in the order the query returns them.
IsNext(p, ps) == p \in ps /\ \A q \in ps : p <= q

Matching == {p \in Pages : notion[p] # 0}

\* A call to another service fails.
Fault == /\ faults < MaxFaults
         /\ faults' = faults + 1
         /\ UNCHANGED <<edits, crashes>>

NoFault == UNCHANGED env

PollTo(place) == ppc' = place

\* A poll is over, completed or raised out of: its local variables are gone.
EndPoll == /\ PollTo("sleep")
           /\ cursor' = 0
           /\ fetched' = [p \in Pages |-> 0]
           /\ todo' = {}
           /\ missing' = {}
           /\ page' = None
           /\ absent' = {}
           /\ open' = {}

Init == /\ notion \in [Pages -> {0} \cup Versions]
        /\ known = {}
        /\ snapshot = [p \in Pages |-> 0]
        /\ decision = [p \in Pages |-> "pending"]
        /\ notified = {}
        /\ ppc = "sleep"
        /\ cursor = 0
        /\ fetched = [p \in Pages |-> 0]
        /\ todo = {}
        /\ missing = {}
        /\ page = None
        /\ cards = [p \in Pages |-> 0]
        /\ live = {}
        /\ inbox = {}
        /\ presses = 0
        /\ hpc = [h \in Handlers |-> "idle"]
        /\ hupd = [h \in Handlers |-> None]
        /\ started = [p \in Pages |-> 0]
        /\ edits = 0
        /\ faults = 0
        /\ crashes = 0
        /\ absent = {}
        /\ open = {}

-----------------------------------------------------------------------------
(* Notion *)

Edit(p, v) == /\ edits < MaxEdits
              /\ notion[p] # v
              /\ notion' = [notion EXCEPT ![p] = v]
              /\ edits' = edits + 1
              /\ absent' = IF v = 0 /\ ppc # "sleep" THEN absent \cup {p} ELSE absent
              /\ UNCHANGED <<faults, crashes, open, table, poller, chat, handlers>>

-----------------------------------------------------------------------------
(* The poller: NotionPollerInterface.start and process_poll_result *)

\* The interval is over: a new fetch.
Wake == /\ ppc = "sleep"
        /\ PollTo("fetch")
        /\ absent' = Pages \ Matching
        /\ UNCHANGED <<notion, table, cursor, fetched, todo, missing, page, chat,
                       handlers, env, open>>

\* An exception that no inner try block takes: the poller logs it and sleeps.
Abort == Fault /\ EndPoll

\* Variant: only the first page of the query is read.
FetchFirst ==
    /\ ppc = "fetch"
    /\ \/ \E p \in Matching : /\ IsNext(p, Matching)
                             /\ fetched' = [fetched EXCEPT ![p] = notion[p]]
                             /\ todo' = {p}
       \/ Matching = {} /\ UNCHANGED <<fetched, todo>>
    /\ PollTo("list")
    /\ NoFault
    /\ UNCHANGED <<cursor, missing, page, history, notion, table, chat, handlers>>

\* Variant: a query that fails ends the fetch with the pages read so far.
FetchPartial ==
    LET rest == {p \in Matching : p > cursor}
    IN  /\ ppc = "fetch"
        /\ \/ /\ \E p \in rest :
                     /\ IsNext(p, rest)
                     /\ fetched' = [fetched EXCEPT ![p] = notion[p]]
                     /\ todo' = todo \cup {p}
                     /\ PollTo(IF rest = {p} THEN "list" ELSE "fetch")
                     /\ cursor' = p
              /\ NoFault
           \/ /\ PollTo("list")
              /\ (rest = {} /\ NoFault) \/ Fault
              /\ UNCHANGED <<cursor, fetched, todo>>
        /\ UNCHANGED <<missing, page, history, notion, table, chat, handlers>>

\* One query of fetch_tasks: the next page after the cursor, and has_more.
Fetch ==
    LET rest == {p \in Matching : p > cursor}
    IN  /\ ppc = "fetch"
        /\ \/ /\ \E p \in rest :
                     /\ IsNext(p, rest)
                     /\ fetched' = [fetched EXCEPT ![p] = notion[p]]
                     /\ todo' = todo \cup {p}
                     /\ IF rest = {p} THEN PollTo("list") /\ cursor' = 0
                                      ELSE PollTo("fetch") /\ cursor' = p
              /\ NoFault
              /\ UNCHANGED <<missing, page, history>>
           \/ /\ rest = {}
              /\ PollTo("list")
              /\ cursor' = 0
              /\ NoFault
              /\ UNCHANGED <<fetched, todo, missing, page, history>>
           \/ Abort
        /\ UNCHANGED <<notion, table, chat, handlers>>

\* Variant: the decision is not looked at.
AllNotified == known \cap notified

\* before_ids = list_pending_notified_page_ids().
PendingNotified == {p \in known \cap notified : decision[p] = "pending"}

\* Variant: compared with the table instead of with what was fetched.
MissingRows == PendingNotified \ known

\* before_ids - current_ids.
Missing == PendingNotified \ todo

ListBefore ==
    /\ ppc = "list"
    /\ \/ /\ missing' = Missing
          /\ open' = {p \in Pages : decision[p] = "pending"}
          /\ PollTo("upsert")
          /\ NoFault
          /\ UNCHANGED <<cursor, fetched, todo, page, absent>>
       \/ Abort
    /\ UNCHANGED <<notion, table, chat, handlers>>

\* Variant: a card is sent until one was recorded.
NeedsCardAgain(p) == p \notin notified /\ decision[p] = "pending"

\* previous is None: a row created now, whose decision and notified_at are new.
NeedsCard(p) == p \notin known

\* Variant: an existing row is not saved.
UpsertInserting ==
    /\ ppc = "upsert"
    /\ \/ \E p \in todo :
             /\ IsNext(p, todo)
             /\ known' = known \cup {p}
             /\ snapshot' = [snapshot EXCEPT ![p] = IF p \in known THEN @ ELSE fetched[p]]
             /\ todo' = todo \ {p}
             /\ fetched' = [fetched EXCEPT ![p] = 0]
             /\ IF NeedsCard(p) THEN PollTo("card") /\ page' = p
                                ELSE PollTo("upsert") /\ UNCHANGED page
       \/ /\ todo = {}
          /\ PollTo("removed")
          /\ UNCHANGED <<known, snapshot, fetched, todo, page>>
    /\ NoFault
    /\ UNCHANGED <<cursor, missing, history, notion, decision, notified, chat, handlers>>

\* upsert_from_notion for the next dto.  A row that was created, and only that,
\* leads to a card; for others a change message is sent, best effort.  When
\* all are done, the missing ones are next.
Upsert ==
    /\ ppc = "upsert"
    /\ \/ /\ \E p \in todo :
                /\ IsNext(p, todo)
                /\ known' = known \cup {p}
                /\ snapshot' = [snapshot EXCEPT ![p] = fetched[p]]
                /\ todo' = todo \ {p}
                /\ fetched' = [fetched EXCEPT ![p] = 0]
                /\ IF NeedsCard(p) THEN PollTo("card") /\ page' = p
                                   ELSE PollTo("upsert") /\ UNCHANGED page
          /\ NoFault
          /\ UNCHANGED <<cursor, missing, history>>
       \/ /\ todo = {}
          /\ PollTo("removed")
          /\ NoFault
          /\ UNCHANGED <<known, snapshot, cursor, fetched, todo, missing, page,
                         history>>
       \/ /\ todo # {}
          /\ Abort
          /\ UNCHANGED <<known, snapshot>>
    /\ UNCHANGED <<notion, decision, notified, chat, handlers>>

\* Variant: the page is marked whether or not the card was sent.
SendCardMarking ==
    /\ ppc = "card"
    /\ \/ /\ cards' = [cards EXCEPT ![page] = @ + 1]
          /\ live' = live \cup {page}
          /\ NoFault
       \/ Fault /\ UNCHANGED <<cards, live>>
    /\ PollTo("mark")
    /\ UNCHANGED <<notion, table, cursor, fetched, todo, missing, page, inbox, presses,
                   handlers, history>>

\* send_new_task_card; a failure is logged, whether the card arrived or not.
SendCard ==
    /\ ppc = "card"
    /\ \/ /\ cards' = [cards EXCEPT ![page] = @ + 1]
          /\ live' = live \cup {page}
          /\ \/ PollTo("mark") /\ NoFault /\ UNCHANGED page
             \/ PollTo("upsert") /\ Fault /\ page' = None
       \/ /\ PollTo("upsert")
          /\ page' = None
          /\ Fault
          /\ UNCHANGED <<cards, live>>
    /\ UNCHANGED <<notion, table, cursor, fetched, todo, missing, inbox, presses,
                   handlers, history>>

\* mark_notified, in the same try.
MarkNotified ==
    /\ ppc = "mark"
    /\ \/ notified' = notified \cup {page} /\ NoFault
       \/ Fault /\ UNCHANGED notified
    /\ PollTo("upsert")
    /\ page' = None
    /\ UNCHANGED <<notion, known, snapshot, decision, cursor, fetched, todo, missing,
                   chat, handlers, history>>

\* _handle_removed: the row is read, which may raise, and send_task_removed is
\* called for a page, which may fail for this page only ...
ReportRemoved ==
    /\ ppc = "removed"
    /\ \/ \E p \in missing :
             /\ missing' = missing \ {p}
             /\ \/ PollTo("remove") /\ page' = p /\ NoFault
                \/ Fault /\ UNCHANGED <<ppc, page>>
             /\ UNCHANGED <<cursor, fetched, todo, history>>
       \/ missing # {} /\ Abort
       \/ missing = {} /\ EndPoll /\ NoFault
    /\ UNCHANGED <<notion, table, chat, handlers>>

\* ... and only after the message, REMOVED is written, whatever the decision is
\* by then.  A failure leaves the page to the next poll.
SetRemoved ==
    /\ ppc = "remove"
    /\ \/ decision' = [decision EXCEPT ![page] = "removed"] /\ NoFault
       \/ Fault /\ UNCHANGED decision
    /\ PollTo("removed")
    /\ page' = None
    /\ UNCHANGED <<notion, known, snapshot, notified, cursor, fetched, todo, missing,
                   chat, handlers, history>>

-----------------------------------------------------------------------------
(* The task cards: on_decision and TaskDecisionService *)

Press(p, button) == /\ p \in live
                    /\ presses < MaxPresses
                    /\ presses' = presses + 1
                    /\ inbox' = inbox \cup {<<p, button>>}
                    /\ UNCHANGED <<notion, table, poller, cards, live, handlers, env,
                                   history>>

\* A handler returns or raises.
HandlerDone(h) == /\ hpc' = [hpc EXCEPT ![h] = "idle"]
                  /\ hupd' = [hupd EXCEPT ![h] = None]

\* The bot begins to handle an update.
Take(h, update) == /\ hpc[h] = "idle"
                   /\ update \in inbox
                   /\ inbox' = inbox \ {update}
                   /\ hpc' = [hpc EXCEPT ![h] = "decide"]
                   /\ hupd' = [hupd EXCEPT ![h] = update]
                   /\ UNCHANGED <<started, notion, table, poller, cards, live, presses,
                                  env, history>>

\* Variant: only the first decision counts.
DecideOnce(h) ==
    /\ hpc[h] = "decide"
    /\ IF decision[hupd[h][1]] = "pending"
       THEN /\ decision' = [decision EXCEPT ![hupd[h][1]] = DecisionOf(hupd[h][2])]
            /\ hpc' = [hpc EXCEPT ![h] = IF hupd[h][2] = "accept" THEN "start" ELSE "edit"]
            /\ UNCHANGED hupd
       ELSE HandlerDone(h) /\ UNCHANGED decision
    /\ NoFault
    /\ UNCHANGED <<started, notion, known, snapshot, notified, poller, chat, history>>

\* accept, skip and defer write the decision without looking at the old one.
Decide(h) ==
    /\ hpc[h] = "decide"
    /\ \/ /\ decision' = [decision EXCEPT ![hupd[h][1]] = DecisionOf(hupd[h][2])]
          /\ hpc' = [hpc EXCEPT ![h] = IF hupd[h][2] = "accept" THEN "start" ELSE "edit"]
          /\ NoFault
          /\ UNCHANGED hupd
       \/ /\ Fault
          /\ HandlerDone(h)
          /\ UNCHANGED decision
    /\ UNCHANGED <<started, notion, known, snapshot, notified, poller, chat, history>>

\* accept reads the task again and starts its execution.
StartRun(h) ==
    /\ hpc[h] = "start"
    /\ \/ /\ started' = [started EXCEPT ![hupd[h][1]] = @ + 1]
          /\ hpc' = [hpc EXCEPT ![h] = "edit"]
          /\ NoFault
          /\ UNCHANGED hupd
       \/ /\ Fault
          /\ HandlerDone(h)
          /\ UNCHANGED started
    /\ UNCHANGED <<notion, table, poller, chat, history>>

\* Only now the card loses its buttons, if answer and edit_text succeed.
CloseCard(h) ==
    /\ hpc[h] = "edit"
    /\ \/ live' = live \ {hupd[h][1]} /\ NoFault
       \/ Fault /\ UNCHANGED live
    /\ HandlerDone(h)
    /\ UNCHANGED <<started, notion, table, poller, cards, inbox, presses, history>>

-----------------------------------------------------------------------------
(* The process: poller and handlers are gone, updates at work may come again *)

InFlight == {hupd[h] : h \in {g \in Handlers : hpc[g] # "idle"}}

Crash == /\ crashes < MaxCrashes
         /\ crashes' = crashes + 1
         /\ EndPoll
         /\ hpc' = [h \in Handlers |-> "idle"]
         /\ hupd' = [h \in Handlers |-> None]
         /\ \E again \in SUBSET InFlight : inbox' = inbox \cup again
         /\ UNCHANGED <<notion, table, cards, live, presses, started, edits, faults>>

Poll == \/ Wake
        \/ Fetch
        \/ ListBefore
        \/ Upsert
        \/ SendCard
        \/ MarkNotified
        \/ ReportRemoved
        \/ SetRemoved

Handle(h) == \/ Decide(h)
             \/ StartRun(h)
             \/ CloseCard(h)

Next == \/ \E p \in Pages : \/ \E v \in {0} \cup Versions : Edit(p, v)
                            \/ \E button \in Buttons : Press(p, button)
        \/ Poll
        \/ \E h \in Handlers : \/ \E update \in inbox : Take(h, update)
                               \/ Handle(h)
        \/ Crash

Spec == Init /\ [][Next]_vars

\* The poller loops until the process stops, calls return or raise within their
\* timeouts, and a callback that began goes on.  Faults are finitely many.
Fairness == /\ WF_vars(Poll)
            /\ \A h \in Handlers : WF_vars(Handle(h))
            /\ WF_vars(\E h \in Handlers : \E update \in inbox : Take(h, update))

FairSpec == Spec /\ Fairness

-----------------------------------------------------------------------------
(* Safety *)

TableTyped == /\ known \subseteq Pages
              /\ snapshot \in [Pages -> {0} \cup Versions]
              /\ decision \in [Pages -> Decisions]
              /\ notified \subseteq Pages

PollerTyped == /\ ppc \in {"sleep", "fetch", "list", "upsert", "card", "mark", "removed",
                           "remove"}
               /\ cursor \in {0} \cup Pages
               /\ fetched \in [Pages -> {0} \cup Versions]
               /\ todo \subseteq Pages
               /\ missing \subseteq Pages
               /\ page \in Pages \cup {None}
               /\ absent \subseteq Pages
               /\ open \subseteq Pages

ChatTyped == /\ cards \in [Pages -> Nat]
             /\ live \subseteq Pages
             /\ inbox \subseteq Pages \X Buttons
             /\ presses \in Nat
             /\ hpc \in [Handlers -> {"idle", "decide", "start", "edit"}]
             /\ hupd \in [Handlers -> (Pages \X Buttons) \cup {None}]
             /\ started \in [Pages -> Nat]

\* Every variable keeps its type.
TypeOK == /\ notion \in [Pages -> {0} \cup Versions]
          /\ TableTyped
          /\ PollerTyped
          /\ ChatTyped
          /\ {edits, faults, crashes} \subseteq Nat

\* A page gets at most one card over all polls, failed sends, crashes between
\* send and mark_notified, and disappearances from Notion.
OneCardPerPage == \A p \in Pages : cards[p] <= 1

\* notified_at, which makes a page eligible for removal, is only ever set on a
\* page whose card reached the chat.
NotifiedHasCard == \A p \in notified : cards[p] > 0

\* A task is reported as removed only if its page really did not match at some
\* moment of that poll: a failed or partial fetch never removes a task.
RemovedWasAbsent == [][\A p \in Pages :
                          decision[p] # "removed" /\ decision'[p] = "removed" => p \in absent]_vars

\* A poll never takes back a decision that the user had made when the poll
\* looked at the table.  (One made later, it may: see SetRemoved.)
RemovalSparesDecided == [][\A p \in Pages :
                              decision[p] \in UserDecisions /\ decision'[p] = "removed" => p \in open]_vars

\* An accept that was taken up starts a run, whatever was decided before and is
\* decided meanwhile, unless a call fails or the process dies.
AcceptStarts == [][\A h \in Handlers :
                      /\ hpc[h] # "idle" /\ hpc'[h] = "idle" /\ hupd[h][2] = "accept"
                      /\ faults' = faults /\ crashes' = crashes
                      => started[hupd[h][1]] > 0]_vars

(* Liveness *)

\* A page that keeps matching is offered to the user, on whatever page of the
\* query it is found, unless a call failed or the process died.
OfferedUnlessCallFails == \A p \in Pages :
    (notion[p] # 0) ~> (cards[p] > 0 \/ notion[p] = 0 \/ faults > 0 \/ crashes > 0)

\* A card whose page is gone is settled: the failed attempts of a poll are
\* repeated by the next one.
RemovalIsRecorded == \A p \in Pages :
    (p \in notified /\ notion[p] = 0) ~> (decision[p] # "pending" \/ notion[p] # 0)

\* The row catches up with every edit of a page that keeps matching.
SnapshotCatchesUp == \A p \in Pages, v \in Versions :
    (notion[p] = v) ~> (snapshot[p] = v \/ notion[p] # v)


(* A promise of the repository the code does not keep *)

\* Every page that matches and is new is offered to the user.
NewTaskIsOffered == \A p \in Pages : (notion[p] # 0) ~> (cards[p] > 0 \/ notion[p] = 0)
=============================================================================
