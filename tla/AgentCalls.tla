------------------------------ MODULE AgentCalls ------------------------------
(***************************************************************************)
(* How a job judges its work: the two calls of the Claude CLI (coder and   *)
(* reviewer), the quality gates between them, and what _execute concludes  *)
(* from each.  TaskExecution takes these conclusions as outcomes; here     *)
(* they are computed from what the subprocesses do.                        *)
(*                                                                         *)
(* A line of the CLI's stream is the kind of event it parses to, and the   *)
(* reviewer's final message a sequence of tokens.                          *)
(***************************************************************************)
EXTENDS Naturals, Sequences, FiniteSetsExt

CONSTANTS NGates,       \* number of quality gates, run in order
          MaxLines,     \* bound: lines a CLI prints
          MaxTokens     \* bound: tokens of a reviewer's message

ASSUME SizesAssumption == {NGates, MaxLines, MaxTokens} \subseteq Nat

VARIABLES broken,       \* gates that the coder's work does not pass
          phase,        \* what the job waits for, or how it ended
          stdout,       \* lines printed by the running CLI
          exit,         \* how that CLI ended
          outcomes,     \* results of the gates that ran
          message,      \* final_message of the reviewer
          cause,        \* what was raised, with its details:
          resets,       \* resets_at, as the line that told it, 0 for None
          named         \* failures, as numbers of gates

vars == <<broken, phase, stdout, exit, outcomes, message, cause, resets, named>>

-----------------------------------------------------------------------------
(* The stream of the CLI: _parse_events and _run_blocking *)

\* "other" is an event of another type, or a line json.loads refuses, which is
\* skipped; "scalar" a line that is JSON but no object, on which event.get
\* raises.
Lines == {"other", "scalar", "success", "failure", "allowed", "blocked"}
Exits == {"running", "zero", "nonzero", "timeout"}

\* Position of the last line of one of these kinds, 0 without one.
LastLine(kinds) == Max({0} \cup {i \in DOMAIN stdout : stdout[i] \in kinds})

Unparsable == "scalar" \in {stdout[i] : i \in DOMAIN stdout}

ResultIs(kind) == LET i == LastLine({"success", "failure"})
                  IN  i # 0 /\ stdout[i] = kind

\* Variant: a limit that was lifted later still counts.
BlockedOnce == \E i \in DOMAIN stdout : stdout[i] = "blocked"

\* The last rate-limit event is not "allowed".
Blocking == LET i == LastLine({"allowed", "blocked"})
            IN  i # 0 /\ stdout[i] = "blocked"

\* Variant: the exit code is not looked at.
SucceededSaying == exit # "timeout" /\ ResultIs("success")

\* ClaudeRunResult.success and .rate_limited.
Succeeded   == exit = "zero" /\ ResultIs("success")
RateLimited == Blocking /\ (exit = "timeout" \/ ~ResultIs("success"))

-----------------------------------------------------------------------------
(* The reviewer's message: _extract_last_json and _parse_verdict *)

\* "open" and "close" are the braces of objects, "quotedOpen" and "quotedClose"
\* braces in a JSON string, "prose" any text that is not JSON, "comment" a verdict
\* other than approve.
Tokens == {"open", "close", "quotedOpen", "quotedClose", "approve", "comment", "prose"}

\* What opens and closes an object: the regular expression takes the braces in
\* strings for braces, JSON does not.
RegexBraces == [open |-> {"open", "quotedOpen"}, close |-> {"close", "quotedClose"}]
JsonBraces  == [open |-> {"open"}, close |-> {"close"}]

Count(m, from, to, kinds) == Cardinality({i \in from .. to : m[i] \in kinds})

\* How many objects are open after m[to], if the first opens at m[from].
Nesting(m, from, to, braces) == Count(m, from, to, braces.open) - Count(m, from, to, braces.close)

\* m[from..to] is closed by its last token and not before.
Balanced(m, from, to, braces) ==
    /\ m[from] \in braces.open
    /\ \A i \in from .. to : /\ Nesting(m, from, i, braces) >= 0
                             /\ (Nesting(m, from, i, braces) = 0) <=> (i = to)

\* Variant: no object is expected in the object.
MatchesFlat(m, from, to) ==
    /\ Balanced(m, from, to, RegexBraces)
    /\ \A i \in from .. to : Nesting(m, from, i, RegexBraces) <= 1

\* _JSON_OBJECT_RE matches m[from..to]: balanced and at most two deep.
Matches(m, from, to) == /\ Balanced(m, from, to, RegexBraces)
                        /\ \A i \in from .. to : Nesting(m, from, i, RegexBraces) <= 2

\* findall scans from the left, and goes on behind a match: what it finds from
\* each token on.
Scan(m) ==
    LET from[i \in 1 .. Len(m) + 1] ==
            LET ends == {e \in i .. Len(m) : Matches(m, i, e)}
            IN  IF i > Len(m) THEN <<>>
                ELSE IF ends = {} THEN from[i + 1]
                ELSE <<SubSeq(m, i, Min(ends))>> \o from[Min(ends) + 1]
    IN  from

FindAll(m) == Scan(m)[1]

\* Variant: the first match is taken.
FirstJson(m) == IF FindAll(m) = <<>> THEN <<>> ELSE Head(FindAll(m))

\* <<>> stands for None.
LastJson(m) == LET matches == FindAll(m)
               IN  IF matches = <<>> THEN <<>> ELSE matches[Len(matches)]

\* What json.loads takes for an object, and its "verdict": the last of a
\* repeated key, and none in a nested object.
IsObject(m) == /\ m # <<>>
               /\ Balanced(m, 1, Len(m), JsonBraces)
               /\ \A i \in DOMAIN m : m[i] # "prose"

VerdictIn(object) ==
    LET at == Max({0} \cup {i \in DOMAIN object :
                               /\ object[i] \in {"approve", "comment"}
                               /\ Nesting(object, 1, i, JsonBraces) = 1})
    IN  IF at = 0 THEN "invalid" ELSE object[at]

\* Variant: the verdict is looked for in the text.
VerdictSaid(m) == IF "approve" \in {m[i] : i \in DOMAIN m} THEN "approve" ELSE "invalid"

\* _parse_verdict: "invalid" when it raises.
Verdict(m) == LET json == LastJson(m)
              IN  IF IsObject(json) THEN VerdictIn(json) ELSE "invalid"

-----------------------------------------------------------------------------
Init == /\ broken \in SUBSET (1 .. NGates)
        /\ phase = "coder"
        /\ stdout = <<>>
        /\ exit = "running"
        /\ outcomes = <<>>
        /\ message = <<>>
        /\ cause = "none"
        /\ resets = 0
        /\ named = {}

\* GateSuite.failures and all_passed.
Failures  == {i \in DOMAIN outcomes : outcomes[i] # "green"}
AllPassed == \A i \in DOMAIN outcomes : outcomes[i] = "green"

Raise(c) == /\ phase' = "raised"
            /\ cause' = c
            /\ resets' = IF c = "limited" THEN LastLine({"allowed", "blocked"}) ELSE 0
            /\ named' = IF c = "gates" THEN Failures ELSE {}
            /\ UNCHANGED <<broken, stdout, exit, outcomes, message>>

Calling == phase \in {"coder", "reviewer"}

\* The CLI prints a line.
Emit(line) == /\ Calling /\ exit = "running"
              /\ Len(stdout) < MaxLines
              /\ stdout' = Append(stdout, line)
              /\ UNCHANGED <<broken, phase, exit, outcomes, message, cause, resets, named>>

\* It ends by itself, or subprocess.run kills it when the time is up; what it
\* printed until then is kept.  A CLI that is not installed raises.
End(how) == /\ Calling /\ exit = "running"
            /\ exit' = how
            /\ UNCHANGED <<broken, phase, stdout, outcomes, message, cause, resets, named>>

CannotStart == /\ Calling /\ exit = "running" /\ stdout = <<>>
               /\ Raise("crash")

\* The next phase begins with nothing printed.
GoOn(next) == /\ phase' = next
              /\ stdout' = <<>>
              /\ exit' = "running"
              /\ UNCHANGED <<broken, outcomes, message, cause, resets, named>>

\* _execute on the coder's result: rate_limited is asked first.
CoderDone == /\ phase = "coder" /\ exit # "running"
             /\ \/ Unparsable /\ Raise("crash")
                \/ ~Unparsable /\ RateLimited /\ Raise("limited")
                \/ ~Unparsable /\ ~RateLimited /\ ~Succeeded /\ Raise("failed")
                \/ ~Unparsable /\ ~RateLimited /\ Succeeded /\ GoOn("gates")

\* Variant: the bound of the loop is off by one.
RunGateAgain(outcome) ==
    /\ phase = "gates" /\ Len(outcomes) <= NGates
    /\ outcomes' = Append(outcomes, outcome)
    /\ UNCHANGED <<broken, phase, stdout, exit, message, cause, resets, named>>

\* _run_one for the next gate: exit code 0, another one, or killed.  A gate that
\* the work passes may fail all the same, one that it does not pass never succeeds;
\* a gate that cannot be started ends the suite.
RunGate(outcome) == /\ phase = "gates" /\ Len(outcomes) < NGates
                    /\ \/ /\ outcome = "green" => Len(outcomes) + 1 \notin broken
                          /\ outcomes' = Append(outcomes, outcome)
                          /\ UNCHANGED <<broken, phase, stdout, exit, message, cause, resets, named>>
                       \/ Raise("crash")

\* Variant: the first gate that fails ends the suite.
GatesStopped == /\ phase = "gates"
                /\ \/ Len(outcomes) = NGates /\ AllPassed /\ GoOn("reviewer")
                   \/ ~AllPassed /\ Raise("gates")

\* Only the whole suite is judged.
GatesDone == /\ phase = "gates" /\ Len(outcomes) = NGates
             /\ \/ AllPassed /\ GoOn("reviewer")
                \/ ~AllPassed /\ Raise("gates")

\* review: for the reviewer a rate limit is a failure like any other.
ReviewerDone == /\ phase = "reviewer" /\ exit # "running"
                /\ \/ Unparsable /\ Raise("crash")
                   \/ ~Unparsable /\ ~Succeeded /\ Raise("failed")
                   \/ ~Unparsable /\ Succeeded /\ GoOn("message")

\* The result event carries the message.
Say(token) == /\ phase = "message" /\ Len(message) < MaxTokens
              /\ message' = Append(message, token)
              /\ UNCHANGED <<broken, phase, stdout, exit, outcomes, cause, resets, named>>

\* is_approved; every other verdict, "comment" too, fails the run.
Judge == /\ phase = "message"
         /\ LET verdict == Verdict(message)
            IN  \/ verdict = "approve" /\ GoOn("accepted")
                \/ verdict = "comment" /\ Raise("rejected")
                \/ verdict = "invalid" /\ Raise("failed")

Next == \/ \E line \in Lines : Emit(line)
        \/ \E how \in Exits \ {"running"} : End(how)
        \/ CannotStart
        \/ CoderDone
        \/ \E outcome \in {"green", "red", "timeout"} : RunGate(outcome)
        \/ GatesDone
        \/ ReviewerDone
        \/ \E token \in Tokens : Say(token)
        \/ Judge

Spec == Init /\ [][Next]_vars

-----------------------------------------------------------------------------
(* Properties *)

\* Every variable keeps its type; no gate runs twice.
TypeOK == /\ broken \in SUBSET (1 .. NGates)
          /\ phase \in {"coder", "gates", "reviewer", "message", "accepted", "raised"}
          /\ stdout \in Seq(Lines) /\ Len(stdout) <= MaxLines
          /\ exit \in Exits
          /\ outcomes \in Seq({"green", "red", "timeout"}) /\ Len(outcomes) <= NGates
          /\ message \in Seq(Tokens) /\ Len(message) <= MaxTokens
          /\ cause \in {"none", "crash", "limited", "failed", "gates", "rejected"}
          /\ resets \in 0 .. MaxLines
          /\ named \in SUBSET (1 .. NGates)

\* The CLI reported a success, and no other result after it.
SaidSuccess == \E i \in DOMAIN stdout : /\ stdout[i] = "success"
                                        /\ \A k \in i .. Len(stdout) : stdout[k] # "failure"

\* It reported a limit, and no lifting of it.
StillBlocked == \E i \in DOMAIN stdout : /\ stdout[i] = "blocked"
                                         /\ \A k \in i .. Len(stdout) : stdout[k] # "allowed"

\* A CLI ended well: by itself, with code 0, and no result after its success.
EndedWell == exit = "zero" /\ SaidSuccess

\* Work goes on only past a coder that ended well, a suite in which every gate
\* is green, and a reviewer that ended well, whatever else was printed or timed
\* out; and is accepted only after all of them.
OnlyGoodWorkPasses ==
    [][/\ phase' = "gates" /\ phase = "coder" => EndedWell
       /\ phase' = "reviewer" /\ phase = "gates" =>
             Len(outcomes) = NGates /\ \A i \in 1 .. NGates : outcomes[i] = "green"
       /\ phase' = "message" /\ phase = "reviewer" => EndedWell
       /\ phase' = "accepted" => phase \in {"message", "accepted"}]_vars

\* Work is accepted only for an approval the reviewer gave as a JSON object,
\* whatever was said around it.
ApprovalWasSaid ==
    [][phase' = "accepted" =>
          \E i, k \in DOMAIN message : /\ IsObject(SubSeq(message, i, k))
                                       /\ VerdictIn(SubSeq(message, i, k)) = "approve"]_vars

\* A coder's call whose stream can be parsed and that does not succeed is reported
\* as rate limited exactly when a limit was still blocking at its end, and it was
\* killed or did not report a success; the reset time is that of such a limit.  So
\* a kill while blocked is no plain timeout, and a limit that was lifted, or one
\* that the coder came through, does not hide another failure.
LimitIsReported ==
    [][phase = "coder" /\ phase' = "raised" /\ cause' \in {"limited", "failed"} =>
          /\ cause' = "limited" <=> (StillBlocked /\ (exit = "timeout" \/ ~SaidSuccess))
          /\ cause' = "limited" =>
                /\ stdout[resets'] = "blocked"
                /\ \A k \in resets' .. Len(stdout) : stdout[k] # "allowed"]_vars

\* The error raised after the gates names every gate that the work does not pass,
\* also those that come after another failure, and work that a gate does not pass
\* never gets to the reviewer, whichever gates fail by chance.
FailuresAreNamed ==
    /\ cause = "gates" => named # {} /\ broken \subseteq named
    /\ phase \in {"reviewer", "message", "accepted"} => broken = {}

\* The message from start on is a JSON object, nested at most two deep.
EndsWithObject(start) ==
    LET object == SubSeq(message, start, Len(message))
    IN  /\ IsObject(object)
        /\ \A i \in DOMAIN object : Nesting(object, 1, i, JsonBraces) <= 2

\* The prompt's contract: when the message ends with an object of the shape the
\* reviewer is asked for, with no brace in its strings, that object is the one
\* read, whatever prose, braces or earlier objects stand before it.
PlainVerdictIsRead ==
    \A start \in DOMAIN message :
        /\ EndsWithObject(start)
        /\ \A i \in start .. Len(message) : message[i] \notin {"quotedOpen", "quotedClose"}
        => LastJson(message) = SubSeq(message, start, Len(message))

\* With braces in its strings such an object may become unreadable, but one that
\* asks for changes is never taken for an approval, whatever approvals stand
\* before it; nor for one that it nests, if it has the asked-for shape, in which
\* findings have no verdict, or no closing brace in a string.
RejectionIsNoApproval ==
    \A start \in DOMAIN message :
        /\ EndsWithObject(start)
        /\ VerdictIn(SubSeq(message, start, Len(message))) = "comment"
        /\ \/ \A i \in start .. Len(message) : message[i] # "quotedClose"
           \/ \A i \in start .. Len(message) :
                 message[i] = "approve" => Nesting(message, start, i, JsonBraces) = 1
        => Verdict(message) # "approve"
=============================================================================
