--------------------------- MODULE AgentCallsProofs ---------------------------
(***************************************************************************)
(* Theorems about AgentCalls, for any number of gates, of lines a CLI      *)
(* prints and of tokens in a reviewer's message.                           *)
(*                                                                         *)
(* What is read from the message is Scan, a recursive function defined     *)
(* from the end of the message backwards; its proofs use the induction     *)
(* Downward.  The argument about braces is that a match of the regular     *)
(* expression that begins before a balanced text cannot end in it.         *)
(***************************************************************************)
EXTENDS AgentCalls, DataLemmas, FunctionTheorems

-----------------------------------------------------------------------------
(* The streams and the gates *)

\* What LastLine returns.
LEMMA LastLineIsLast ==
    ASSUME stdout \in Seq(Lines), NEW kinds
    PROVE  /\ LastLine(kinds) \in 0 .. Len(stdout)
           /\ LastLine(kinds) # 0 => stdout[LastLine(kinds)] \in kinds
           /\ \A i \in DOMAIN stdout : stdout[i] \in kinds => i <= LastLine(kinds)
<1> DEFINE S == {0} \cup {i \in DOMAIN stdout : stdout[i] \in kinds}
<1>1. S \in SUBSET Nat /\ S # {} /\ Len(stdout) \in Nat /\ \A x \in S : x <= Len(stdout)
  OBVIOUS
<1>2. Max(S) \in S /\ \A x \in S : x <= Max(S)
  BY <1>1, MaxOfBounded
<1> QED
  BY <1>1, <1>2 DEF LastLine

\* Nothing was raised before the end.
RaisedInv == cause # "none" => phase = "raised"

\* A gate that the work does not pass has not succeeded.
BrokenInv == \A i \in DOMAIN outcomes : i \in broken => outcomes[i] # "green"

IndInv == TypeOK /\ RaisedInv /\ BrokenInv /\ FailuresAreNamed

\* No call was made yet.
LEMMA InitInv == Init => IndInv
  BY SizesAssumption
     DEF Init, IndInv, TypeOK, RaisedInv, BrokenInv, FailuresAreNamed, Exits, Lines, Tokens

\* A suite that ran to its end has found every gate the work does not pass.
LEMMA BrokenIsFound ==
    ASSUME TypeOK, BrokenInv, Len(outcomes) = NGates
    PROVE  /\ broken \subseteq Failures /\ Failures \subseteq 1 .. NGates
           /\ AllPassed => broken = {}
           /\ ~AllPassed => Failures # {}
<1>1. DOMAIN outcomes = 1 .. NGates
  BY SizesAssumption DEF TypeOK
<1>2. broken \subseteq Failures
  BY <1>1 DEF TypeOK, BrokenInv, Failures
<1> QED
  BY <1>1, <1>2 DEF Failures, AllPassed

\* Every step keeps the invariant.
LEMMA StepInv == IndInv /\ [Next]_vars => IndInv'
<1> SUFFICES ASSUME IndInv, [Next]_vars PROVE IndInv'
  OBVIOUS
<1> USE SizesAssumption
    DEF IndInv, TypeOK, RaisedInv, BrokenInv, FailuresAreNamed, Calling, Exits
<1>0. ASSUME NEW c \in {"crash", "limited", "failed", "gates", "rejected"}, Raise(c),
             phase # "raised", c = "gates" => Len(outcomes) = NGates /\ ~AllPassed
      PROVE  IndInv'
  <2>1. named' \in SUBSET (1 .. NGates)
    BY <1>0, BrokenIsFound DEF Raise
  <2>2. c = "gates" => named' # {} /\ broken \subseteq named'
    BY <1>0, BrokenIsFound DEF Raise
  <2>3. TypeOK'
    BY <1>0, <2>1, LastLineIsLast DEF Raise
  <2> QED
    BY <1>0, <2>2, <2>3 DEF Raise
<1>a. ASSUME NEW next \in {"gates", "reviewer", "message", "accepted"}, GoOn(next),
             phase # "raised", next # "gates" => broken = {}
      PROVE  IndInv'
  BY <1>a DEF GoOn
<1>1. ASSUME NEW line \in Lines, Emit(line) PROVE IndInv'
  BY <1>1 DEF Emit
<1>2. ASSUME NEW how \in Exits \ {"running"}, End(how) PROVE IndInv'
  BY <1>2 DEF End
<1>3. CASE CannotStart
  BY <1>3, <1>0 DEF CannotStart
<1>4. CASE CoderDone
  BY <1>4, <1>0, <1>a DEF CoderDone
<1>5. ASSUME NEW outcome \in {"green", "red", "timeout"}, RunGate(outcome) PROVE IndInv'
  <2>1. CASE Raise("crash")
    BY <1>5, <2>1, <1>0 DEF RunGate
  <2>2. CASE ~Raise("crash")
    <3>1. /\ phase = "gates" /\ Len(outcomes) < NGates
          /\ outcome = "green" => Len(outcomes) + 1 \notin broken
          /\ outcomes' = Append(outcomes, outcome)
          /\ UNCHANGED <<broken, phase, stdout, exit, message, cause, resets, named>>
      BY <1>5, <2>2 DEF RunGate
    <3>2. TypeOK'
      BY <3>1
    <3>3. BrokenInv'
      <4> SUFFICES ASSUME NEW i \in DOMAIN outcomes', i \in broken
                   PROVE  outcomes'[i] # "green"
        BY <3>1
      <4>1. CASE i = Len(outcomes) + 1
        BY <3>1, <4>1
      <4>2. CASE i # Len(outcomes) + 1
        BY <3>1, <4>2
      <4> QED
        BY <4>1, <4>2
    <3> QED
      BY <3>1, <3>2, <3>3
  <2> QED
    BY <2>1, <2>2
<1>6. CASE GatesDone
  BY <1>6, <1>0, <1>a, BrokenIsFound DEF GatesDone
<1>7. CASE ReviewerDone
  BY <1>7, <1>0, <1>a DEF ReviewerDone
<1>8. ASSUME NEW token \in Tokens, Say(token) PROVE IndInv'
  BY <1>8 DEF Say
<1>9. CASE Judge
  BY <1>9, <1>0, <1>a DEF Judge
<1>10. CASE UNCHANGED vars
  BY <1>10 DEF vars
<1> QED
  BY <1>1, <1>2, <1>3, <1>4, <1>5, <1>6, <1>7, <1>8, <1>9, <1>10 DEF Next

THEOREM Inductive == Spec => []IndInv
<1>1. Init => IndInv
  BY InitInv
<1>2. IndInv /\ [Next]_vars => IndInv'
  BY StepInv
<1> QED
  BY <1>1, <1>2, PTL DEF Spec

-----------------------------------------------------------------------------
(* What each step may do, in a state that satisfies the invariant *)

\* The last result, as the code and as the properties have it.
LEMMA SuccessIsLast == ASSUME TypeOK PROVE ResultIs("success") <=> SaidSuccess
<1> DEFINE last == LastLine({"success", "failure"})
<1>1. /\ last \in 0 .. Len(stdout)
      /\ last # 0 => stdout[last] \in {"success", "failure"}
      /\ \A i \in DOMAIN stdout : stdout[i] \in {"success", "failure"} => i <= last
  BY LastLineIsLast DEF TypeOK
<1> HIDE DEF last
<1>2. ASSUME last # 0, stdout[last] = "success" PROVE SaidSuccess
  BY <1>1, <1>2 DEF SaidSuccess, TypeOK
<1>3. ASSUME SaidSuccess PROVE last # 0 /\ stdout[last] = "success"
  <2>1. PICK i \in DOMAIN stdout : /\ stdout[i] = "success"
                                  /\ \A k \in i .. Len(stdout) : stdout[k] # "failure"
    BY <1>3 DEF SaidSuccess
  <2>2. last \in i .. Len(stdout) /\ last # 0
    BY <1>1, <2>1 DEF TypeOK
  <2> QED
    BY <1>1, <2>1, <2>2
<1> QED
  BY <1>2, <1>3 DEF ResultIs, last

\* A call taken for a success ended with a success line.
LEMMA SuccessEndedWell == ASSUME TypeOK, Succeeded PROVE EndedWell
  BY SuccessIsLast DEF Succeeded, EndedWell

\* The last rate-limit event, as the code and as the properties have it.
LEMMA BlockedIsLast ==
    ASSUME TypeOK
    PROVE  /\ Blocking <=> StillBlocked
           /\ Blocking => LET last == LastLine({"allowed", "blocked"})
                          IN  /\ stdout[last] = "blocked"
                              /\ \A k \in last .. Len(stdout) : stdout[k] # "allowed"
<1> DEFINE last == LastLine({"allowed", "blocked"})
<1>1. /\ last \in 0 .. Len(stdout)
      /\ last # 0 => stdout[last] \in {"allowed", "blocked"}
      /\ \A i \in DOMAIN stdout : stdout[i] \in {"allowed", "blocked"} => i <= last
  BY LastLineIsLast DEF TypeOK
<1> HIDE DEF last
<1>2. ASSUME last # 0, stdout[last] = "blocked"
      PROVE  /\ last \in DOMAIN stdout
             /\ \A k \in last .. Len(stdout) : stdout[k] # "allowed"
  BY <1>1, <1>2 DEF TypeOK
<1>3. ASSUME StillBlocked PROVE last # 0 /\ stdout[last] = "blocked"
  <2>1. PICK i \in DOMAIN stdout : /\ stdout[i] = "blocked"
                                  /\ \A k \in i .. Len(stdout) : stdout[k] # "allowed"
    BY <1>3 DEF StillBlocked
  <2>2. last \in i .. Len(stdout) /\ last # 0
    BY <1>1, <2>1 DEF TypeOK
  <2> QED
    BY <1>1, <2>1, <2>2
<1>4. last # 0 /\ stdout[last] = "blocked" => StillBlocked
  BY <1>2 DEF StillBlocked
<1> QED
  BY <1>2, <1>3, <1>4 DEF Blocking, last

\* What has been achieved when a phase hands over to the next.
LEMMA HandOverStep ==
    ASSUME IndInv, [Next]_vars
    PROVE  /\ phase' = "gates" /\ phase = "coder" => EndedWell
           /\ phase' = "reviewer" /\ phase = "gates" =>
                 Len(outcomes) = NGates /\ \A i \in 1 .. NGates : outcomes[i] = "green"
           /\ phase' = "message" /\ phase = "reviewer" => EndedWell
           /\ phase' = "accepted" => phase \in {"message", "accepted"}
<1> USE DEF IndInv, GoOn, Raise
<1>1. CASE CoderDone \/ ReviewerDone
  BY <1>1, SuccessEndedWell DEF CoderDone, ReviewerDone
<1>2. CASE GatesDone
  BY <1>2 DEF GatesDone, AllPassed, TypeOK
<1>3. CASE CannotStart \/ Judge \/ UNCHANGED vars
  BY <1>3 DEF CannotStart, Calling, Judge, vars
<1>4. ASSUME NEW line \in Lines, Emit(line) PROVE phase' = phase
  BY <1>4 DEF Emit
<1>5. ASSUME NEW how \in Exits \ {"running"}, End(how) PROVE phase' = phase
  BY <1>5 DEF End
<1>6. ASSUME NEW outcome \in {"green", "red", "timeout"}, RunGate(outcome)
      PROVE  phase' \in {phase, "raised"}
  BY <1>6 DEF RunGate
<1>7. ASSUME NEW token \in Tokens, Say(token) PROVE phase' = phase
  BY <1>7 DEF Say
<1> QED
  BY <1>1, <1>2, <1>3, <1>4, <1>5, <1>6, <1>7 DEF Next, TypeOK

\* What the streams hold when a call of the coder raises.
LEMMA LimitStep ==
    ASSUME IndInv, [Next]_vars, phase = "coder", phase' = "raised",
           cause' \in {"limited", "failed"}
    PROVE  /\ cause' = "limited" <=> (StillBlocked /\ (exit = "timeout" \/ ~SaidSuccess))
           /\ cause' = "limited" =>
                /\ stdout[resets'] = "blocked"
                /\ \A k \in resets' .. Len(stdout) : stdout[k] # "allowed"
<1> USE DEF IndInv
<1>1. CoderDone \/ CannotStart
  BY DEF Next, Emit, End, RunGate, GatesDone, ReviewerDone, Say, Judge, GoOn, vars
<1>2. RateLimited <=> (StillBlocked /\ (exit = "timeout" \/ ~SaidSuccess))
  BY SuccessIsLast, BlockedIsLast DEF RateLimited
<1>3. CASE RateLimited /\ Raise("limited")
  <2>1. resets' = LastLine({"allowed", "blocked"}) /\ cause' = "limited" /\ Blocking
    BY <1>3 DEF Raise, RateLimited
  <2> QED
    BY <1>2, <1>3, <2>1, BlockedIsLast
<1>4. CASE ~RateLimited /\ Raise("failed")
  BY <1>2, <1>4 DEF Raise
<1> QED
  BY <1>1, <1>3, <1>4 DEF CoderDone, CannotStart, GoOn, Raise

-----------------------------------------------------------------------------
(* Theorems about the streams and the gates *)

\* Every variable keeps its type, and no gate runs twice.
THEOREM TypeCorrect == Spec => []TypeOK
  BY Inductive, PTL DEF IndInv

\* The error raised after the gates names every gate that the work does not pass,
\* and such work never gets to the reviewer (QualityGates.run, _execute).
THEOREM FailedGatesAreNamed == Spec => []FailuresAreNamed
  BY Inductive, PTL DEF IndInv

\* A stage hands over only work its subprocess ended well on (_execute, review,
\* GateSuite.all_passed).
THEOREM GoodWorkPasses == Spec => OnlyGoodWorkPasses
<1>1. IndInv /\ [Next]_vars =>
        [/\ phase' = "gates" /\ phase = "coder" => EndedWell
         /\ phase' = "reviewer" /\ phase = "gates" =>
               Len(outcomes) = NGates /\ \A i \in 1 .. NGates : outcomes[i] = "green"
         /\ phase' = "message" /\ phase = "reviewer" => EndedWell
         /\ phase' = "accepted" => phase \in {"message", "accepted"}]_vars
  BY HandOverStep
<1> QED
  BY <1>1, Inductive, PTL DEF Spec, OnlyGoodWorkPasses

\* A coder's call that fails is reported as rate limited if and only if a limit
\* still blocked it at its end and it was killed or reported no success, and then
\* with the reset time of such a limit (ClaudeRunner._run_blocking, _execute).
THEOREM BlockingLimitIsReported == Spec => LimitIsReported
<1>1. IndInv /\ [Next]_vars =>
        [phase = "coder" /\ phase' = "raised" /\ cause' \in {"limited", "failed"} =>
            /\ cause' = "limited" <=> (StillBlocked /\ (exit = "timeout" \/ ~SaidSuccess))
            /\ cause' = "limited" =>
                  /\ stdout[resets'] = "blocked"
                  /\ \A k \in resets' .. Len(stdout) : stdout[k] # "allowed"]_vars
  BY LimitStep
<1> QED
  BY <1>1, Inductive, PTL DEF Spec, LimitIsReported

-----------------------------------------------------------------------------
(* Counting tokens *)

Places(m, a, b, kinds) == {i \in a .. b : m[i] \in kinds}

\* Tokens are counted in a finite set of places.
LEMMA CountIsNat ==
    ASSUME NEW m, NEW a \in Int, NEW b \in Int, NEW kinds
    PROVE  /\ IsFiniteSet(Places(m, a, b, kinds))
           /\ Count(m, a, b, kinds) = Cardinality(Places(m, a, b, kinds))
           /\ Count(m, a, b, kinds) \in Nat
<1>1. IsFiniteSet(a .. b)
  BY FS_Interval
<1>2. Places(m, a, b, kinds) \in SUBSET (a .. b)
  BY DEF Places
<1>3. IsFiniteSet(Places(m, a, b, kinds))
  BY <1>1, <1>2, FS_Subset
<1>4. Count(m, a, b, kinds) = Cardinality(Places(m, a, b, kinds))
  BY DEF Count, Places
<1> QED
  BY <1>3, <1>4, FS_CardinalityType

\* Cardinalities of disjoint sets add up.
LEMMA DisjointSum ==
    ASSUME NEW S, NEW T, IsFiniteSet(S), IsFiniteSet(T), S \cap T = {}
    PROVE  Cardinality(S \cup T) = Cardinality(S) + Cardinality(T)
<1>1. Cardinality(S \cap T) = 0
  BY FS_EmptySet
<1>2. Cardinality(S) \in Nat /\ Cardinality(T) \in Nat
  BY FS_CardinalityType
<1>3. Cardinality(S \cup T) = Cardinality(S) + Cardinality(T) - Cardinality(S \cap T)
  BY FS_Union
<1> QED
  BY <1>1, <1>2, <1>3

\* A count over an interval is the sum over its two parts.
LEMMA CountSplit ==
    ASSUME NEW m, NEW a \in Int, NEW b \in Int, NEW c \in Int, NEW kinds,
           a <= b + 1, b <= c
    PROVE  Count(m, a, c, kinds) = Count(m, a, b, kinds) + Count(m, b + 1, c, kinds)
<1>1. /\ Places(m, a, c, kinds) = Places(m, a, b, kinds) \cup Places(m, b + 1, c, kinds)
      /\ Places(m, a, b, kinds) \cap Places(m, b + 1, c, kinds) = {}
  BY DEF Places
<1> QED
  BY <1>1, CountIsNat, DisjointSum

\* A count of two kinds is the sum over the kinds.
LEMMA CountUnion ==
    ASSUME NEW m, NEW a \in Int, NEW b \in Int, NEW k1, NEW k2, k1 \cap k2 = {}
    PROVE  Count(m, a, b, k1 \cup k2) = Count(m, a, b, k1) + Count(m, a, b, k2)
<1>1. /\ Places(m, a, b, k1 \cup k2) = Places(m, a, b, k1) \cup Places(m, a, b, k2)
      /\ Places(m, a, b, k1) \cap Places(m, a, b, k2) = {}
  BY DEF Places
<1>2. \A k : /\ IsFiniteSet(Places(m, a, b, k))
             /\ Count(m, a, b, k) = Cardinality(Places(m, a, b, k))
  BY CountIsNat
<1>3. Cardinality(Places(m, a, b, k1) \cup Places(m, a, b, k2)) =
         Cardinality(Places(m, a, b, k1)) + Cardinality(Places(m, a, b, k2))
  BY <1>1, <1>2, DisjointSum, Zenon
<1>4. Count(m, a, b, k1 \cup k2) = Cardinality(Places(m, a, b, k1 \cup k2))
  BY <1>2, Zenon
<1> QED
  BY <1>1, <1>2, <1>3, <1>4, Zenon

\* A count at one place.
LEMMA CountOne ==
    ASSUME NEW m, NEW i \in Int, NEW kinds
    PROVE  Count(m, i, i, kinds) = IF m[i] \in kinds THEN 1 ELSE 0
<1>1. CASE m[i] \in kinds
  <2>1. {k \in i .. i : m[k] \in kinds} = {i}
    BY <1>1
  <2> QED BY <1>1, <2>1, FS_Singleton DEF Count
<1>2. CASE m[i] \notin kinds
  <2>1. {k \in i .. i : m[k] \in kinds} = {}
    BY <1>2
  <2> QED BY <1>2, <2>1, FS_EmptySet DEF Count
<1> QED
  BY <1>1, <1>2

\* A count where the kind does not occur.
LEMMA CountNone ==
    ASSUME NEW m, NEW a \in Int, NEW b \in Int, NEW kinds,
           \A i \in a .. b : m[i] \notin kinds
    PROVE  Count(m, a, b, kinds) = 0
<1>1. {i \in a .. b : m[i] \in kinds} = {}
  OBVIOUS
<1> QED
  BY <1>1, FS_EmptySet DEF Count

\* The tokens of a part are counted in the part as in the whole.
LEMMA CountInPart ==
    ASSUME NEW m \in Seq(Tokens), NEW a \in 1 .. Len(m), NEW b \in a .. Len(m),
           NEW n \in 0 .. b - a + 1, NEW kinds
    PROVE  Count(SubSeq(m, a, b), 1, n, kinds) = Count(m, a, a + n - 1, kinds)
<1> DEFINE o == SubSeq(m, a, b)
           S == Places(o, 1, n, kinds)
           T == Places(m, a, a + n - 1, kinds)
           f == [i \in S |-> a + i - 1]
<1>1. \A i \in 1 .. n : o[i] = m[a + i - 1]
  BY SubSeqProperties
<1>2. f \in [S -> T]
  BY <1>1 DEF Places
<1>3. \A i, k \in S : f[i] = f[k] => i = k
  BY DEF Places
<1>4. \A t \in T : \E i \in S : f[i] = t
  <2> SUFFICES ASSUME NEW t \in T PROVE \E i \in S : f[i] = t
    OBVIOUS
  <2>1. t - a + 1 \in S /\ f[t - a + 1] = t
    BY <1>1 DEF Places
  <2> QED BY <2>1
<1>5. ExistsBijection(S, T)
  <2> HIDE DEF S, T, f
  <2>1. f \in Bijection(S, T)
    BY <1>2, <1>3, <1>4, Fun_IsBij
  <2> QED BY <2>1 DEF ExistsBijection
<1>6. IsFiniteSet(S) /\ Count(o, 1, n, kinds) = Cardinality(S)
  BY CountIsNat
<1>7. Count(m, a, a + n - 1, kinds) = Cardinality(T)
  BY CountIsNat
<1> QED
  <2> HIDE DEF S, T
  <2> QED BY <1>5, <1>6, <1>7, FS_Bijection

-----------------------------------------------------------------------------
(* Nesting *)

\* The nesting over an interval is the sum over its two parts.
LEMMA NestingSplit ==
    ASSUME NEW m, NEW a \in Int, NEW b \in Int, NEW c \in Int, NEW braces,
           a <= b + 1, b <= c
    PROVE  /\ Nesting(m, a, c, braces) = Nesting(m, a, b, braces) + Nesting(m, b + 1, c, braces)
           /\ Nesting(m, a, b, braces) \in Int
           /\ Nesting(m, b + 1, c, braces) \in Int
<1>1. \A kinds : Count(m, a, c, kinds) = Count(m, a, b, kinds) + Count(m, b + 1, c, kinds)
  BY CountSplit
<1>2. \A kinds : Count(m, a, b, kinds) \in Nat /\ Count(m, b + 1, c, kinds) \in Nat
  BY CountIsNat
<1> QED
  BY <1>1, <1>2 DEF Nesting

\* The first token apart.
LEMMA NestingFirst ==
    ASSUME NEW m, NEW a \in Int, NEW c \in Int, NEW braces, a <= c
    PROVE  /\ Nesting(m, a, c, braces) = Nesting(m, a, a, braces) + Nesting(m, a + 1, c, braces)
           /\ Nesting(m, a, a, braces) \in Int
<1>1. a <= a + 1
  OBVIOUS
<1> QED
  BY <1>1, NestingSplit

\* What one token adds to the nesting.
LEMMA NestingOne ==
    ASSUME NEW m, NEW i \in Int, NEW braces \in {RegexBraces, JsonBraces}
    PROVE  Nesting(m, i, i, braces) = IF m[i] \in braces.open THEN 1
                                      ELSE IF m[i] \in braces.close THEN -1 ELSE 0
<1>1. \A kinds : Count(m, i, i, kinds) = IF m[i] \in kinds THEN 1 ELSE 0
  BY CountOne
<1>2. braces.open \cap braces.close = {}
  <2>1. CASE braces = RegexBraces
    BY <2>1 DEF RegexBraces
  <2>2. CASE braces = JsonBraces
    BY <2>2 DEF JsonBraces
  <2> QED BY <2>1, <2>2
<1> QED
  BY <1>1, <1>2 DEF Nesting

\* Nothing opens in an empty interval.
LEMMA NestingEmpty ==
    ASSUME NEW m, NEW a \in Int, NEW b \in Int, NEW braces, b < a
    PROVE  Nesting(m, a, b, braces) = 0
<1>1. \A kinds : Count(m, a, b, kinds) = 0
  BY CountNone
<1> QED
  BY <1>1 DEF Nesting

\* What opens before a balanced text is still open within it.
LEMMA NothingClosesWithin ==
    ASSUME NEW m, NEW p \in Int, NEW q \in Int, NEW i \in Int, NEW e \in p .. q, NEW braces,
           i < p, Balanced(m, p, q, braces), Balanced(m, i, e, braces)
    PROVE  FALSE
<1>1. Nesting(m, i, e, braces) = Nesting(m, i, p - 1, braces) + Nesting(m, p, e, braces)
  BY NestingSplit
<1>2. Nesting(m, i, e, braces) = 0
  BY DEF Balanced
<1>3. Nesting(m, i, p - 1, braces) >= 0 /\ Nesting(m, i, p - 1, braces) # 0
  BY DEF Balanced
<1>4. Nesting(m, p, e, braces) >= 0
  BY DEF Balanced
<1>5. Nesting(m, i, p - 1, braces) \in Int /\ Nesting(m, p, e, braces) \in Int
  <2>1. \A kinds, a, b : a \in Int /\ b \in Int => Count(m, a, b, kinds) \in Nat
    BY CountIsNat
  <2> QED BY <2>1 DEF Nesting
<1> QED
  BY <1>1, <1>2, <1>3, <1>4, <1>5

-----------------------------------------------------------------------------
(* The scan *)

\* The definition of the scan, as a function of the rest of the scan.
Step(f, m, i) ==
    LET ends == {e \in i .. Len(m) : Matches(m, i, e)}
    IN  IF i > Len(m) THEN <<>>
        ELSE IF ends = {} THEN f[i + 1]
        ELSE <<SubSeq(m, i, Min(ends))>> \o f[Min(ends) + 1]

\* A step looks at what is behind it only.
LEMMA StepIsLocal ==
    ASSUME NEW m \in Seq(Tokens), NEW f, NEW g, NEW i \in 1 .. Len(m) + 1,
           \A k \in i + 1 .. Len(m) + 1 : f[k] = g[k]
    PROVE  Step(f, m, i) = Step(g, m, i)
<1> DEFINE ends == {e \in i .. Len(m) : Matches(m, i, e)}
<1>1. CASE i > Len(m)
  BY <1>1 DEF Step
<1>2. CASE i <= Len(m) /\ ends = {}
  BY <1>2 DEF Step
<1>3. CASE i <= Len(m) /\ ends # {}
  <2>1. ends \in SUBSET Nat
    OBVIOUS
  <2>2. Min(ends) \in ends
    BY <1>3, <2>1, MinOfNat
  <2>3. Min(ends) + 1 \in i + 1 .. Len(m) + 1
    BY <2>2
  <2> HIDE DEF ends
  <2>4. /\ Step(f, m, i) = <<SubSeq(m, i, Min(ends))>> \o f[Min(ends) + 1]
        /\ Step(g, m, i) = <<SubSeq(m, i, Min(ends))>> \o g[Min(ends) + 1]
    BY <1>3 DEF Step, ends
  <2> QED BY <2>3, <2>4
<1> QED
  BY <1>1, <1>2, <1>3

\* There is a function that satisfies the definition.
LEMMA ScanExists ==
    ASSUME NEW m \in Seq(Tokens)
    PROVE  \E f : f = [i \in 1 .. Len(m) + 1 |-> Step(f, m, i)]
<1> DEFINE D == 1 .. Len(m) + 1
           Defined(f, n) == \A i \in D : i >= n => f[i] = Step(f, m, i)
           S == {n \in D : \E f : f = [i \in D |-> f[i]] /\ Defined(f, n)}
<1>1. ASSUME NEW n \in D, \A k \in n + 1 .. Len(m) + 1 : k \in S PROVE n \in S
  <2>1. PICK f : f = [i \in D |-> f[i]] /\ Defined(f, n + 1)
    <3>1. CASE n = Len(m) + 1
      <4> DEFINE z == [i \in D |-> <<>>]
      <4>1. z = [i \in D |-> z[i]] /\ Defined(z, n + 1)
        BY <3>1
      <4> QED BY <4>1
    <3>2. CASE n # Len(m) + 1
      <4>1. n + 1 \in S
        BY <1>1, <3>2
      <4> QED BY <4>1
    <3> QED BY <3>1, <3>2
  <2> DEFINE g == [i \in D |-> IF i = n THEN Step(f, m, n) ELSE f[i]]
  <2>2. \A i \in D : i >= n => Step(g, m, i) = Step(f, m, i)
    <3> SUFFICES ASSUME NEW i \in D, i >= n PROVE Step(g, m, i) = Step(f, m, i)
      OBVIOUS
    <3>1. \A k \in i + 1 .. Len(m) + 1 : g[k] = f[k]
      OBVIOUS
    <3> HIDE DEF g
    <3> QED BY <3>1, StepIsLocal
  <2>3. Defined(g, n)
    <3> SUFFICES ASSUME NEW i \in D, i >= n PROVE g[i] = Step(f, m, i)
      BY <2>2
    <3>1. CASE i = n
      BY <3>1
    <3>2. CASE i # n
      <4>1. i >= n + 1 /\ g[i] = f[i]
        BY <3>2
      <4> QED BY <2>1, <4>1
    <3> QED BY <3>1, <3>2
  <2>4. g = [i \in D |-> g[i]]
    OBVIOUS
  <2> HIDE DEF g, Defined
  <2> QED BY <2>3, <2>4
<1>2. 1 \in S
  <2>1. \A n \in D : n \in S
    <3> HIDE DEF S
    <3>1. 1 \in Int /\ Len(m) + 1 \in Int
      OBVIOUS
    <3>2. \A n \in D : (\A k \in n + 1 .. Len(m) + 1 : k \in S) => n \in S
      BY <1>1
    <3> QED BY <3>1, <3>2, Downward, Zenon
  <2>2. 1 \in D
    OBVIOUS
  <2> QED BY <2>1, <2>2, Zenon
<1>3. PICK f : f = [i \in D |-> f[i]] /\ Defined(f, 1)
  BY <1>2
<1>4. f = [i \in D |-> Step(f, m, i)]
  BY <1>3
<1> QED
  BY <1>4

\* Scan satisfies its definition.
LEMMA ScanEquation ==
    ASSUME NEW m \in Seq(Tokens), NEW i \in 1 .. Len(m) + 1
    PROVE  Scan(m)[i] = Step(Scan(m), m, i)
<1>1. Scan(m) = CHOOSE f : f = [k \in 1 .. Len(m) + 1 |-> Step(f, m, k)]
  BY DEF Scan, Step
<1>2. Scan(m) = [k \in 1 .. Len(m) + 1 |-> Step(Scan(m), m, k)]
  BY <1>1, ScanExists
<1> QED
  BY <1>2

\* At a place the search goes on to the next one, or finds a match and goes on behind it.
LEMMA ScanCases ==
    ASSUME NEW m \in Seq(Tokens), NEW i \in 1 .. Len(m)
    PROVE  \/ /\ \A e \in i .. Len(m) : ~Matches(m, i, e)
              /\ Scan(m)[i] = Scan(m)[i + 1]
           \/ \E e \in i .. Len(m) : /\ Matches(m, i, e)
                                     /\ Scan(m)[i] = <<SubSeq(m, i, e)>> \o Scan(m)[e + 1]
<1> DEFINE ends == {e \in i .. Len(m) : Matches(m, i, e)}
<1>1. Scan(m)[i] = Step(Scan(m), m, i)
  BY ScanEquation
<1>2. CASE ends = {}
  <2>1. ~(i > Len(m))
    OBVIOUS
  <2>2. Step(Scan(m), m, i) = Scan(m)[i + 1]
    BY <1>2, <2>1, Zenon DEF Step
  <2> QED BY <1>1, <1>2, <2>2, Zenon
<1>3. CASE ends # {}
  <2>0. ends \in SUBSET Nat
    OBVIOUS
  <2>1. Min(ends) \in ends
    BY <1>3, <2>0, MinOfNat
  <2>2. Scan(m)[i] = <<SubSeq(m, i, Min(ends))>> \o Scan(m)[Min(ends) + 1]
    BY <1>1, <1>3 DEF Step
  <2> QED BY <2>1, <2>2
<1> QED
  BY <1>2, <1>3

\* Nothing is found behind the end.
LEMMA ScanEnds ==
    ASSUME NEW m \in Seq(Tokens)
    PROVE  Scan(m)[Len(m) + 1] = <<>>
<1>1. Scan(m)[Len(m) + 1] = Step(Scan(m), m, Len(m) + 1)
  BY ScanEquation
<1> QED
  BY <1>1 DEF Step

FinalOf(s) == s[Len(s)]

\* The last element behind one more in front.
LEMMA FinalOfConcat ==
    ASSUME NEW T, NEW x \in T, NEW s \in Seq(T)
    PROVE  /\ <<x>> \o s \in Seq(T)
           /\ <<x>> \o s # <<>>
           /\ FinalOf(<<x>> \o s) = IF s = <<>> THEN x ELSE FinalOf(s)
<1>1. <<x>> \in Seq(T) /\ Len(<<x>>) = 1 /\ <<x>>[1] = x
  OBVIOUS
<1>2. /\ <<x>> \o s \in Seq(T)
      /\ Len(<<x>> \o s) = 1 + Len(s)
      /\ \A i \in 1 .. 1 + Len(s) : (<<x>> \o s)[i] = IF i <= 1 THEN x ELSE s[i - 1]
  BY <1>1, ConcatProperties
<1>3. Len(s) \in Nat /\ (Len(s) = 0 <=> s = <<>>)
  BY EmptySeq
<1> QED
  BY <1>2, <1>3 DEF FinalOf

\* No match from m[i] on begins behind m[b].
Reaches(m, i, b) ==
    \A p \in i .. Len(m) : \A q \in p .. Len(m) : Matches(m, p, q) => p <= b

\* From each token on, the scan finds a match if there is one, and the last that
\* it finds reaches at least to where any other begins.
LastFound(m, i) ==
    /\ Scan(m)[i] \in Seq(Seq(Tokens))
    /\ Scan(m)[i] = <<>> => Reaches(m, i, 0)
    /\ Scan(m)[i] # <<>> =>
          \E a, b \in i .. Len(m) : /\ a <= b /\ Matches(m, a, b)
                                    /\ FinalOf(Scan(m)[i]) = SubSeq(m, a, b)
                                    /\ Reaches(m, i, b)

\* A part of a message is a sequence of tokens.
LEMMA PartIsSeq ==
    ASSUME NEW m \in Seq(Tokens), NEW a \in 1 .. Len(m), NEW b \in a .. Len(m)
    PROVE  SubSeq(m, a, b) \in Seq(Tokens)
<1>1. \A i \in a .. b : m[i] \in Tokens
  OBVIOUS
<1> QED
  BY <1>1, SubSeqProperties

\* What findall returns last, from any place on, is a match that nothing reaches beyond.
LEMMA ScanFindsLast ==
    ASSUME NEW m \in Seq(Tokens)
    PROVE  \A i \in 1 .. Len(m) + 1 : LastFound(m, i)
<1> DEFINE S == {i \in 1 .. Len(m) + 1 : LastFound(m, i)}
<1>1. ASSUME NEW i \in 1 .. Len(m) + 1, \A k \in i + 1 .. Len(m) + 1 : LastFound(m, k)
      PROVE  LastFound(m, i)
  <2>1. CASE i = Len(m) + 1
    <3>1. Scan(m)[i] = <<>> /\ <<>> \in Seq(Seq(Tokens))
      BY <2>1, ScanEnds, EmptySeq
    <3>2. Reaches(m, i, 0)
      BY <2>1 DEF Reaches
    <3> QED BY <3>1, <3>2 DEF LastFound
  <2>2. CASE /\ i \in 1 .. Len(m)
             /\ \A e \in i .. Len(m) : ~Matches(m, i, e)
             /\ Scan(m)[i] = Scan(m)[i + 1]
    <3>1. LastFound(m, i + 1)
      BY <1>1, <2>2
    <3>2. \A b \in Nat : Reaches(m, i + 1, b) => Reaches(m, i, b)
      BY <2>2 DEF Reaches
    <3>3. CASE Scan(m)[i] = <<>>
      BY <2>2, <3>1, <3>2, <3>3 DEF LastFound
    <3>4. CASE Scan(m)[i] # <<>>
      <4>1. PICK a, b \in i + 1 .. Len(m) :
               /\ a <= b /\ Matches(m, a, b)
               /\ FinalOf(Scan(m)[i]) = SubSeq(m, a, b)
               /\ Reaches(m, i + 1, b)
        BY <2>2, <3>1, <3>4 DEF LastFound
      <4>2. a \in i .. Len(m) /\ b \in i .. Len(m) /\ b \in Nat
        OBVIOUS
      <4>3. Reaches(m, i, b)
        BY <3>2, <4>1, <4>2
      <4>4. Scan(m)[i] \in Seq(Seq(Tokens))
        BY <2>2, <3>1 DEF LastFound
      <4> QED BY <3>4, <4>1, <4>2, <4>3, <4>4, Zenon DEF LastFound
    <3> QED BY <3>3, <3>4
  <2>3. ASSUME NEW e \in i .. Len(m), i \in 1 .. Len(m), Matches(m, i, e),
               Scan(m)[i] = <<SubSeq(m, i, e)>> \o Scan(m)[e + 1]
        PROVE  LastFound(m, i)
    <3> DEFINE rest == Scan(m)[e + 1]
    <3>1. LastFound(m, e + 1)
      BY <1>1, <2>3
    <3>2. SubSeq(m, i, e) \in Seq(Tokens)
      BY <2>3, PartIsSeq
    <3>3. rest \in Seq(Seq(Tokens))
      BY <3>1 DEF LastFound
    <3>4. /\ Scan(m)[i] \in Seq(Seq(Tokens)) /\ Scan(m)[i] # <<>>
          /\ FinalOf(Scan(m)[i]) = IF rest = <<>> THEN SubSeq(m, i, e) ELSE FinalOf(rest)
      <4> HIDE DEF rest
      <4>1. Scan(m)[i] = <<SubSeq(m, i, e)>> \o rest
        BY <2>3 DEF rest
      <4> DEFINE x == SubSeq(m, i, e)
      <4> HIDE DEF x
      <4>2. x \in Seq(Tokens)
        BY <3>2 DEF x
      <4>3. /\ <<x>> \o rest \in Seq(Seq(Tokens)) /\ <<x>> \o rest # <<>>
            /\ FinalOf(<<x>> \o rest) = IF rest = <<>> THEN x ELSE FinalOf(rest)
        BY <3>3, <4>2, FinalOfConcat, Zenon
      <4> QED BY <4>1, <4>3 DEF x
    <3>5. CASE rest = <<>>
      <4>1. Reaches(m, e + 1, 0)
        BY <3>1, <3>5 DEF LastFound
      <4>2. Reaches(m, i, e)
        BY <2>3, <4>1 DEF Reaches
      <4>3. i \in i .. Len(m) /\ i <= e
        BY <2>3
      <4> QED BY <2>3, <3>4, <3>5, <4>2, <4>3, Zenon DEF LastFound
    <3>6. CASE rest # <<>>
      <4>1. PICK a, b \in e + 1 .. Len(m) :
               /\ a <= b /\ Matches(m, a, b)
               /\ FinalOf(rest) = SubSeq(m, a, b)
               /\ Reaches(m, e + 1, b)
        BY <3>1, <3>6 DEF LastFound
      <4>2. Reaches(m, i, b)
        BY <2>3, <4>1 DEF Reaches
      <4>3. a \in i .. Len(m) /\ b \in i .. Len(m)
        BY <2>3
      <4> QED BY <3>4, <3>6, <4>1, <4>2, <4>3, Zenon DEF LastFound
    <3> QED BY <3>5, <3>6
  <2>4. i # Len(m) + 1 => i \in 1 .. Len(m)
    OBVIOUS
  <2> QED BY <2>1, <2>2, <2>3, <2>4, ScanCases, Zenon
<1>2. \A i \in 1 .. Len(m) + 1 : (\A k \in i + 1 .. Len(m) + 1 : k \in S) => i \in S
  BY <1>1
<1>3. \A i \in 1 .. Len(m) + 1 : i \in S
  <2> HIDE DEF S
  <2>1. 1 \in Int /\ Len(m) + 1 \in Int
    OBVIOUS
  <2> QED BY <1>2, <2>1, Downward, Zenon
<1> QED
  BY <1>3

\* A balanced text of at most two levels at the end of the message is what the
\* scan finds last.
LEMMA ScanFindsEnd ==
    ASSUME NEW m \in Seq(Tokens), NEW p \in 1 .. Len(m), Matches(m, p, Len(m))
    PROVE  Scan(m)[1] # <<>> /\ FinalOf(Scan(m)[1]) = SubSeq(m, p, Len(m))
<1> DEFINE Reads(i) == /\ Scan(m)[i] \in Seq(Seq(Tokens)) /\ Scan(m)[i] # <<>>
                       /\ FinalOf(Scan(m)[i]) = SubSeq(m, p, Len(m))
           S == {i \in 1 .. p : Reads(i)}
<1>0. ASSUME NEW x \in Seq(Tokens), NEW s \in Seq(Seq(Tokens)), NEW i \in 1 .. p,
             Scan(m)[i] = <<x>> \o s,
             IF s = <<>> THEN x = SubSeq(m, p, Len(m)) ELSE FinalOf(s) = SubSeq(m, p, Len(m))
      PROVE  Reads(i)
  <2>1. /\ <<x>> \o s \in Seq(Seq(Tokens)) /\ <<x>> \o s # <<>>
        /\ FinalOf(<<x>> \o s) = IF s = <<>> THEN x ELSE FinalOf(s)
    BY FinalOfConcat, Zenon
  <2> QED BY <1>0, <2>1
<1>1. Reads(p)
  <2>1. \A e \in p .. Len(m) : Matches(m, p, e) => e = Len(m)
    BY DEF Matches, Balanced
  <2>2. PICK e \in p .. Len(m) : /\ Matches(m, p, e)
                                 /\ Scan(m)[p] = <<SubSeq(m, p, e)>> \o Scan(m)[e + 1]
    <3>1. Len(m) \in p .. Len(m)
      OBVIOUS
    <3> QED BY <3>1, ScanCases, Zenon
  <2>3. e = Len(m) /\ Scan(m)[e + 1] = <<>>
    BY <2>1, <2>2, ScanEnds
  <2>4. SubSeq(m, p, Len(m)) \in Seq(Tokens) /\ <<>> \in Seq(Seq(Tokens)) /\ p \in 1 .. p
    BY PartIsSeq, EmptySeq
  <2>5. Scan(m)[p] = <<SubSeq(m, p, Len(m))>> \o <<>>
    BY <2>2, <2>3, Zenon
  <2> QED BY <1>0, <2>4, <2>5, Zenon
<1>2. ASSUME NEW i \in 1 .. p, i # p, \A k \in i + 1 .. p : Reads(k) PROVE Reads(i)
  <2>1. CASE Scan(m)[i] = Scan(m)[i + 1]
    <3>1. Reads(i + 1)
      BY <1>2
    <3> QED BY <2>1, <3>1
  <2>2. ASSUME NEW e \in i .. Len(m), Matches(m, i, e),
               Scan(m)[i] = <<SubSeq(m, i, e)>> \o Scan(m)[e + 1]
        PROVE  Reads(i)
    <3>1. e < p
      <4> SUFFICES ASSUME e \in p .. Len(m) PROVE FALSE
        OBVIOUS
      <4>1. Balanced(m, p, Len(m), RegexBraces) /\ Balanced(m, i, e, RegexBraces)
        BY <2>2 DEF Matches
      <4>2. p \in Int /\ Len(m) \in Int /\ i \in Int /\ i < p
        BY <1>2
      <4> QED BY <4>1, <4>2, NothingClosesWithin, Zenon
    <3>2. Reads(e + 1)
      BY <1>2, <3>1
    <3>3. SubSeq(m, i, e) \in Seq(Tokens)
      BY PartIsSeq
    <3> QED BY <1>0, <2>2, <3>2, <3>3, Zenon
  <2>3. i \in 1 .. Len(m)
    OBVIOUS
  <2> QED BY <2>1, <2>2, <2>3, ScanCases, Zenon
<1>3. \A i \in 1 .. p : (\A k \in i + 1 .. p : k \in S) => i \in S
  BY <1>1, <1>2
<1>4. \A i \in 1 .. p : i \in S
  <2> HIDE DEF S
  <2>1. 1 \in Int /\ p \in Int
    OBVIOUS
  <2> QED BY <1>3, <2>1, Downward, Zenon
<1> QED
  BY <1>4

-----------------------------------------------------------------------------
(* What is read *)

\* _extract_last_json takes the last match.
LEMMA LastJsonIsFinal ==
    ASSUME NEW m
    PROVE  LastJson(m) = IF Scan(m)[1] = <<>> THEN <<>> ELSE FinalOf(Scan(m)[1])
  BY DEF LastJson, FindAll, FinalOf

\* It is a part of the message.
LEMMA LastJsonIsPart ==
    ASSUME NEW m \in Seq(Tokens), LastJson(m) # <<>>
    PROVE  \E a, b \in 1 .. Len(m) :
              /\ a <= b /\ Matches(m, a, b)
              /\ LastJson(m) = SubSeq(m, a, b)
              /\ Reaches(m, 1, b)
<1>1. LastFound(m, 1)
  BY ScanFindsLast
<1> QED
  BY <1>1, LastJsonIsFinal DEF LastFound

\* A part of a message nests as it does within the message.
LEMMA NestingInPart ==
    ASSUME NEW m \in Seq(Tokens), NEW a \in 1 .. Len(m), NEW b \in a .. Len(m), NEW i \in a .. b,
           NEW braces
    PROVE  Nesting(SubSeq(m, a, b), 1, i - a + 1, braces) = Nesting(m, a, i, braces)
<1>1. i - a + 1 \in 0 .. b - a + 1 /\ a + (i - a + 1) - 1 = i
  OBVIOUS
<1>2. \A kinds : Count(SubSeq(m, a, b), 1, i - a + 1, kinds) = Count(m, a, i, kinds)
  BY <1>1, CountInPart
<1> QED
  BY <1>2 DEF Nesting

\* An object is balanced where it stands.
LEMMA ObjectInPlace ==
    ASSUME NEW m \in Seq(Tokens), NEW a \in 1 .. Len(m), NEW b \in a .. Len(m),
           IsObject(SubSeq(m, a, b))
    PROVE  Balanced(m, a, b, JsonBraces)
<1> DEFINE o == SubSeq(m, a, b)
<1>1. Len(o) = b - a + 1 /\ o[1] = m[a]
  BY SubSeqProperties
<1>2. Balanced(o, 1, b - a + 1, JsonBraces)
  BY <1>1 DEF IsObject
<1>3. m[a] \in JsonBraces.open
  BY <1>1, <1>2 DEF Balanced
<1>4. ASSUME NEW i \in a .. b
      PROVE  /\ Nesting(m, a, i, JsonBraces) >= 0
             /\ (Nesting(m, a, i, JsonBraces) = 0) <=> (i = b)
  <2>1. Nesting(o, 1, i - a + 1, JsonBraces) = Nesting(m, a, i, JsonBraces)
    BY NestingInPart
  <2>2. i - a + 1 \in 1 .. b - a + 1 /\ (i - a + 1 = b - a + 1 <=> i = b)
    OBVIOUS
  <2> HIDE DEF o
  <2> QED BY <1>2, <2>1, <2>2 DEF Balanced
<1> QED
  BY <1>3, <1>4 DEF Balanced

\* A verdict of an object is one of its own tokens, in no object it nests.
LEMMA VerdictInPlace ==
    ASSUME NEW m \in Seq(Tokens), NEW a \in 1 .. Len(m), NEW b \in a .. Len(m),
           VerdictIn(SubSeq(m, a, b)) = "approve"
    PROVE  \E t \in a .. b : m[t] = "approve" /\ Nesting(m, a, t, JsonBraces) = 1
<1> DEFINE o == SubSeq(m, a, b)
           S == {0} \cup {i \in DOMAIN o : /\ o[i] \in {"approve", "comment"}
                                           /\ Nesting(o, 1, i, JsonBraces) = 1}
<1>1. DOMAIN o = 1 .. b - a + 1 /\ \A i \in 1 .. b - a + 1 : o[i] = m[a + i - 1]
  BY SubSeqProperties
<1>2. S \in SUBSET Nat /\ S # {} /\ b - a + 1 \in Nat /\ \A x \in S : x <= b - a + 1
  BY <1>1
<1>3. Max(S) \in S
  <2> HIDE DEF S
  <2> QED BY <1>2, MaxOfBounded
<1>4. Max(S) # 0 /\ o[Max(S)] = "approve"
  BY DEF VerdictIn
<1> DEFINE t == a + Max(S) - 1
<1>5. /\ Max(S) \in 1 .. b - a + 1
      /\ Nesting(o, 1, Max(S), JsonBraces) = 1
  BY <1>1, <1>3, <1>4
<1>6. t \in a .. b /\ t - a + 1 = Max(S) /\ m[t] = "approve"
  <2> HIDE DEF S, o
  <2> QED BY <1>1, <1>4, <1>5
<1>7. Nesting(o, 1, t - a + 1, JsonBraces) = Nesting(m, a, t, JsonBraces)
  <2> HIDE DEF t
  <2> QED BY <1>6, NestingInPart
<1> QED
  <2> HIDE DEF S, o, t
  <2> QED BY <1>5, <1>6, <1>7

\* Where no string holds a closing brace, the regular expression counts what JSON
\* counts and the opening braces in strings.
LEMMA NestingsDiffer ==
    ASSUME NEW m, NEW a \in Int, NEW b \in Int, \A i \in a .. b : m[i] # "quotedClose"
    PROVE  /\ Nesting(m, a, b, RegexBraces) =
                 Nesting(m, a, b, JsonBraces) + Count(m, a, b, {"quotedOpen"})
           /\ Nesting(m, a, b, JsonBraces) \in Int
           /\ Count(m, a, b, {"quotedOpen"}) \in Nat
<1>1. /\ RegexBraces.open = {"open"} \cup {"quotedOpen"}
      /\ RegexBraces.close = {"close"} \cup {"quotedClose"}
      /\ JsonBraces.open = {"open"} /\ JsonBraces.close = {"close"}
  BY DEF RegexBraces, JsonBraces
<1>2. /\ Count(m, a, b, {"open"} \cup {"quotedOpen"}) =
            Count(m, a, b, {"open"}) + Count(m, a, b, {"quotedOpen"})
      /\ Count(m, a, b, {"close"} \cup {"quotedClose"}) =
            Count(m, a, b, {"close"}) + Count(m, a, b, {"quotedClose"})
  <2>1. {"open"} \cap {"quotedOpen"} = {} /\ {"close"} \cap {"quotedClose"} = {}
    OBVIOUS
  <2> QED BY <2>1, CountUnion
<1>3. Count(m, a, b, {"quotedClose"}) = 0
  BY CountNone
<1>4. \A kinds : Count(m, a, b, kinds) \in Nat
  BY CountIsNat
<1> QED
  BY <1>1, <1>2, <1>3, <1>4 DEF Nesting

\* The brace that closes the object closes a match.
LEMMA EndMatches ==
    ASSUME NEW m \in Seq(Tokens), NEW start \in 1 .. Len(m),
           Balanced(m, start, Len(m), JsonBraces),
           \A i \in start .. Len(m) : Nesting(m, start, i, JsonBraces) <= 2,
           \A i \in start .. Len(m) : m[i] # "quotedClose"
    PROVE  \E p \in start .. Len(m) : Matches(m, p, Len(m))
<1> DEFINE L == Len(m)
           R(a, b) == Nesting(m, a, b, RegexBraces)
           J(a, b) == Nesting(m, a, b, JsonBraces)
           S == {i \in start .. L : R(i, L) >= 0}
<1>1. L \in Nat /\ start \in 1 .. L
  OBVIOUS
<1>2. \A a \in start .. L + 1 : R(a, L) >= J(a, L) /\ R(a, L) \in Int /\ J(a, L) \in Int
  BY NestingsDiffer
<1>3. \A a \in start .. L : R(a, L) = R(a, a) + R(a + 1, L) /\ R(a, a) \in Int
  <2> SUFFICES ASSUME NEW a \in start .. L
               PROVE  R(a, L) = R(a, a) + R(a + 1, L) /\ R(a, a) \in Int
    OBVIOUS
  <2>1. a \in Int /\ L \in Int /\ a <= L
    BY <1>1
  <2> QED BY <2>1, NestingFirst
<1>4. \A i \in start .. L : J(start, L) = J(start, i) + J(i + 1, L) /\ J(start, i) \in Int
  BY NestingSplit
<1>5. J(start, L) = 0 /\ \A i \in start .. L - 1 : J(start, i) > 0
  <2>1. \A i \in start .. L : J(start, i) \in Int
    BY <1>4
  <2> HIDE DEF J
  <2> QED BY <1>1, <2>1 DEF Balanced, J
<1>6. R(L, L) = -1
  <2>1. J(start, start) = 1
    BY NestingOne DEF Balanced
  <2>2. start # L
    BY <1>5, <2>1
  <2>3. J(start, L) = J(start, L - 1) + J(L, L)
    BY <2>2, NestingSplit
  <2>4. J(L, L) < 0
    BY <1>2, <1>5, <2>2, <2>3, <1>4
  <2>5. m[L] \in JsonBraces.close
    BY <2>4, NestingOne
  <2>6. m[L] \in RegexBraces.close /\ m[L] \notin RegexBraces.open
    BY <2>5 DEF JsonBraces, RegexBraces
  <2> QED BY <2>6, NestingOne
<1>7. S \in SUBSET Nat /\ start \in S /\ \A x \in S : x <= L
  BY <1>1, <1>2, <1>5
<1>8. Max(S) \in S /\ \A x \in S : x <= Max(S)
  <2> HIDE DEF S
  <2> QED BY <1>1, <1>7, MaxOfBounded
<1> DEFINE p == Max(S)
<1>9. p \in start .. L - 1 /\ R(p, L) >= 0 /\ \A i \in p + 1 .. L : R(i, L) < 0
  <2>1. p \in start .. L /\ R(p, L) >= 0
    BY <1>8
  <2>2. p # L
    BY <2>1, <1>6
  <2>3. ASSUME NEW i \in p + 1 .. L PROVE R(i, L) < 0
    <3>1. i \notin S /\ i \in start .. L
      BY <1>8, <2>1
    <3> QED BY <3>1, <1>2
  <2> HIDE DEF p, R
  <2> QED BY <2>1, <2>2, <2>3
<1> HIDE DEF p, S
<1>10. R(p, L) = 0 /\ m[p] \in RegexBraces.open
  <2>1. R(p, p) = IF m[p] \in RegexBraces.open THEN 1
                  ELSE IF m[p] \in RegexBraces.close THEN -1 ELSE 0
    BY <1>9, NestingOne
  <2>2. R(p, L) = R(p, p) + R(p + 1, L) /\ R(p + 1, L) < 0 /\ R(p + 1, L) \in Int
    BY <1>2, <1>3, <1>9
  <2> HIDE DEF R
  <2> QED BY <1>9, <2>1, <2>2
<1>11. ASSUME NEW i \in p .. L
       PROVE  R(p, i) >= 0 /\ (R(p, i) = 0 <=> i = L) /\ R(p, i) <= 2
  <2>1. CASE i = L
    BY <1>10, <2>1
  <2>2. CASE i # L
    <3>1. i \in start .. L - 1 /\ i + 1 \in p + 1 .. L /\ i + 1 \in start .. L + 1
      BY <1>9, <2>2
    <3>2. R(p, L) = R(p, i) + R(i + 1, L) /\ R(p, i) \in Int
      <4>1. p \in Int /\ i \in Int /\ L \in Int /\ p <= i + 1 /\ i <= L
        BY <1>1, <1>9, <3>1
      <4>2. \A q, k, l \in Int : q <= k + 1 /\ k <= l =>
               R(q, l) = R(q, k) + R(k + 1, l) /\ R(q, k) \in Int
        BY NestingSplit
      <4> QED BY <4>1, <4>2
    <3>3. R(i + 1, L) < 0 /\ R(i + 1, L) >= J(i + 1, L)
      BY <1>2, <1>9, <3>1
    <3>4. J(start, i) <= 2 /\ J(start, L) = J(start, i) + J(i + 1, L)
      BY <1>4, <3>1
    <3>5. R(i + 1, L) \in Int /\ J(i + 1, L) \in Int /\ J(start, i) \in Int
      BY <1>2, <1>4, <3>1
    <3> HIDE DEF R, J
    <3> QED BY <1>5, <1>10, <2>2, <3>2, <3>3, <3>4, <3>5
  <2> QED BY <2>1, <2>2
<1> QED
  <2>1. p \in start .. L
    BY <1>9
  <2> QED BY <1>10, <1>11, <2>1 DEF Matches, Balanced

\* An object holds a match: its first closing brace with the last one that opens
\* before it.
LEMMA ObjectHoldsMatch ==
    ASSUME NEW m \in Seq(Tokens), NEW start \in 1 .. Len(m),
           m[start] \in RegexBraces.open, m[Len(m)] \in RegexBraces.close
    PROVE  \E p \in start .. Len(m) : \E q \in p .. Len(m) : Matches(m, p, q)
<1> DEFINE C == {i \in start .. Len(m) : m[i] \in RegexBraces.close}
           q == Min(C)
           O == {i \in start .. q : m[i] \in RegexBraces.open}
           p == Max(O)
<1>1. C \in SUBSET Nat /\ Len(m) \in C
  OBVIOUS
<1>2. q \in C /\ \A i \in C : q <= i
  <2> HIDE DEF C
  <2> QED BY <1>1, MinOfNat
<1> HIDE DEF q
<1>3. O \in SUBSET Nat /\ start \in O /\ q \in Nat /\ \A i \in O : i <= q
  BY <1>2
<1>4. p \in O /\ \A i \in O : i <= p
  <2> HIDE DEF O
  <2> QED BY <1>3, MaxOfBounded
<1> HIDE DEF p
<1>5. m[q] \notin RegexBraces.open
  BY <1>2 DEF RegexBraces
<1>6. p \in start .. q - 1 /\ q <= Len(m) /\ p \in Int /\ q \in Int /\ m[p] \in RegexBraces.open
  BY <1>2, <1>3, <1>4, <1>5
<1>7. \A i \in p + 1 .. q - 1 : m[i] \notin RegexBraces.open /\ m[i] \notin RegexBraces.close
  BY <1>2, <1>4, <1>6
<1>8. ASSUME NEW i \in p .. q - 1 PROVE Nesting(m, p, i, RegexBraces) = 1
  <2>1. \A kinds : Count(m, p, i, kinds) = Count(m, p, p, kinds) + Count(m, p + 1, i, kinds)
    BY <1>6, CountSplit
  <2>2. /\ Count(m, p + 1, i, RegexBraces.open) = 0
        /\ Count(m, p + 1, i, RegexBraces.close) = 0
    BY <1>6, <1>7, CountNone
  <2>3. /\ Count(m, p, p, RegexBraces.open) = 1
        /\ Count(m, p, p, RegexBraces.close) = 0
    <3>1. m[p] \notin RegexBraces.close
      BY <1>6 DEF RegexBraces
    <3> QED BY <1>6, <3>1, CountOne
  <2> QED BY <2>1, <2>2, <2>3 DEF Nesting
<1>9. Nesting(m, p, q, RegexBraces) = 0
  <2>1. \A a, b, c \in Int : a <= b + 1 /\ b <= c =>
           Nesting(m, a, c, RegexBraces) =
              Nesting(m, a, b, RegexBraces) + Nesting(m, b + 1, c, RegexBraces)
    BY NestingSplit
  <2>2. /\ Nesting(m, p, q, RegexBraces) =
              Nesting(m, p, q - 1, RegexBraces) + Nesting(m, q, q, RegexBraces)
        /\ q - 1 \in p .. q - 1
    BY <1>6, <2>1
  <2>3. Nesting(m, q, q, RegexBraces) = -1
    BY <1>2, <1>5, <1>6, NestingOne
  <2> QED BY <1>8, <2>2, <2>3
<1>10. Matches(m, p, q)
  <2>1. \A i \in p .. q : i \in p .. q - 1 \/ i = q
    BY <1>6
  <2> QED BY <1>6, <1>8, <1>9, <2>1 DEF Matches, Balanced
<1> QED
  BY <1>6, <1>10

\* Such an object, and the facts about it in place.
LEMMA EndObject ==
    ASSUME TypeOK, NEW start \in DOMAIN message, EndsWithObject(start)
    PROVE  /\ message \in Seq(Tokens) /\ start \in 1 .. Len(message)
           /\ Balanced(message, start, Len(message), JsonBraces)
           /\ \A i \in start .. Len(message) : Nesting(message, start, i, JsonBraces) <= 2
<1> DEFINE L == Len(message)
           object == SubSeq(message, start, L)
<1>1. message \in Seq(Tokens) /\ start \in 1 .. L /\ L \in start .. L
  BY DEF TypeOK
<1>2. Balanced(message, start, L, JsonBraces)
  BY <1>1, ObjectInPlace DEF EndsWithObject
<1>3. ASSUME NEW i \in start .. L PROVE Nesting(message, start, i, JsonBraces) <= 2
  <2>1. Nesting(object, 1, i - start + 1, JsonBraces) = Nesting(message, start, i, JsonBraces)
    BY <1>1, NestingInPart
  <2>2. DOMAIN object = 1 .. L - start + 1
    BY <1>1, SubSeqProperties
  <2>3. i - start + 1 \in DOMAIN object
    <3> HIDE DEF object
    <3> QED BY <1>1, <2>2
  <2>4. Nesting(object, 1, i - start + 1, JsonBraces) <= 2
    BY <2>3 DEF EndsWithObject
  <2> QED BY <2>1, <2>4
<1> QED
  BY <1>1, <1>2, <1>3

\* The object at the end is found, when no string in it holds a brace.
LEMMA PlainVerdict == TypeOK => PlainVerdictIsRead
<1> SUFFICES ASSUME TypeOK, NEW start \in DOMAIN message, EndsWithObject(start),
                    \A i \in start .. Len(message) :
                       message[i] \notin {"quotedOpen", "quotedClose"}
             PROVE  LastJson(message) = SubSeq(message, start, Len(message))
  BY DEF PlainVerdictIsRead
<1> DEFINE m == message
           L == Len(message)
<1>1. /\ m \in Seq(Tokens) /\ start \in 1 .. L
      /\ Balanced(m, start, L, JsonBraces)
      /\ \A i \in start .. L : Nesting(m, start, i, JsonBraces) <= 2
  BY EndObject
<1>2. ASSUME NEW i \in start .. L
      PROVE  Nesting(m, start, i, RegexBraces) = Nesting(m, start, i, JsonBraces)
  <2>1. start \in Int /\ i \in Int /\ \A k \in start .. i : k \in start .. L
    BY <1>1
  <2>2. Count(m, start, i, {"quotedOpen"}) = 0
    BY <2>1, CountNone
  <2>3. /\ Nesting(m, start, i, RegexBraces) =
              Nesting(m, start, i, JsonBraces) + Count(m, start, i, {"quotedOpen"})
        /\ Nesting(m, start, i, JsonBraces) \in Int
    BY <2>1, NestingsDiffer
  <2> QED BY <2>2, <2>3
<1>3. m[start] \in RegexBraces.open
  BY <1>1 DEF Balanced, RegexBraces, JsonBraces
<1>4. Matches(m, start, L)
  BY <1>1, <1>2, <1>3 DEF Matches, Balanced
<1> QED
  BY <1>1, <1>4, ScanFindsEnd, LastJsonIsFinal

\* A rejection at the end is not read as an approval.
LEMMA NoFalseApproval == TypeOK => RejectionIsNoApproval
<1> SUFFICES ASSUME TypeOK, NEW start \in DOMAIN message, EndsWithObject(start),
                    VerdictIn(SubSeq(message, start, Len(message))) = "comment",
                    \/ \A i \in start .. Len(message) : message[i] # "quotedClose"
                    \/ \A i \in start .. Len(message) :
                          message[i] = "approve" => Nesting(message, start, i, JsonBraces) = 1,
                    Verdict(message) = "approve"
             PROVE  FALSE
  BY DEF RejectionIsNoApproval
<1> DEFINE m == message
           L == Len(message)
<1>1. /\ m \in Seq(Tokens) /\ start \in 1 .. L
      /\ Balanced(m, start, L, JsonBraces)
      /\ \A i \in start .. L : Nesting(m, start, i, JsonBraces) <= 2
  BY EndObject
<1>2. IsObject(LastJson(m)) /\ VerdictIn(LastJson(m)) = "approve"
  BY DEF Verdict
<1>3. CASE \A i \in start .. L : m[i] # "quotedClose"
  <2>1. PICK p \in start .. L : Matches(m, p, L)
    BY <1>1, <1>3, EndMatches
  <2>2. p \in 1 .. L /\ L \in p .. L
    BY <1>1
  <2>3. LastJson(m) = SubSeq(m, p, L)
    BY <1>1, <2>1, <2>2, ScanFindsEnd, LastJsonIsFinal
  <2>4. p # start
    BY <1>2, <2>3
  <2>5. Balanced(m, p, L, JsonBraces)
    BY <1>1, <1>2, <2>2, <2>3, ObjectInPlace
  <2>6. start \in Int /\ p \in Int /\ L \in Int /\ start < p
    BY <1>1, <2>1, <2>4
  <2> QED BY <1>1, <2>2, <2>5, <2>6, NothingClosesWithin, Zenon
<1>4. CASE \A i \in start .. L : m[i] = "approve" => Nesting(m, start, i, JsonBraces) = 1
  <2>1. PICK p \in start .. L : \E q \in p .. L : Matches(m, p, q)
    <3>1. m[start] \in RegexBraces.open
      BY <1>1 DEF Balanced, RegexBraces, JsonBraces
    <3>2. m[L] \in RegexBraces.close
      <4>1. start # L
        BY <1>1, NestingOne DEF Balanced
      <4>2. \A a, b, c \in Int : a <= b + 1 /\ b <= c =>
               /\ Nesting(m, a, c, JsonBraces) =
                     Nesting(m, a, b, JsonBraces) + Nesting(m, b + 1, c, JsonBraces)
               /\ Nesting(m, a, b, JsonBraces) \in Int
               /\ Nesting(m, b + 1, c, JsonBraces) \in Int
        BY NestingSplit
      <4>3. /\ Nesting(m, start, L, JsonBraces) =
                  Nesting(m, start, L - 1, JsonBraces) + Nesting(m, L, L, JsonBraces)
            /\ Nesting(m, start, L - 1, JsonBraces) \in Int
            /\ Nesting(m, L, L, JsonBraces) \in Int
        BY <1>1, <4>1, <4>2
      <4>4. Nesting(m, start, L, JsonBraces) = 0 /\ Nesting(m, start, L - 1, JsonBraces) > 0
        BY <1>1, <4>1, <4>3 DEF Balanced
      <4>5. Nesting(m, L, L, JsonBraces) < 0
        BY <4>3, <4>4
      <4>6. m[L] \in JsonBraces.close
        BY <1>1, <4>5, NestingOne
      <4> QED BY <4>6 DEF JsonBraces, RegexBraces
    <3> QED BY <1>1, <3>1, <3>2, ObjectHoldsMatch
  <2>2. LastJson(m) # <<>>
    BY <1>2 DEF IsObject
  <2>3. PICK a, b \in 1 .. L : /\ a <= b /\ LastJson(m) = SubSeq(m, a, b)
                               /\ Reaches(m, 1, b)
    BY <1>1, <2>2, LastJsonIsPart
  <2>4. b \in start .. L /\ b \in a .. L
    BY <1>1, <2>1, <2>3 DEF Reaches
  <2>5. Balanced(m, a, b, JsonBraces)
    BY <1>1, <1>2, <2>3, <2>4, ObjectInPlace
  <2>6. PICK t \in a .. b : m[t] = "approve" /\ Nesting(m, a, t, JsonBraces) = 1
    BY <1>1, <1>2, <2>3, <2>4, VerdictInPlace
  <2>7. CASE a < start
    <3>1. a \in Int /\ start \in Int /\ L \in Int
      BY <1>1
    <3> QED BY <1>1, <2>4, <2>5, <2>7, <3>1, NothingClosesWithin, Zenon
  <2>8. CASE a = start
    <3>1. b = L
      BY <1>1, <2>4, <2>5, <2>8 DEF Balanced
    <3> QED BY <1>2, <2>3, <2>8, <3>1
  <2>9. CASE a > start
    <3>1. t \in start .. L /\ a - 1 \in start .. L - 1
      BY <1>1, <2>4, <2>9
    <3>2. Nesting(m, start, t, JsonBraces) = 1
      BY <1>4, <2>6, <3>1
    <3>3. \A k, l, n \in Int : k <= l + 1 /\ l <= n =>
             /\ Nesting(m, k, n, JsonBraces) =
                   Nesting(m, k, l, JsonBraces) + Nesting(m, l + 1, n, JsonBraces)
             /\ Nesting(m, k, l, JsonBraces) \in Int
      BY NestingSplit
    <3>4. /\ Nesting(m, start, t, JsonBraces) =
                Nesting(m, start, a - 1, JsonBraces) + Nesting(m, a, t, JsonBraces)
          /\ Nesting(m, start, a - 1, JsonBraces) \in Int
      <4>1. /\ start \in Int /\ a - 1 \in Int /\ t \in Int /\ start <= (a - 1) + 1
            /\ a - 1 <= t /\ (a - 1) + 1 = a
        BY <1>1, <2>4, <2>9, <3>1
      <4>2. /\ Nesting(m, start, t, JsonBraces) =
                  Nesting(m, start, a - 1, JsonBraces) + Nesting(m, (a - 1) + 1, t, JsonBraces)
            /\ Nesting(m, start, a - 1, JsonBraces) \in Int
        BY <3>3, <4>1, Zenon
      <4> QED BY <4>1, <4>2
    <3>5. Nesting(m, start, a - 1, JsonBraces) > 0
      BY <1>1, <3>1, <3>4 DEF Balanced
    <3> QED BY <2>6, <3>2, <3>4, <3>5
  <2>10. a \in Int /\ start \in Int
    BY <1>1
  <2> QED BY <2>7, <2>8, <2>9, <2>10
<1> QED
  BY <1>3, <1>4

-----------------------------------------------------------------------------
(* Theorems about the message *)

\* When the message ends with an object of the shape the prompt asks for, that
\* object is the one _extract_last_json returns.
THEOREM AskedForVerdictIsRead == Spec => []PlainVerdictIsRead
  BY PlainVerdict, Inductive, PTL DEF IndInv

\* A message that ends with a rejection never passes for an approval in
\* _parse_verdict.
THEOREM RejectionsStand == Spec => []RejectionIsNoApproval
  BY NoFalseApproval, Inductive, PTL DEF IndInv

\* _execute goes on to push only when the reviewer's message holds an object that
\* approves.
THEOREM ApprovalsWereSaid == Spec => ApprovalWasSaid
<1>1. ASSUME IndInv, [Next]_vars
      PROVE  [phase' = "accepted" =>
                 \E i, k \in DOMAIN message :
                    /\ IsObject(SubSeq(message, i, k))
                    /\ VerdictIn(SubSeq(message, i, k)) = "approve"]_vars
  <2> SUFFICES ASSUME Next, phase' = "accepted"
               PROVE  \E i, k \in DOMAIN message :
                         /\ IsObject(SubSeq(message, i, k))
                         /\ VerdictIn(SubSeq(message, i, k)) = "approve"
    BY <1>1
  <2>1. Judge /\ Verdict(message) = "approve"
    BY DEF Next, Emit, End, CannotStart, CoderDone, RunGate, GatesDone, ReviewerDone, Say, Judge,
           Calling, GoOn, Raise
  <2>2. /\ IsObject(LastJson(message)) /\ VerdictIn(LastJson(message)) = "approve"
        /\ LastJson(message) # <<>>
    BY <2>1 DEF Verdict, IsObject
  <2>3. message \in Seq(Tokens)
    BY <1>1 DEF IndInv, TypeOK
  <2>4. PICK a, b \in 1 .. Len(message) : LastJson(message) = SubSeq(message, a, b)
    BY <2>2, <2>3, LastJsonIsPart
  <2>5. a \in DOMAIN message /\ b \in DOMAIN message
    BY <2>3
  <2> QED BY <2>2, <2>4, <2>5
<1> QED
  BY <1>1, Inductive, PTL DEF Spec, ApprovalWasSaid
=============================================================================
