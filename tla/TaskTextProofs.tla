---------------------------- MODULE TaskTextProofs ----------------------------
(***************************************************************************)
(* Theorems about TaskText: the slugs, for titles of any length, numbers   *)
(* of any size that leaves room for a name, and any max_len; and the       *)
(* description in the coder's prompt, for pages of any size, requests of   *)
(* any size and any max_depth.                                             *)
(***************************************************************************)
EXTENDS TaskText, DataLemmas

-----------------------------------------------------------------------------
(* Stripping *)

\* The characters of a slug: those of titles, and the T of the prefix.
SlugChars == Chars \cup {"T"}

\* strip("-") cuts a text between its first and its last character that is no dash.
LEMMA StripKeeps ==
    ASSUME NEW s \in Seq(SlugChars), NEW i \in 1 .. Len(s), s[i] # "-"
    PROVE  \E a \in 1 .. i : \E b \in i .. Len(s) :
              /\ Strip(s) = SubSeq(s, a, b)
              /\ s[a] # "-" /\ s[b] # "-"
              /\ \A k \in 1 .. a - 1 : s[k] = "-"
<1> DEFINE kept == {k \in DOMAIN s : s[k] # "-"}
<1>1. /\ kept \in SUBSET Nat /\ i \in kept /\ Len(s) \in Nat
      /\ \A k \in kept : k \in 1 .. Len(s) /\ k <= Len(s) /\ s[k] # "-"
      /\ \A k \in 1 .. Len(s) : k \notin kept => s[k] = "-"
  OBVIOUS
<1>2. PICK a \in kept : a = Min(kept) /\ \A k \in kept : a <= k
  BY <1>1, MinOfNat
<1>3. PICK b \in kept : b = Max(kept) /\ \A k \in kept : k <= b
  BY <1>1, MaxOfBounded
<1>4. Strip(s) = SubSeq(s, a, b)
  BY <1>1, <1>2, <1>3 DEF Strip
<1> HIDE DEF kept
<1>5. a \in 1 .. i /\ b \in i .. Len(s)
  BY <1>1, <1>2, <1>3
<1>6. \A k \in 1 .. a - 1 : s[k] = "-"
  <2> SUFFICES ASSUME NEW k \in 1 .. a - 1, k \in kept PROVE FALSE
    BY <1>1, <1>5
  <2> QED BY <1>1, <1>2
<1> QED
  BY <1>1, <1>4, <1>5, <1>6

\* Of dashes alone nothing is left.
LEMMA StripNothing ==
    ASSUME NEW s \in Seq(SlugChars), \A i \in 1 .. Len(s) : s[i] = "-"
    PROVE  Strip(s) = <<>>
  BY DEF Strip

-----------------------------------------------------------------------------
(* Collapsing *)

\* The definition of Collapsed, as a function of itself.
Grow(f, s, n) == IF n = 0 THEN <<>> ELSE AppendOnce(f[n - 1], s[n])

\* There is such a function, and it is the one the model takes.
LEMMA CollapsedEquation ==
    ASSUME NEW s \in Seq(SlugChars), NEW n \in 0 .. Len(s)
    PROVE  Collapsed(s)[n] = Grow(Collapsed(s), s, n)
<1> DEFINE A == Seq(SlugChars)
           L == Len(s)
           none == <<>>
           step == [k \in 1 .. L |-> [t \in A |-> AppendOnce(t, s[k])]]
<1>1. L \in Nat /\ none \in A
  OBVIOUS
<1>2. step \in [1 .. L -> [A -> A]]
  <2>1. ASSUME NEW k \in 1 .. L, NEW t \in A PROVE AppendOnce(t, s[k]) \in A
    <3>1. Append(t, s[k]) \in A
      OBVIOUS
    <3> QED BY <3>1 DEF AppendOnce
  <2> HIDE DEF A, L
  <2> QED BY <2>1
<1>3. PICK g : Iterates(g, A, L, none, step)
  <2> HIDE DEF step, L, A, none
  <2> QED BY <1>1, <1>2, Iterated, Zenon
<1>4. g = [k \in 0 .. L |-> Grow(g, s, k)]
  <2>1. g \in [0 .. L -> A] /\ g[0] = none /\ \A k \in 1 .. L : g[k] = step[k][g[k - 1]]
    BY <1>3 DEF Iterates
  <2>2. ASSUME NEW k \in 0 .. L, k # 0 PROVE g[k] = Grow(g, s, k)
    <3>1. k \in 1 .. L /\ k - 1 \in 0 .. L
      BY <1>1, <2>2
    <3>2. g[k] = step[k][g[k - 1]] /\ g[k - 1] \in A
      BY <2>1, <3>1
    <3>3. step[k] = [t \in A |-> AppendOnce(t, s[k])]
      BY <3>1
    <3> HIDE DEF step, A
    <3> QED BY <2>2, <3>2, <3>3 DEF Grow
  <2>3. g[0] = Grow(g, s, 0)
    BY <2>1 DEF Grow
  <2> HIDE DEF A, step
  <2> QED BY <2>1, <2>2, <2>3
<1>5. Collapsed(s) = CHOOSE f : f = [k \in 0 .. L |-> Grow(f, s, k)]
  BY DEF Collapsed, Grow
<1>6. Collapsed(s) = [k \in 0 .. L |-> Grow(Collapsed(s), s, k)]
  BY <1>4, <1>5
<1> QED
  BY <1>6

\* No dash follows a dash.
Tidy(s) == \A i \in 2 .. Len(s) : s[i] = "-" => s[i - 1] # "-"

\* What AppendOnce keeps: the first character, the last one, tidiness.
LEMMA AppendOnceTidy ==
    ASSUME NEW s \in Seq(SlugChars), Tidy(s), NEW c \in SlugChars
    PROVE  LET t == AppendOnce(s, c)
           IN  /\ t \in Seq(SlugChars) /\ t # <<>> /\ Tidy(t)
               /\ t[1] = IF s = <<>> THEN c ELSE s[1]
               /\ Last(t) = c
<1>1. CASE c = "-" /\ s # <<>> /\ Last(s) = "-"
  BY <1>1 DEF AppendOnce
<1>2. CASE ~(c = "-" /\ s # <<>> /\ Last(s) = "-")
  <2>1. AppendOnce(s, c) = Append(s, c)
    BY <1>2 DEF AppendOnce
  <2>2. /\ Append(s, c) \in Seq(SlugChars) /\ Append(s, c) # <<>>
        /\ Len(Append(s, c)) = Len(s) + 1 /\ Len(s) \in Nat
        /\ \A i \in 1 .. Len(s) : Append(s, c)[i] = s[i]
        /\ Append(s, c)[Len(s) + 1] = c
    OBVIOUS
  <2>3. s = <<>> \/ Len(s) >= 1
    OBVIOUS
  <2>4. Tidy(Append(s, c))
    <3> SUFFICES ASSUME NEW i \in 2 .. Len(s) + 1, Append(s, c)[i] = "-"
                 PROVE  Append(s, c)[i - 1] # "-"
      BY <2>2 DEF Tidy
    <3>1. CASE i <= Len(s)
      BY <2>2, <3>1 DEF Tidy
    <3>2. CASE i = Len(s) + 1
      BY <1>2, <2>2, <3>2 DEF Last
    <3> QED BY <2>2, <3>1, <3>2
  <2> QED BY <2>1, <2>2, <2>3, <2>4 DEF Last
<1> QED
  BY <1>1, <1>2

\* A collapsed text is tidy and begins and ends as the text does.
LEMMA CollapsedTidy ==
    ASSUME NEW s \in Seq(SlugChars), NEW n \in 0 .. Len(s)
    PROVE  LET t == Collapsed(s)[n]
           IN  /\ t \in Seq(SlugChars) /\ Tidy(t)
               /\ n = 0 => t = <<>>
               /\ n # 0 => t # <<>> /\ t[1] = s[1] /\ Last(t) = s[n]
<1> DEFINE Good(k) == LET t == Collapsed(s)[k]
                      IN  /\ t \in Seq(SlugChars) /\ Tidy(t)
                          /\ k = 0 => t = <<>>
                          /\ k # 0 => t # <<>> /\ t[1] = s[1] /\ Last(t) = s[k]
           S == {k \in 0 .. Len(s) : Good(k)}
<1>1. 0 \in S
  <2>1. Collapsed(s)[0] = <<>>
    BY CollapsedEquation DEF Grow
  <2>2. <<>> \in Seq(SlugChars) /\ Tidy(<<>>) /\ 0 \in 0 .. Len(s)
    BY DEF Tidy
  <2> QED BY <2>1, <2>2
<1>2. ASSUME NEW k \in 0 .. Len(s) - 1, k \in S PROVE k + 1 \in S
  <2>1. Collapsed(s)[k + 1] = AppendOnce(Collapsed(s)[k], s[k + 1])
    BY CollapsedEquation DEF Grow
  <2>2. s[k + 1] \in SlugChars
    OBVIOUS
  <2>3. Collapsed(s)[k] \in Seq(SlugChars) /\ Tidy(Collapsed(s)[k])
    BY <1>2
  <2> DEFINE u == Collapsed(s)[k]
             t == AppendOnce(u, s[k + 1])
  <2>4. /\ t \in Seq(SlugChars) /\ t # <<>> /\ Tidy(t)
        /\ t[1] = IF u = <<>> THEN s[k + 1] ELSE u[1]
        /\ Last(t) = s[k + 1]
    BY <2>2, <2>3, AppendOnceTidy
  <2>5. (k = 0 => u = <<>>) /\ (k # 0 => u # <<>> /\ u[1] = s[1])
    BY <1>2
  <2> HIDE DEF u, t
  <2>6. t[1] = s[1]
    BY <2>4, <2>5
  <2>7. Good(k + 1)
    BY <2>1, <2>4, <2>6 DEF u, t
  <2> QED BY <2>7
<1>3. \A k \in 0 .. Len(s) : k \in S
  <2>1. Len(s) \in Nat
    OBVIOUS
  <2> HIDE DEF S
  <2> QED BY <1>1, <1>2, <2>1, Upward, Zenon
<1> QED
  BY <1>3

-----------------------------------------------------------------------------
(* The parts of a slug *)

\* What goes into a slug as a name: nonempty, no dash first or repeated.
Named(s) == s \in Seq(SlugChars) /\ s # <<>> /\ s[1] # "-" /\ Tidy(s)

\* Dashed replaces characters one for one.
LEMMA DashedIsSeq ==
    ASSUME NEW s \in Seq(Chars)
    PROVE  Dashed(s) \in Seq(SlugChars) /\ \A i \in 1 .. Len(Dashed(s)) : Dashed(s)[i] \in Chars
  BY DEF Dashed, SlugChars, Chars

\* A sanitized title is empty or a name, and one without a capital T in front.
LEMMA SanitizedIsName ==
    ASSUME NEW s \in Seq(Chars)
    PROVE  /\ Sanitized(s) \in Seq(SlugChars)
           /\ Sanitized(s) # <<>> => Named(Sanitized(s)) /\ Sanitized(s)[1] # "T"
<1> DEFINE d == Dashed(s)
           t == Strip(d)
<1>0. /\ d \in Seq(SlugChars) /\ Len(d) \in Nat
      /\ \A k \in 1 .. Len(d) : d[k] \in Chars /\ d[k] \in SlugChars
  BY DashedIsSeq DEF SlugChars
<1>1. CASE \A i \in 1 .. Len(d) : d[i] = "-"
  <2>1. t = <<>>
    BY <1>0, <1>1, StripNothing
  <2>2. t \in Seq(SlugChars) /\ 0 \in 0 .. Len(t) /\ Len(t) = 0
    BY <2>1
  <2>3. Collapsed(t)[0] = <<>>
    BY <2>2, CollapsedTidy
  <2> QED BY <2>2, <2>3 DEF Sanitized
<1>2. CASE \E i \in 1 .. Len(d) : d[i] # "-"
  <2>1. PICK i \in 1 .. Len(d) : d[i] # "-"
    BY <1>2
  <2>2. PICK a \in 1 .. i, b \in i .. Len(d) : t = SubSeq(d, a, b) /\ d[a] # "-"
    BY <1>0, <2>1, StripKeeps
  <2> HIDE DEF d
  <2>3. /\ SubSeq(d, a, b) \in Seq(SlugChars)
        /\ Len(SubSeq(d, a, b)) = b - a + 1
        /\ SubSeq(d, a, b)[1] = d[a]
    <3>1. a \in Int /\ b \in Int /\ a <= b /\ \A k \in a .. b : d[k] \in SlugChars
      BY <1>0, <2>1, <2>2
    <3> QED BY <3>1, SubSeqProperties
  <2> HIDE DEF t
  <2>4. t \in Seq(SlugChars) /\ Len(t) \in 0 .. Len(t) /\ Len(t) # 0 /\ t[1] = d[a]
    BY <1>0, <2>1, <2>2, <2>3
  <2>5. Sanitized(s) = Collapsed(t)[Len(t)]
    BY DEF Sanitized, t, d
  <2>6. /\ Sanitized(s) \in Seq(SlugChars) /\ Tidy(Sanitized(s))
        /\ Sanitized(s) # <<>> /\ Sanitized(s)[1] = t[1]
    BY <2>4, <2>5, CollapsedTidy
  <2>7. d[a] \in Chars
    BY <1>0, <2>1, <2>2
  <2> QED BY <2>2, <2>4, <2>6, <2>7 DEF Named, Chars
<1> QED
  BY <1>1, <1>2

\* The prefix T-<number>- character by character.
LEMMA PrefixParts ==
    ASSUME NEW n \in Nat
    PROVE  /\ Prefix(n) \in Seq(SlugChars)
           /\ Len(Prefix(n)) = IF n = 0 THEN 0 ELSE n + 3
           /\ n # 0 => /\ Prefix(n)[1] = "T" /\ Prefix(n)[2] = "-" /\ Prefix(n)[n + 3] = "-"
                       /\ \A i \in 3 .. n + 2 : Prefix(n)[i] = "1"
<1>1. CASE n = 0
  BY <1>1 DEF Prefix
<1>2. CASE n # 0
  <2>1. Digits(n) \in Seq(SlugChars) /\ Len(Digits(n)) = n /\ \A i \in 1 .. n : Digits(n)[i] = "1"
    BY DEF Digits, SlugChars, Chars
  <2>2. <<"T", "-">> \in Seq(SlugChars) /\ <<"-">> \in Seq(SlugChars)
    BY DEF SlugChars, Chars
  <2> DEFINE p == <<"T", "-">> \o Digits(n)
  <2>3. /\ p \in Seq(SlugChars) /\ Len(p) = n + 2
        /\ p[1] = "T" /\ p[2] = "-"
        /\ \A i \in 3 .. n + 2 : p[i] = "1"
    BY <2>1, <2>2
  <2>4. Prefix(n) = p \o <<"-">>
    BY <1>2 DEF Prefix
  <2> HIDE DEF p
  <2> QED BY <1>2, <2>2, <2>3, <2>4
<1> QED
  BY <1>1, <1>2

\* The title's part is a name, and fits.
LEMMA BodyIsName ==
    ASSUME NEW n \in 0 .. MaxDigits, NEW s \in Seq(Chars)
    PROVE  /\ Named(Body(n, s)) /\ Body(n, s)[1] # "T"
           /\ Len(Prefix(n)) + Len(Body(n, s)) <= MaxLen
<1> DEFINE room == MaxLen - Len(Prefix(n))
           name == Sanitized(s)
           cut  == SubSeq(name, 1, Min({Len(name), room}))
<1>1. room \in Nat /\ room >= 4 /\ Len(Prefix(n)) \in Nat /\ MaxLen \in Nat
  <2>1. MaxDigits \in Nat /\ MaxLen \in Nat /\ MaxDigits + 7 <= MaxLen /\ n \in Nat
    BY SizesAssumption, PrefixFits
  <2>2. Len(Prefix(n)) = IF n = 0 THEN 0 ELSE n + 3
    BY <2>1, PrefixParts
  <2> QED BY <2>1, <2>2
<1>2. Named(Fallback) /\ Len(Fallback) = 4 /\ Fallback[1] # "T"
  BY DEF Named, Fallback, Tidy, SlugChars, Chars
<1>3. Body(n, s) = IF cut = <<>> THEN Fallback ELSE cut
  BY DEF Body
<1>4. ASSUME cut # <<>>
      PROVE  Named(cut) /\ cut[1] # "T" /\ Len(cut) <= room
  <2>1. name \in Seq(SlugChars) /\ Len(name) \in Nat
    BY SanitizedIsName
  <2>2. PICK k \in {Len(name), room} :
           k = Min({Len(name), room}) /\ k <= Len(name) /\ k <= room
    <3>1. {Len(name), room} \in SUBSET Nat /\ {Len(name), room} # {}
      BY <1>1, <2>1
    <3> HIDE DEF name, room
    <3>2. /\ Min({Len(name), room}) \in {Len(name), room}
          /\ \A x \in {Len(name), room} : Min({Len(name), room}) <= x
      BY <3>1, MinOfNat, Zenon
    <3> QED BY <3>2
  <2>3. cut = SubSeq(name, 1, k) /\ k \in Nat
    BY <1>1, <2>1, <2>2
  <2> HIDE DEF cut, name, room
  <2>4. k # 0
    BY <1>4, <2>3
  <2>5. /\ cut \in Seq(SlugChars) /\ Len(cut) = k
        /\ \A i \in 1 .. k : cut[i] = name[i]
    <3>1. \A i \in 1 .. k : name[i] \in SlugChars
      BY <2>1, <2>2, <2>3
    <3> QED BY <2>3, <2>4, <3>1, SubSeqProperties
  <2>6. name # <<>>
    BY <2>1, <2>2, <2>3, <2>4
  <2>7. Named(name) /\ name[1] # "T"
    BY <2>6, SanitizedIsName DEF name
  <2>8. cut[1] = name[1] /\ k <= room
    BY <2>2, <2>3, <2>4, <2>5
  <2>9. Tidy(cut)
    <3> SUFFICES ASSUME NEW i \in 2 .. k, cut[i] = "-" PROVE cut[i - 1] # "-"
      BY <2>5 DEF Tidy
    <3>1. cut[i] = name[i] /\ cut[i - 1] = name[i - 1] /\ i \in 2 .. Len(name)
      BY <2>1, <2>2, <2>3, <2>5
    <3> QED BY <2>7, <3>1 DEF Named, Tidy
  <2> QED BY <1>4, <2>5, <2>7, <2>8, <2>9 DEF Named
<1>5. Len(Prefix(n)) + room = MaxLen
  BY <1>1
<1> HIDE DEF cut, room
<1>6. CASE cut = <<>>
  <2>1. Body(n, s) = Fallback
    BY <1>3, <1>6
  <2>2. Len(Prefix(n)) + 4 <= MaxLen
    BY <1>1, <1>5
  <2> QED BY <1>2, <2>1, <2>2, Zenon
<1>7. CASE cut # <<>>
  <2>1. Len(cut) \in Nat
    BY <1>4, <1>7 DEF Named
  <2> QED BY <1>1, <1>3, <1>4, <1>5, <1>7, <2>1
<1> QED
  BY <1>6, <1>7

-----------------------------------------------------------------------------
(* The slug *)

\* A slug is the prefix and, behind it, a part of the body that reaches at least to
\* its first character.
LEMMA SlugParts ==
    ASSUME NEW n \in 0 .. MaxDigits, NEW s \in Seq(Chars)
    PROVE  \E k \in Len(Prefix(n)) + 1 .. MaxLen :
              /\ Slug(n, s) \in Seq(SlugChars) /\ Len(Slug(n, s)) = k
              /\ \A i \in 1 .. Len(Prefix(n)) : Slug(n, s)[i] = Prefix(n)[i]
              /\ \A i \in Len(Prefix(n)) + 1 .. k :
                    Slug(n, s)[i] = Body(n, s)[i - Len(Prefix(n))]
              /\ k - Len(Prefix(n)) <= Len(Body(n, s))
              /\ Slug(n, s)[k] # "-"
<1> DEFINE p == Prefix(n)
           b == Body(n, s)
           t == p \o b
<1>1. /\ n \in Nat /\ MaxLen \in Nat
      /\ p \in Seq(SlugChars) /\ Len(p) \in Nat /\ Len(p) = IF n = 0 THEN 0 ELSE n + 3
      /\ n # 0 => p[1] = "T"
  <2>1. n \in Nat /\ MaxLen \in Nat
    BY SizesAssumption
  <2>2. /\ p \in Seq(SlugChars) /\ Len(p) = IF n = 0 THEN 0 ELSE n + 3
        /\ n # 0 => p[1] = "T"
    BY <2>1, PrefixParts
  <2> HIDE DEF p
  <2> QED BY <2>1, <2>2
<1>2. b \in Seq(SlugChars) /\ Len(b) \in Nat \ {0} /\ b[1] # "-" /\ Len(p) + Len(b) <= MaxLen
  BY BodyIsName DEF Named
<1>3. Slug(n, s) = Strip(t)
  BY DEF Slug
<1> HIDE DEF p, b
<1>4. /\ t \in Seq(SlugChars) /\ Len(t) = Len(p) + Len(b)
      /\ \A i \in 1 .. Len(p) : t[i] = p[i]
      /\ \A i \in Len(p) + 1 .. Len(t) : t[i] = b[i - Len(p)]
  BY <1>1, <1>2
<1>5. t[1] # "-" /\ t[Len(p) + 1] # "-" /\ Len(p) + 1 \in 1 .. Len(t)
  BY <1>1, <1>2, <1>4
<1> HIDE DEF t
<1>6. PICK c \in 1 .. Len(p) + 1, k \in Len(p) + 1 .. Len(t) :
         /\ Strip(t) = SubSeq(t, c, k)
         /\ t[k] # "-"
         /\ \A i \in 1 .. c - 1 : t[i] = "-"
  BY <1>4, <1>5, StripKeeps
<1>7. c = 1
  <2> SUFFICES ASSUME c # 1 PROVE FALSE
    OBVIOUS
  <2>1. 1 \in 1 .. c - 1
    BY <1>1
  <2> QED BY <1>5, <1>6, <2>1
<1>8. k \in Nat /\ k >= 1 /\ k <= Len(t)
  BY <1>1, <1>2, <1>4, <1>6
<1>9. /\ SubSeq(t, 1, k) \in Seq(SlugChars) /\ Len(SubSeq(t, 1, k)) = k
      /\ \A i \in 1 .. k : SubSeq(t, 1, k)[i] = t[i]
  <2>1. \A i \in 1 .. k : t[i] \in SlugChars
    BY <1>4, <1>8
  <2> QED BY <1>8, <2>1, SubSeqProperties
<1>10. Slug(n, s) = SubSeq(t, 1, k)
  BY <1>3, <1>6, <1>7
<1> DEFINE slg == Slug(n, s)
<1> HIDE DEF slg
<1>11. /\ k \in Len(p) + 1 .. MaxLen
       /\ slg \in Seq(SlugChars) /\ Len(slg) = k
       /\ \A i \in 1 .. Len(p) : slg[i] = p[i]
       /\ \A i \in Len(p) + 1 .. k : slg[i] = b[i - Len(p)]
       /\ k - Len(p) <= Len(b)
       /\ slg[k] # "-"
  BY <1>1, <1>2, <1>4, <1>6, <1>8, <1>9, <1>10 DEF slg
<1> QED
  BY <1>11 DEF slg, p, b

SlugTidy(s) == /\ s # <<>> /\ Len(s) <= MaxLen
               /\ s[1] # "-" /\ Last(s) # "-"
               /\ \A i \in 2 .. Len(s) : s[i] = "-" => s[i - 1] # "-"

\* A slug is a name.
LEMMA SlugsAreTidy ==
    ASSUME NEW n \in 0 .. MaxDigits, NEW s \in Seq(Chars)
    PROVE  SlugTidy(Slug(n, s))
<1> DEFINE p == Prefix(n)
           b == Body(n, s)
           t == Slug(n, s)
<1>1. PICK k \in Len(p) + 1 .. MaxLen :
         /\ t \in Seq(SlugChars) /\ Len(t) = k
         /\ \A i \in 1 .. Len(p) : t[i] = p[i]
         /\ \A i \in Len(p) + 1 .. k : t[i] = b[i - Len(p)]
         /\ k - Len(p) <= Len(b)
         /\ t[k] # "-"
  BY SlugParts
<1>2. n \in Nat /\ MaxLen \in Nat
  BY SizesAssumption
<1>3. /\ Len(p) = IF n = 0 THEN 0 ELSE n + 3
      /\ n # 0 => /\ p[1] = "T" /\ p[2] = "-"
                  /\ \A i \in 3 .. n + 2 : p[i] = "1"
  BY <1>2, PrefixParts
<1>4. b # <<>> /\ b[1] # "-" /\ Tidy(b) /\ Len(b) \in Nat
  BY BodyIsName DEF Named
<1> HIDE DEF p, b, t
<1>5. Len(p) \in Nat /\ k \in Nat
  BY <1>1, <1>2, <1>3
<1>6. t[1] # "-" /\ t # <<>>
  BY <1>1, <1>2, <1>3, <1>4, <1>5
<1>7. ASSUME NEW i \in 2 .. k, t[i] = "-" PROVE t[i - 1] # "-"
  <2>1. CASE i <= Len(p)
    <3>1. p[i] = "-" /\ t[i - 1] = p[i - 1] /\ n # 0 /\ i \in 2 .. n + 3
      BY <1>1, <1>2, <1>3, <1>5, <1>7, <2>1
    <3>2. i = 2 \/ i = n + 3
      BY <1>2, <1>3, <3>1
    <3>3. p[i - 1] = "T" \/ p[i - 1] = "1"
      BY <1>2, <1>3, <3>1, <3>2
    <3> QED BY <3>1, <3>3
  <2>2. CASE i = Len(p) + 1
    BY <1>1, <1>4, <1>5, <1>7, <2>2
  <2>3. CASE i > Len(p) + 1
    <3>1. /\ i - Len(p) \in 2 .. Len(b)
          /\ b[i - Len(p)] = "-" /\ t[i - 1] = b[(i - Len(p)) - 1]
      BY <1>1, <1>4, <1>5, <1>7, <2>3
    <3> QED BY <1>4, <3>1 DEF Tidy
  <2> QED BY <1>5, <2>1, <2>2, <2>3
<1> QED
  BY <1>1, <1>2, <1>5, <1>6, <1>7 DEF SlugTidy, Last, t

\* The number can be read off a slug.
LEMMA SlugTellsNumber ==
    ASSUME NEW n \in 0 .. MaxDigits, NEW s \in Seq(Chars)
    PROVE  NumberIn(Slug(n, s)) = n
<1> DEFINE p == Prefix(n)
           b == Body(n, s)
           t == Slug(n, s)
<1>1. PICK k \in Len(p) + 1 .. MaxLen :
         /\ t \in Seq(SlugChars) /\ Len(t) = k
         /\ \A i \in 1 .. Len(p) : t[i] = p[i]
         /\ \A i \in Len(p) + 1 .. k : t[i] = b[i - Len(p)]
         /\ k - Len(p) <= Len(b)
         /\ t[k] # "-"
  BY SlugParts
<1>2. n \in Nat /\ MaxLen \in Nat
  BY SizesAssumption
<1>3. /\ Len(p) = IF n = 0 THEN 0 ELSE n + 3
      /\ n # 0 => /\ p[1] = "T" /\ p[2] = "-" /\ p[n + 3] = "-"
                  /\ \A i \in 3 .. n + 2 : p[i] = "1"
  BY <1>2, PrefixParts
<1>4. b[1] # "T"
  BY BodyIsName
<1> DEFINE ones == {i \in 3 .. Len(t) : \A j \in 3 .. i : t[j] = "1"}
<1>5. NumberIn(t) = IF t[1] # "T" THEN 0 ELSE Cardinality(ones)
  BY DEF NumberIn
<1> HIDE DEF p, b, t
<1>6. Len(p) \in Nat /\ k \in Nat
  BY <1>1, <1>2, <1>3
<1>7. CASE n = 0
  <2>1. t[1] = b[1]
    BY <1>1, <1>2, <1>3, <1>6, <1>7
  <2> QED BY <1>4, <1>5, <1>7, <2>1 DEF t
<1>8. CASE n # 0
  <2>1. k >= n + 4 /\ t[1] = "T" /\ t[n + 3] = "-" /\ \A i \in 3 .. n + 2 : t[i] = "1"
    BY <1>1, <1>2, <1>3, <1>6, <1>8
  <2>2. ASSUME NEW i \in ones PROVE i \in 3 .. n + 2
    <3> SUFFICES ASSUME i > n + 2 PROVE FALSE
      BY <1>2
    <3>1. n + 3 \in 3 .. i
      BY <1>2
    <3> QED BY <2>1, <3>1
  <2>3. ASSUME NEW i \in 3 .. n + 2 PROVE i \in ones
    <3>1. i \in 3 .. Len(t)
      BY <1>1, <1>2, <1>6, <2>1
    <3>2. \A j \in 3 .. i : t[j] = "1"
      BY <1>2, <2>1
    <3> QED BY <3>1, <3>2
  <2>4. ones = 3 .. n + 2
    BY <2>2, <2>3
  <2>5. Cardinality(3 .. n + 2) = n
    BY <1>2, FS_Interval
  <2> QED BY <1>5, <2>1, <2>4, <2>5 DEF t
<1> QED
  BY <1>7, <1>8

-----------------------------------------------------------------------------
(* The slugs of tasks *)

\* A task keeps its number and title, and its slug is made of them.
SlugInv == /\ number \in 0 .. MaxDigits
           /\ title \in Seq(Chars)
           /\ Made => slug = Slug(number, IF title = <<>> THEN Untitled ELSE title)

\* A slug comes of the task it was made for.
LEMMA SlugInvariant == Spec => []SlugInv
<1>1. Init => SlugInv
  <2>1. Chars # {} /\ <<"a">> \in Seq(Chars)
    BY DEF Chars
  <2>2. 0 \in 0 .. MaxDigits
    BY SizesAssumption
  <2> SUFFICES ASSUME Init PROVE number \in 0 .. MaxDigits /\ title \in Seq(Chars) /\ ~Made
    BY DEF SlugInv
  <2>3. ASSUME NEW n \in 0 .. MaxTitle, title \in [1 .. n -> Chars] PROVE title \in Seq(Chars)
    BY <2>3
  <2> QED BY <2>1, <2>2, <2>3 DEF Init, Made
<1>2. SlugInv /\ [Next]_vars => SlugInv'
  BY DEF SlugInv, Next, vars, task, Made, MakeSlug, FetchBlocks, RenderBody, BuildPrompt, Request,
         FailRequest, Collect
<1> QED
  BY <1>1, <1>2, PTL DEF Spec

\* A title is a sequence of characters.
LEMMA TitleIsSeq ==
    ASSUME SlugInv
    PROVE  (IF title = <<>> THEN Untitled ELSE title) \in Seq(Chars)
<1>1. Untitled \in Seq(Chars)
  BY DEF Untitled, Chars
<1> QED
  BY <1>1 DEF SlugInv

\* make_branch_slug makes a name for a branch and a directory of every title.
THEOREM TidySlugs == Spec => []SlugIsTidy
<1>1. SlugInv => SlugIsTidy
  <2> SUFFICES ASSUME SlugInv, Made PROVE SlugTidy(slug)
    BY DEF SlugIsTidy, SlugTidy
  <2> QED BY TitleIsSeq, SlugsAreTidy DEF SlugInv
<1> QED
  BY <1>1, SlugInvariant, PTL

\* Tasks with different numbers have different slugs, and with them branches and
\* worktrees of their own.
THEOREM SlugsTellNumbers == Spec => []NumberIsReadBack
<1>1. SlugInv => NumberIsReadBack
  <2> SUFFICES ASSUME SlugInv, Made PROVE NumberIn(slug) = number
    BY DEF NumberIsReadBack
  <2> QED BY TitleIsSeq, SlugTellsNumber DEF SlugInv
<1> QED
  BY <1>1, SlugInvariant, PTL

-----------------------------------------------------------------------------
(* The blocks of a page in order *)

\* The order of blocks lists each of them once, and ascends.
LEMMA InOrderEnumerates ==
    ASSUME NEW S \in SUBSET Nat, IsFiniteSet(S)
    PROVE  Enumerates(InOrder(S), S) /\ Len(InOrder(S)) = Cardinality(S)
<1> DEFINE n == Cardinality(S)
           t == InOrder(S)
           r == [b \in S |-> Rank(S, b)]
<1>1. /\ n \in Nat
      /\ \A b \in S : Rank(S, b) \in 0 .. n - 1
      /\ \A a, b \in S : a < b => Rank(S, a) < Rank(S, b)
  BY RankGrows
<1>2. \A a, b \in S : Rank(S, a) = Rank(S, b) => a = b
  <2> SUFFICES ASSUME NEW a \in S, NEW b \in S, a < b PROVE Rank(S, a) # Rank(S, b)
    OBVIOUS
  <2> QED BY <1>1
<1>3. r \in Injection(S, 0 .. n - 1)
  BY <1>1, <1>2 DEF Injection, IsInjective
<1>4. IsFiniteSet(0 .. n - 1) /\ Cardinality(0 .. n - 1) = n
  BY <1>1, FS_Interval
<1>5. r \in Surjection(S, 0 .. n - 1)
  BY <1>3, <1>4, FS_Injection
<1>6. \A k \in 0 .. n - 1 : \E b \in S : Rank(S, b) = k
  BY <1>5 DEF Surjection
<1>7. t = [i \in 1 .. n |-> CHOOSE b \in S : Rank(S, b) = i - 1]
  BY DEF InOrder, Rank
<1> HIDE DEF n, t, r
<1>8. \A i \in 1 .. n : t[i] \in S /\ Rank(S, t[i]) = i - 1
  <2> TAKE i \in 1 .. n
  <2>1. i - 1 \in 0 .. n - 1
    BY <1>1
  <2>2. \E b \in S : Rank(S, b) = i - 1
    BY <1>6, <2>1
  <2> QED BY <1>7, <2>2
<1>9. t \in Seq(S) /\ Len(t) = n
  BY <1>1, <1>7, <1>8
<1>10. ASSUME NEW i \in 1 .. n, NEW j \in 1 .. n, i < j PROVE t[i] < t[j]
  <2>1. Rank(S, t[i]) < Rank(S, t[j]) /\ t[i] \in Nat /\ t[j] \in Nat
    <3>1. /\ t[i] \in S /\ Rank(S, t[i]) = i - 1
          /\ t[j] \in S /\ Rank(S, t[j]) = j - 1
      BY <1>8
    <3>2. i \in Int /\ j \in Int /\ i - 1 < j - 1
      BY <1>1, <1>10
    <3> QED BY <3>1, <3>2
  <2>2. t[i] \in S /\ t[j] \in S
    BY <1>8
  <2>3. Rank(S, t[i]) \in Int /\ Rank(S, t[j]) \in Int
    BY <1>1, <1>8
  <2>4. ~(t[j] < t[i]) /\ t[i] # t[j]
    BY <1>1, <2>1, <2>2, <2>3
  <2> QED BY <2>1, <2>4
<1>11. ASSUME NEW b \in S PROVE \E i \in 1 .. n : t[i] = b
  <2>1. Rank(S, b) + 1 \in 1 .. n
    BY <1>1
  <2>2. Rank(S, t[Rank(S, b) + 1]) = Rank(S, b) /\ t[Rank(S, b) + 1] \in S
    BY <1>1, <1>8, <2>1
  <2> QED BY <1>2, <2>1, <2>2
<1> QED
  BY <1>9, <1>10, <1>11 DEF Enumerates, n, t

-----------------------------------------------------------------------------
(* The tree of blocks *)

\* What Init says of a page.
Tree == /\ kind \in Seq(Kinds)
        /\ parent \in [1 .. Len(kind) -> 0 .. Len(kind)]
        /\ \A b \in 1 .. Len(kind) : parent[b] < b
        /\ InDocumentOrder(parent)

\* A parent is the page or a block before its child.
LEMMA TreeSize ==
    ASSUME Tree
    PROVE  /\ Len(kind) \in Nat /\ Len(parent) = Len(kind)
           /\ Blocks = 1 .. Len(kind) /\ DOMAIN parent = 1 .. Len(kind)
           /\ \A b \in Blocks : parent[b] \in 0 .. Len(kind) /\ parent[b] < b
<1>1. Len(kind) \in Nat /\ Blocks = 1 .. Len(kind)
  BY DEF Tree, Blocks
<1>2. DOMAIN parent = 1 .. Len(kind) /\ parent \in Seq(0 .. Len(kind))
  BY <1>1 DEF Tree
<1>3. Len(parent) = Len(kind)
  BY <1>1, <1>2
<1> QED
  BY <1>1, <1>2, <1>3 DEF Tree

\* The definition of Above, as a function of itself.
Over(f, b) == IF b = 0 THEN {0} ELSE {b} \cup f[parent[b]]

\* There is a function that satisfies the definition of Above.
LEMMA AboveExists ==
    ASSUME Tree
    PROVE  \E f : f = [b \in 0 .. Len(kind) |-> Over(f, b)]
<1> DEFINE N == Len(kind)
           Defined(f, n) == \A k \in 0 .. n : f[k] = Over(f, k)
           S == {n \in 0 .. N : \E f : f = [k \in 0 .. N |-> f[k]] /\ Defined(f, n)}
<1>0. N \in Nat /\ \A b \in 1 .. N : parent[b] \in 0 .. N /\ parent[b] < b
  BY TreeSize
<1>1. 0 \in S
  <2> DEFINE f == [k \in 0 .. N |-> {0}]
  <2>1. f = [k \in 0 .. N |-> f[k]] /\ Defined(f, 0)
    BY <1>0 DEF Over
  <2> QED BY <1>0, <2>1
<1>2. ASSUME NEW n \in 0 .. N - 1, n \in S PROVE n + 1 \in S
  <2>1. PICK f : f = [k \in 0 .. N |-> f[k]] /\ Defined(f, n)
    BY <1>2
  <2> DEFINE g == [k \in 0 .. N |-> IF k = n + 1 THEN Over(f, n + 1) ELSE f[k]]
  <2>2. /\ \A k \in 0 .. n : g[k] = f[k]
        /\ g[n + 1] = Over(f, n + 1)
        /\ g = [k \in 0 .. N |-> g[k]]
    BY <1>0
  <2> HIDE DEF g
  <2>3. \A k \in 0 .. n + 1 : Over(g, k) = Over(f, k)
    <3> SUFFICES ASSUME NEW k \in 0 .. n + 1, k # 0 PROVE g[parent[k]] = f[parent[k]]
      BY DEF Over
    <3>1. parent[k] \in 0 .. n
      BY <1>0
    <3> QED BY <2>2, <3>1, Zenon
  <2>4. Defined(g, n + 1)
    <3> SUFFICES ASSUME NEW k \in 0 .. n + 1 PROVE g[k] = Over(f, k)
      BY <2>3
    <3>1. CASE k = n + 1
      BY <2>2, <3>1
    <3>2. CASE k \in 0 .. n
      <4>1. g[k] = f[k] /\ f[k] = Over(f, k)
        BY <2>1, <2>2, <3>2
      <4> QED BY <4>1
    <3> QED BY <1>0, <3>1, <3>2
  <2>5. n + 1 \in 0 .. N
    BY <1>0
  <2> HIDE DEF Defined
  <2> QED BY <2>2, <2>4, <2>5
<1>3. N \in S
  <2> HIDE DEF S, N
  <2>1. \A n \in 0 .. N : n \in S
    BY <1>0, <1>1, <1>2, Upward, Zenon
  <2> QED BY <1>0, <2>1
<1>4. PICK f : f = [k \in 0 .. N |-> f[k]] /\ Defined(f, N)
  BY <1>3
<1>5. f = [b \in 0 .. N |-> Over(f, b)]
  BY <1>4
<1> QED
  BY <1>5

Anc == Above(parent)

\* What is above a block is what is above its parent, and the block.
LEMMA AboveEquation ==
    ASSUME Tree, NEW b \in 0 .. Len(kind)
    PROVE  Anc[b] = IF b = 0 THEN {0} ELSE {b} \cup Anc[parent[b]]
<1>1. Anc = CHOOSE f : f = [k \in 0 .. Len(kind) |-> Over(f, k)]
  BY TreeSize DEF Anc, Above, Over
<1>2. Anc = [k \in 0 .. Len(kind) |-> Over(Anc, k)]
  BY <1>1, AboveExists
<1> QED
  BY <1>2 DEF Over

\* What is above a block comes before it.
LEMMA AboveIsBefore ==
    ASSUME Tree, NEW b \in 0 .. Len(kind)
    PROVE  Anc[b] \in SUBSET (0 .. b) /\ b \in Anc[b] /\ 0 \in Anc[b]
<1> DEFINE N == Len(kind)
           S == {n \in 0 .. N : Anc[n] \in SUBSET (0 .. n) /\ n \in Anc[n] /\ 0 \in Anc[n]}
<1>0. N \in Nat /\ \A k \in 1 .. N : parent[k] \in 0 .. N /\ parent[k] < k
  BY TreeSize
<1>1. ASSUME NEW n \in 0 .. N, \A k \in 0 .. n - 1 : k \in S PROVE n \in S
  <2>1. Anc[n] = IF n = 0 THEN {0} ELSE {n} \cup Anc[parent[n]]
    BY AboveEquation
  <2>2. CASE n = 0
    BY <1>0, <2>1, <2>2
  <2>3. CASE n # 0
    <3>1. parent[n] \in 0 .. n - 1
      BY <1>0, <2>3
    <3>2. Anc[parent[n]] \in SUBSET (0 .. parent[n]) /\ 0 \in Anc[parent[n]]
      BY <1>1, <3>1
    <3>3. \A x \in 0 .. parent[n] : x \in 0 .. n
      BY <1>0, <3>1
    <3> QED BY <2>1, <2>3, <3>2, <3>3
  <2> QED BY <2>2, <2>3
<1>2. \A n \in 0 .. N : n \in S
  <2> HIDE DEF S, N
  <2> QED BY <1>0, <1>1, FromBelow, Zenon
<1> QED
  BY <1>2

\* What stands above a block above stands above.
LEMMA AboveIsTransitive ==
    ASSUME Tree, NEW b \in 0 .. Len(kind), NEW c \in Anc[b]
    PROVE  Anc[c] \in SUBSET Anc[b]
<1> DEFINE N == Len(kind)
           S == {n \in 0 .. N : \A x \in Anc[n] : Anc[x] \in SUBSET Anc[n]}
<1>0. N \in Nat /\ \A k \in 1 .. N : parent[k] \in 0 .. N /\ parent[k] < k
  BY TreeSize
<1>1. ASSUME NEW n \in 0 .. N, \A k \in 0 .. n - 1 : k \in S PROVE n \in S
  <2>1. Anc[n] = IF n = 0 THEN {0} ELSE {n} \cup Anc[parent[n]]
    BY AboveEquation
  <2>2. CASE n = 0
    BY <2>1, <2>2
  <2>3. CASE n # 0
    <3>1. parent[n] \in 0 .. n - 1
      BY <1>0, <2>3
    <3>2. \A x \in Anc[parent[n]] : Anc[x] \in SUBSET Anc[parent[n]]
      BY <1>1, <3>1
    <3> QED BY <2>1, <2>3, <3>2
  <2> QED BY <2>2, <2>3
<1>2. \A n \in 0 .. N : n \in S
  <2> HIDE DEF S, N
  <2> QED BY <1>0, <1>1, FromBelow, Zenon
<1> QED
  BY <1>2

\* On the way from a block up to one above it there is a child of that one.
LEMMA ChildBetween ==
    ASSUME Tree, NEW b \in 0 .. Len(kind), NEW c \in Anc[b], c # b
    PROVE  \E k \in Blocks : parent[k] = c /\ k \in Anc[b]
<1> DEFINE N == Len(kind)
           S == {n \in 0 .. N : \A x \in Anc[n] : x # n => \E k \in Blocks : parent[k] = x /\ k \in Anc[n]}
<1>0. /\ N \in Nat /\ \A k \in 1 .. N : parent[k] \in 0 .. N /\ parent[k] < k
      /\ Blocks = 1 .. N
  BY TreeSize
<1>1. ASSUME NEW n \in 0 .. N, \A k \in 0 .. n - 1 : k \in S PROVE n \in S
  <2>1. Anc[n] = IF n = 0 THEN {0} ELSE {n} \cup Anc[parent[n]]
    BY AboveEquation
  <2>2. CASE n = 0
    BY <2>1, <2>2
  <2>3. CASE n # 0
    <3>1. parent[n] \in 0 .. n - 1 /\ n \in Blocks
      BY <1>0, <2>3
    <3>2. ASSUME NEW x \in Anc[n], x # n
          PROVE  \E k \in Blocks : parent[k] = x /\ k \in Anc[n]
      <4>1. CASE x = parent[n]
        BY <2>1, <2>3, <3>1, <4>1
      <4>2. CASE x # parent[n]
        <5>1. x \in Anc[parent[n]]
          BY <2>1, <2>3, <3>2
        <5>2. \E k \in Blocks : parent[k] = x /\ k \in Anc[parent[n]]
          BY <1>1, <3>1, <4>2, <5>1
        <5> QED BY <2>1, <2>3, <5>2
      <4> QED BY <4>1, <4>2
    <3> QED BY <3>2
  <2> QED BY <2>2, <2>3
<1>2. \A n \in 0 .. N : n \in S
  <2> HIDE DEF S, N
  <2> QED BY <1>0, <1>1, FromBelow, Zenon
<1> QED
  BY <1>2

\* Document order: nothing under a block comes behind the block's next sibling.
LEMMA SiblingsApart ==
    ASSUME Tree, NEW c \in Blocks, NEW d \in Blocks, c < d, parent[c] = parent[d],
           NEW b \in 0 .. Len(kind), d <= b
    PROVE  c \notin Anc[b]
<1> DEFINE N == Len(kind)
           S == {n \in 0 .. N : d <= n => c \notin Anc[n]}
<1>0. /\ N \in Nat /\ \A k \in 1 .. N : parent[k] \in 0 .. N /\ parent[k] < k
      /\ Blocks = 1 .. N
  BY TreeSize
<1>1. ASSUME NEW n \in 0 .. N, \A k \in 0 .. n - 1 : k \in S PROVE n \in S
  <2> SUFFICES ASSUME d <= n PROVE c \notin Anc[n]
    OBVIOUS
  <2>1. n # 0 /\ n \in 1 .. N /\ c # n /\ c \in Nat
    BY <1>0
  <2>2. Anc[n] = {n} \cup Anc[parent[n]]
    BY <2>1, AboveEquation
  <2>3. CASE n = d
    <3>1. Anc[parent[c]] \in SUBSET (0 .. parent[c])
      BY <1>0, AboveIsBefore
    <3>2. c \notin 0 .. parent[c]
      BY <1>0
    <3> QED BY <2>1, <2>2, <2>3, <3>1, <3>2
  <2>4. CASE n # d
    <3>1. n - 1 \in 0 .. n - 1 /\ n - 1 \in 0 .. N /\ d <= n - 1
      BY <1>0, <2>1, <2>4
    <3>2. c \notin Anc[n - 1]
      BY <1>1, <3>1
    <3>3. parent[n] \in Anc[n - 1]
      BY <1>0, <2>1, TreeSize DEF Tree, InDocumentOrder, Anc
    <3>4. Anc[parent[n]] \in SUBSET Anc[n - 1]
      BY <3>1, <3>3, AboveIsTransitive
    <3> QED BY <2>1, <2>2, <3>2, <3>4
  <2> QED BY <2>3, <2>4
<1>2. \A n \in 0 .. N : n \in S
  <2> HIDE DEF S, N
  <2> QED BY <1>0, <1>1, FromBelow, Zenon
<1> QED
  BY <1>2

-----------------------------------------------------------------------------
(* Depth *)

\* The depth of a block, the page above those of depth 0.
Level(b) == IF b = 0 THEN -1 ELSE Depth[b]

\* A child is one level deeper than its parent.
LEMMA LevelOfChild ==
    ASSUME Tree, NEW b \in Blocks
    PROVE  Level(b) \in Nat /\ Level(b) = Level(parent[b]) + 1
<1>0. /\ Len(kind) \in Nat /\ parent[b] \in 0 .. Len(kind) /\ parent[b] < b
      /\ Blocks = 1 .. Len(kind) /\ b \in 1 .. Len(kind)
  BY TreeSize
<1>1. \A c \in 0 .. Len(kind) : IsFiniteSet(Anc[c])
  <2> TAKE c \in 0 .. Len(kind)
  <2>1. Anc[c] \in SUBSET (0 .. c) /\ c \in Int
    BY AboveIsBefore
  <2>2. IsFiniteSet(0 .. c)
    BY <2>1, FS_Interval
  <2> QED BY <2>1, <2>2, FS_Subset
<1>2. \A c \in Blocks : Level(c) = Cardinality(Anc[c] \ {0, c})
  BY <1>0 DEF Level, Depth, Anc
<1>3. IsFiniteSet(Anc[b] \ {0, b})
  <2>1. b \in 0 .. Len(kind)
    BY <1>0
  <2> QED BY <1>1, <2>1, FS_Difference
<1>4. Level(b) \in Nat
  BY <1>2, <1>3, FS_CardinalityType
<1> DEFINE p == parent[b]
<1>5. Anc[b] = {b} \cup Anc[p] /\ Anc[p] \in SUBSET (0 .. p) /\ p \in Anc[p] /\ 0 \in Anc[p] /\ b \notin Anc[p]
  <2>1. Anc[b] = {b} \cup Anc[p]
    <3>1. b \in 0 .. Len(kind) /\ b # 0
      BY <1>0
    <3> QED BY <3>1, AboveEquation
  <2>2. Anc[p] \in SUBSET (0 .. p) /\ p \in Anc[p] /\ 0 \in Anc[p]
    BY <1>0, AboveIsBefore
  <2>3. b \notin 0 .. p
    BY <1>0
  <2> QED BY <2>1, <2>2, <2>3
<1>6. CASE p = 0
  <2>1. Anc[p] = {0}
    BY <1>0, <1>6, AboveEquation
  <2>2. Anc[b] \ {0, b} = {}
    BY <1>5, <2>1
  <2>3. Level(b) = 0
    BY <1>2, <2>2, FS_EmptySet
  <2>4. Level(p) = -1
    BY <1>6 DEF Level
  <2> QED BY <1>4, <2>3, <2>4
<1>7. CASE p # 0
  <2>1. p \in Blocks
    BY <1>0, <1>7
  <2> HIDE DEF p
  <2>2. Anc[b] \ {0, b} = (Anc[p] \ {0, p}) \cup {p}
    BY <1>5, <1>7
  <2>3. IsFiniteSet(Anc[p]) /\ IsFiniteSet(Anc[p] \ {0, p})
    BY <1>0, <1>1, FS_Difference DEF p
  <2>4. p \notin Anc[p] \ {0, p}
    OBVIOUS
  <2>5. Cardinality((Anc[p] \ {0, p}) \cup {p}) = Cardinality(Anc[p] \ {0, p}) + 1
    BY <2>3, <2>4, FS_AddElement
  <2>6. Level(b) = Level(p) + 1
    BY <1>2, <2>1, <2>2, <2>5
  <2> QED BY <1>4, <2>6 DEF p
<1> QED
  BY <1>6, <1>7

\* What stands under a block is deeper.
LEMMA LevelGrows ==
    ASSUME Tree, NEW b \in 0 .. Len(kind), NEW c \in Anc[b], c # b
    PROVE  Level(c) \in Int /\ Level(b) \in Int /\ Level(c) < Level(b)
<1> DEFINE N == Len(kind)
           S == {n \in 0 .. N : \A x \in Anc[n] : x # n =>
                    Level(x) \in Int /\ Level(n) \in Int /\ Level(x) < Level(n)}
<1>0. /\ N \in Nat /\ \A k \in 1 .. N : parent[k] \in 0 .. N /\ parent[k] < k
      /\ Blocks = 1 .. N
  BY TreeSize
<1>1. ASSUME NEW n \in 0 .. N, \A k \in 0 .. n - 1 : k \in S PROVE n \in S
  <2>1. Anc[n] = IF n = 0 THEN {0} ELSE {n} \cup Anc[parent[n]]
    BY AboveEquation
  <2>2. CASE n = 0
    BY <2>1, <2>2
  <2>3. CASE n # 0
    <3>1. parent[n] \in 0 .. n - 1 /\ n \in Blocks
      BY <1>0, <2>3
    <3>2. Level(n) \in Nat /\ Level(n) = Level(parent[n]) + 1
      BY <3>1, LevelOfChild
    <3>3. Level(parent[n]) \in Int
      <4>1. parent[n] = 0 \/ parent[n] \in Blocks
        BY <1>0, <3>1
      <4> QED BY <4>1, LevelOfChild DEF Level
    <3>4. ASSUME NEW x \in Anc[n], x # n
          PROVE  Level(x) \in Int /\ Level(n) \in Int /\ Level(x) < Level(n)
      <4>1. CASE x = parent[n]
        BY <3>2, <3>3, <4>1
      <4>2. CASE x # parent[n]
        <5>1. x \in Anc[parent[n]]
          BY <2>1, <2>3, <3>4
        <5>2. Level(x) \in Int /\ Level(x) < Level(parent[n])
          BY <1>1, <3>1, <4>2, <5>1
        <5> QED BY <3>2, <3>3, <5>2
      <4> QED BY <4>1, <4>2
    <3> QED BY <3>4
  <2> QED BY <2>2, <2>3
<1>2. \A n \in 0 .. N : n \in S
  <2> HIDE DEF S, N
  <2> QED BY <1>0, <1>1, FromBelow, Zenon
<1> QED
  BY <1>2

-----------------------------------------------------------------------------
(* Fetching the page *)

Pages == 0 .. Len(kind)

\* The children of a block, each once, in the order of the document.
LEMMA ChildrenListed ==
    ASSUME Tree, NEW b \in Pages
    PROVE  /\ Children(b) \in Seq(Blocks) /\ Len(Children(b)) \in Nat
           /\ \A i \in 1 .. Len(Children(b)) :
                 Children(b)[i] \in Blocks /\ parent[Children(b)[i]] = b
           /\ \A i, j \in 1 .. Len(Children(b)) : i < j => Children(b)[i] < Children(b)[j]
           /\ \A c \in Blocks : parent[c] = b => \E i \in 1 .. Len(Children(b)) : Children(b)[i] = c
<1> DEFINE kids == {c \in Blocks : parent[c] = b}
           t == Children(b)
<1>1. Blocks = 1 .. Len(kind) /\ Len(kind) \in Nat
  BY TreeSize
<1>2. kids \in SUBSET Nat /\ kids \in SUBSET Blocks
  BY <1>1
<1>3. IsFiniteSet(kids)
  <2>1. IsFiniteSet(1 .. Len(kind))
    BY <1>1, FS_Interval
  <2> QED BY <1>1, <1>2, <2>1, FS_Subset
<1>4. Enumerates(t, kids)
  BY <1>2, <1>3, InOrderEnumerates DEF Children
<1>5. \A c \in kids : c \in Blocks /\ parent[c] = b
  OBVIOUS
<1>6. \A c \in Blocks : parent[c] = b => c \in kids
  OBVIOUS
<1> HIDE DEF kids, t
<1>7. t \in Seq(kids) /\ t \in Seq(Blocks) /\ Len(t) \in Nat
  <2>1. t \in Seq(kids)
    BY <1>4 DEF Enumerates
  <2>2. kids \subseteq Blocks
    BY <1>2
  <2> QED BY <2>1, <2>2, SeqMonotonic, LenProperties
<1>8. \A i \in 1 .. Len(t) : t[i] \in kids
  BY <1>7
<1> QED
  BY <1>4, <1>5, <1>6, <1>7, <1>8 DEF Enumerates, t

\* A block that a listing returned; the page itself is known from the start.
Visited(col, b) == b = 0 \/ \E i \in 1 .. Len(col[parent[b]]) : col[parent[b]][i] = b

OnStack(stack, b) == \E i \in 1 .. Len(stack) : stack[i].of = b

Calls == [of : Pages, got : Nat, seen : Nat, more : BOOLEAN]

\* A call has collected what it has seen of the children it lists.
Collecting(col, f) == /\ f.seen <= f.got /\ f.got <= Len(Children(f.of))
                      /\ ~f.more => f.got = Len(Children(f.of))
                      /\ col[f.of] = SubSeq(Children(f.of), 1, f.seen)

\* Calls stand on the stack by the depth of the block they list.
Stacked(stack, col) ==
    /\ stack \in Seq(Calls) /\ Len(stack) <= MaxDepth + 1
    /\ \A i \in 1 .. Len(stack) : /\ Level(stack[i].of) = i - 2
                                   /\ Collecting(col, stack[i]) /\ Visited(col, stack[i].of)

\* What no call lists any more is listed, unless it is too deep.
ListedAt(col, b) == IF Visited(col, b) /\ Level(b) < MaxDepth THEN Children(b) ELSE <<>>

Fetching(stack, col) == /\ Stacked(stack, col)
                        /\ \A b \in Pages : ~OnStack(stack, b) => col[b] = ListedAt(col, b)

\* All of the page is there, down to max_depth.
Fetched(col) == \A b \in Pages : col[b] = IF Level(b) < MaxDepth THEN Children(b) ELSE <<>>

\* What is known of a call on the stack.
LEMMA CollectingIsTyped ==
    ASSUME NEW stack, NEW col, Stacked(stack, col), NEW i \in 1 .. Len(stack)
    PROVE  /\ Len(stack) \in Nat /\ stack[i] \in Calls
           /\ stack[i].of \in Pages /\ stack[i].got \in Nat /\ stack[i].seen \in Nat
           /\ stack[i].more \in BOOLEAN
           /\ Level(stack[i].of) = i - 2
           /\ Collecting(col, stack[i]) /\ Visited(col, stack[i].of)
<1>1. stack \in Seq(Calls)
  BY DEF Stacked
<1>2. stack[i] \in Calls /\ Len(stack) \in Nat
  BY <1>1
<1> QED
  BY <1>2 DEF Stacked, Calls

\* No block is listed by two calls.
LEMMA StackedOnce ==
    ASSUME NEW stack, NEW col, Stacked(stack, col),
           NEW i \in 1 .. Len(stack), NEW j \in 1 .. Len(stack), stack[i].of = stack[j].of
    PROVE  i = j
<1>1. Level(stack[i].of) = i - 2 /\ Level(stack[j].of) = j - 2 /\ Len(stack) \in Nat
  BY CollectingIsTyped
<1>2. i - 2 = j - 2
  BY <1>1
<1> QED
  BY <1>1, <1>2

\* A request changes only what the innermost call has got.
LEMMA RequestKeeps ==
    ASSUME NEW stack, NEW col, Fetching(stack, col), stack # <<>>,
           NEW g \in Calls, g.of = Last(stack).of, Collecting(col, g)
    PROVE  Fetching(Append(Front(stack), g), col)
<1> DEFINE next == Append(Front(stack), g)
<1>1. Stacked(stack, col) /\ stack \in Seq(Calls)
  BY DEF Fetching, Stacked
<1>2. /\ next \in Seq(Calls) /\ Len(next) = Len(stack)
      /\ \A i \in 1 .. Len(stack) : next[i] = IF i = Len(stack) THEN g ELSE stack[i]
  BY <1>1, ReplaceTop
<1>3. Last(stack) = stack[Len(stack)]
  BY DEF Last
<1> HIDE DEF next
<1>4. \A i \in 1 .. Len(stack) : next[i].of = stack[i].of
  BY <1>2, <1>3
<1>5. \A b : OnStack(next, b) <=> OnStack(stack, b)
  BY <1>2, <1>4 DEF OnStack
<1>6. Stacked(next, col)
  <2>1. \A i \in 1 .. Len(stack) : /\ Level(stack[i].of) = i - 2
                                   /\ Collecting(col, stack[i]) /\ Visited(col, stack[i].of)
    BY <1>1, CollectingIsTyped
  <2>2. \A i \in 1 .. Len(stack) : /\ Level(next[i].of) = i - 2
                                   /\ Collecting(col, next[i]) /\ Visited(col, next[i].of)
    BY <1>2, <1>4, <2>1
  <2>3. Len(stack) <= MaxDepth + 1
    BY <1>1 DEF Stacked
  <2> QED BY <1>2, <2>2, <2>3 DEF Stacked
<1>7. \A b \in Pages : ~OnStack(next, b) => col[b] = ListedAt(col, b)
  BY <1>5 DEF Fetching
<1> QED
  BY <1>6, <1>7 DEF Fetching, next

\* A call that has seen all leaves its block listed.
LEMMA ReturnKeeps ==
    ASSUME Tree, NEW stack, NEW col, Fetching(stack, col), stack # <<>>,
           Last(stack).seen = Last(stack).got, ~Last(stack).more
    PROVE  Fetching(Front(stack), col)
<1> DEFINE next == Front(stack)
           f == Last(stack)
<1>0. MaxDepth \in Nat
  BY SizesAssumption
<1>1. Stacked(stack, col) /\ stack \in Seq(Calls) /\ Len(stack) <= MaxDepth + 1
  BY DEF Fetching, Stacked
<1>2. /\ Len(stack) \in Nat \ {0} /\ f = stack[Len(stack)]
      /\ next \in Seq(Calls) /\ Len(next) = Len(stack) - 1
      /\ \A i \in 1 .. Len(stack) - 1 : next[i] = stack[i]
  BY <1>1, FrontOf
<1>3. /\ f.of \in Pages /\ f.seen \in Nat /\ Level(f.of) = Len(stack) - 2
      /\ Collecting(col, f) /\ Visited(col, f.of)
  <2>1. Len(stack) \in 1 .. Len(stack)
    BY <1>2
  <2> QED BY <1>1, <1>2, <2>1, CollectingIsTyped
<1>4. col[f.of] = ListedAt(col, f.of)
  <2>1. col[f.of] = SubSeq(Children(f.of), 1, Len(Children(f.of)))
    BY <1>3 DEF Collecting
  <2>2. Children(f.of) \in Seq(Blocks)
    BY <1>3, ChildrenListed
  <2>3. SubSeq(Children(f.of), 1, Len(Children(f.of))) = Children(f.of)
    BY <2>2, SubSeqFull
  <2>4. Level(f.of) < MaxDepth
    BY <1>0, <1>1, <1>2, <1>3
  <2> QED BY <1>3, <2>1, <2>3, <2>4 DEF ListedAt
<1> HIDE DEF next, f
<1>5. Stacked(next, col)
  <2>1. \A i \in 1 .. Len(next) : /\ i \in 1 .. Len(stack) /\ next[i] = stack[i]
    BY <1>2
  <2>2. \A i \in 1 .. Len(stack) : /\ Level(stack[i].of) = i - 2
                                   /\ Collecting(col, stack[i]) /\ Visited(col, stack[i].of)
    BY <1>1, CollectingIsTyped
  <2>3. \A i \in 1 .. Len(next) : /\ Level(next[i].of) = i - 2
                                  /\ Collecting(col, next[i]) /\ Visited(col, next[i].of)
    BY <2>1, <2>2
  <2>4. Len(next) <= MaxDepth + 1
    BY <1>0, <1>1, <1>2
  <2> QED BY <1>2, <2>3, <2>4 DEF Stacked
<1>6. ASSUME NEW b \in Pages, ~OnStack(next, b) PROVE col[b] = ListedAt(col, b)
  <2>1. CASE b = f.of
    BY <1>4, <2>1
  <2>2. CASE b # f.of
    <3>1. ~OnStack(stack, b)
      <4> SUFFICES ASSUME NEW i \in 1 .. Len(stack), stack[i].of = b PROVE FALSE
        BY DEF OnStack
      <4>1. i # Len(stack)
        BY <1>2, <2>2
      <4>2. i \in 1 .. Len(next) /\ next[i].of = b
        BY <1>2, <4>1
      <4> QED BY <1>6, <4>2 DEF OnStack
    <3> QED BY <3>1 DEF Fetching
  <2> QED BY <2>1, <2>2
<1> QED
  BY <1>5, <1>6 DEF Fetching, next

\* The next child is collected, and a call for its own children begun.
LEMMA CollectKeeps ==
    ASSUME Tree, NEW stack, NEW col, Fetching(stack, col), stack # <<>>,
           col \in [Pages -> Seq(Blocks)], Last(stack).seen < Last(stack).got
    PROVE  LET f     == Last(stack)
               b     == Children(f.of)[f.seen + 1]
               under == IF Children(b) # <<>> /\ Len(stack) - 1 < MaxDepth THEN <<Frame(b)>> ELSE <<>>
               then  == [col EXCEPT ![f.of] = Append(@, b)]
           IN  /\ then \in [Pages -> Seq(Blocks)]
               /\ Fetching(Append(Front(stack), [f EXCEPT !.seen = @ + 1]) \o under, then)
<1> DEFINE f    == Last(stack)
           p    == f.of
           b    == Children(p)[f.seen + 1]
           deep == Children(b) # <<>> /\ Len(stack) - 1 < MaxDepth
           then == [col EXCEPT ![p] = Append(@, b)]
           g    == [f EXCEPT !.seen = @ + 1]
           mid  == Append(Front(stack), g)
           next == mid \o (IF deep THEN <<Frame(b)>> ELSE <<>>)
<1>0. MaxDepth \in Nat
  BY SizesAssumption
<1>1. Stacked(stack, col) /\ stack \in Seq(Calls) /\ Len(stack) <= MaxDepth + 1
  BY DEF Fetching, Stacked
<1>2. Len(stack) \in Nat \ {0} /\ f = stack[Len(stack)] /\ Len(stack) \in 1 .. Len(stack)
  <2>1. Len(stack) \in Nat \ {0} /\ f = stack[Len(stack)]
    BY <1>1, FrontOf
  <2> QED BY <2>1
<1>3. /\ f \in Calls /\ p \in Pages /\ f.seen \in Nat /\ f.got \in Nat
      /\ Level(p) = Len(stack) - 2
      /\ Collecting(col, f) /\ Visited(col, p)
  BY <1>1, <1>2, CollectingIsTyped
<1>4. /\ Children(p) \in Seq(Blocks) /\ Len(Children(p)) \in Nat
      /\ \A i \in 1 .. Len(Children(p)) :
            Children(p)[i] \in Blocks /\ parent[Children(p)[i]] = p
      /\ \A i, j \in 1 .. Len(Children(p)) : i < j => Children(p)[i] < Children(p)[j]
  BY <1>3, ChildrenListed
<1>5. f.seen + 1 \in 1 .. Len(Children(p)) /\ f.seen + 1 <= f.got /\ f.got <= Len(Children(p))
  BY <1>3, <1>4 DEF Collecting
<1>6. /\ b \in Blocks /\ parent[b] = p /\ b \in Pages /\ b # 0 /\ b # p /\ b \in Nat
      /\ Level(b) = Len(stack) - 1
  <2>1. b \in Blocks /\ parent[b] = p
    BY <1>4, <1>5
  <2>2. Blocks = 1 .. Len(kind) /\ Len(kind) \in Nat /\ parent[b] < b
    BY <2>1, TreeSize
  <2>3. Level(b) = Level(p) + 1
    BY <2>1, LevelOfChild
  <2> QED BY <1>2, <1>3, <2>1, <2>2, <2>3 DEF Pages
<1>7. col[p] = SubSeq(Children(p), 1, f.seen)
  BY <1>3 DEF Collecting
<1>8. /\ col[p] \in Seq(Blocks) /\ Len(col[p]) = f.seen
      /\ \A i \in 1 .. f.seen : col[p][i] = Children(p)[i]
  <2>1. \A i \in 1 .. f.seen : Children(p)[i] \in Blocks
    BY <1>3, <1>4, <1>5
  <2> HIDE DEF p, f
  <2> QED BY <1>3, <1>7, <2>1, SubSeqProperties
<1>9. ~Visited(col, b)
  <2> SUFFICES ASSUME NEW i \in 1 .. Len(col[p]), col[p][i] = b PROVE FALSE
    BY <1>6 DEF Visited
  <2>0. i \in 1 .. f.seen /\ i \in 1 .. Len(Children(p)) /\ i < f.seen + 1
    BY <1>3, <1>4, <1>5, <1>8
  <2>1. Children(p)[i] < b /\ Children(p)[i] = b
    BY <1>4, <1>5, <1>8, <2>0
  <2> QED BY <1>6, <2>1
<1> HIDE DEF f, p, b, deep
<1>10. /\ then \in [Pages -> Seq(Blocks)]
       /\ then[p] = Append(col[p], b)
       /\ \A c \in Pages : c # p => then[c] = col[c]
  BY <1>3, <1>6, <1>8
<1> HIDE DEF then
<1>11. then[p] = SubSeq(Children(p), 1, f.seen + 1)
  <2>1. \A i \in 1 .. f.seen + 1 : Children(p)[i] \in Blocks
    BY <1>3, <1>4, <1>5
  <2>2. /\ SubSeq(Children(p), 1, f.seen + 1) \in Seq(Blocks)
        /\ Len(SubSeq(Children(p), 1, f.seen + 1)) = f.seen + 1
        /\ \A i \in 1 .. f.seen + 1 : SubSeq(Children(p), 1, f.seen + 1)[i] = Children(p)[i]
    BY <1>3, <2>1, SubSeqProperties
  <2>3. /\ Append(col[p], b) \in Seq(Blocks) /\ Len(Append(col[p], b)) = f.seen + 1
        /\ \A i \in 1 .. f.seen + 1 : Append(col[p], b)[i] = Children(p)[i]
    BY <1>3, <1>6, <1>8 DEF b
  <2> QED BY <1>3, <1>10, <2>2, <2>3, SeqEqual
<1>12. \A c \in Pages : Visited(then, c) <=> Visited(col, c) \/ c = b
  <2> TAKE c \in Pages
  <2>1. CASE c = 0
    BY <2>1 DEF Visited
  <2>2. CASE c # 0 /\ parent[c] # p
    <3>1. parent[c] \in Pages /\ c # b
      BY <1>6, <2>2, TreeSize DEF Pages
    <3>2. then[parent[c]] = col[parent[c]]
      BY <1>10, <2>2, <3>1
    <3> QED BY <2>2, <3>1, <3>2 DEF Visited
  <2>3. CASE c # 0 /\ parent[c] = p
    <3>1. Len(Append(col[p], b)) = f.seen + 1 /\ Append(col[p], b)[f.seen + 1] = b
      BY <1>3, <1>6, <1>8
    <3>2. \A i \in 1 .. f.seen : Append(col[p], b)[i] = col[p][i]
      BY <1>3, <1>6, <1>8
    <3>3. \A i \in 1 .. f.seen + 1 : i = f.seen + 1 \/ i \in 1 .. f.seen
      BY <1>3
    <3>4. f.seen + 1 \in 1 .. f.seen + 1 /\ 1 .. f.seen \subseteq 1 .. f.seen + 1
      BY <1>3
    <3> QED BY <1>8, <1>10, <2>3, <3>1, <3>2, <3>3, <3>4 DEF Visited
  <2> QED BY <2>1, <2>2, <2>3
<1>13. ~OnStack(stack, b)
  <2> SUFFICES ASSUME NEW i \in 1 .. Len(stack), stack[i].of = b PROVE FALSE
    BY DEF OnStack
  <2>1. Level(b) = i - 2
    BY <1>1, CollectingIsTyped
  <2> QED BY <1>2, <1>6, <2>1
<1>14. then[b] = <<>>
  <2>1. col[b] = <<>>
    BY <1>6, <1>9, <1>13 DEF Fetching, ListedAt
  <2> QED BY <1>6, <1>10, <2>1
<1>15. g \in Calls /\ g.of = p /\ g.seen = f.seen + 1 /\ g.got = f.got /\ g.more = f.more
  BY <1>3 DEF Calls, p
<1> HIDE DEF g
<1>16. /\ mid \in Seq(Calls) /\ Len(mid) = Len(stack)
       /\ \A i \in 1 .. Len(stack) : mid[i] = IF i = Len(stack) THEN g ELSE stack[i]
  BY <1>1, <1>15, ReplaceTop
<1> HIDE DEF mid
<1>17. Collecting(then, g)
  BY <1>3, <1>5, <1>11, <1>15 DEF Collecting, p
<1>18. \A i \in 1 .. Len(stack) : /\ Level(mid[i].of) = i - 2
                                  /\ Collecting(then, mid[i]) /\ Visited(then, mid[i].of)
  <2> TAKE i \in 1 .. Len(stack)
  <2>1. CASE i = Len(stack)
    BY <1>3, <1>12, <1>15, <1>16, <1>17, <2>1
  <2>2. CASE i # Len(stack)
    <3>1. /\ mid[i] = stack[i] /\ stack[i].of \in Pages /\ Level(stack[i].of) = i - 2
          /\ Collecting(col, stack[i]) /\ Visited(col, stack[i].of)
      BY <1>1, <1>16, <2>2, CollectingIsTyped
    <3>2. stack[i].of # p
      BY <1>1, <1>2, <2>2, StackedOnce DEF p
    <3>3. then[stack[i].of] = col[stack[i].of]
      BY <1>10, <3>1, <3>2
    <3> QED BY <1>12, <3>1, <3>3 DEF Collecting
  <2> QED BY <2>1, <2>2
<1>19. \A c : OnStack(stack, c) => OnStack(mid, c)
  BY <1>2, <1>15, <1>16 DEF OnStack, p
<1>20. ASSUME NEW c \in Pages, ~OnStack(mid, c), c # b PROVE then[c] = ListedAt(then, c)
  <2>1. ~OnStack(stack, c) /\ c # p
    BY <1>2, <1>19, <1>20 DEF OnStack, p
  <2>2. then[c] = ListedAt(col, c)
    BY <1>10, <2>1 DEF Fetching
  <2> QED BY <1>12, <1>20, <2>2 DEF ListedAt
<1>21. CASE ~deep
  <2>1. next = mid
    BY <1>16, <1>21
  <2>2. ListedAt(then, b) = <<>>
    BY <1>0, <1>2, <1>6, <1>21 DEF ListedAt, deep
  <2>3. Stacked(mid, then)
    BY <1>1, <1>16, <1>18 DEF Stacked
  <2>4. Fetching(mid, then)
    BY <1>14, <1>20, <2>2, <2>3 DEF Fetching
  <2> QED BY <1>10, <2>1, <2>4 DEF f, p, b, deep, then, g, mid
<1>22. CASE deep
  <2>1. Frame(b) \in Calls /\ Frame(b).of = b
    BY <1>6 DEF Frame, Calls
  <2>2. /\ next \in Seq(Calls) /\ Len(next) = Len(stack) + 1
        /\ \A i \in 1 .. Len(stack) : next[i] = mid[i]
        /\ next[Len(stack) + 1] = Frame(b)
    BY <1>2, <1>16, <1>22, <2>1
  <2> HIDE DEF next
  <2>3. Collecting(then, Frame(b))
    <3>1. SubSeq(Children(b), 1, 0) = <<>>
      BY SubSeqEmpty
    <3>2. Len(Children(b)) \in Nat
      BY <1>6, ChildrenListed
    <3>3. /\ Frame(b).of = b /\ Frame(b).got = 0 /\ Frame(b).seen = 0
          /\ Frame(b).more = TRUE
      BY DEF Frame
    <3>4. then[Frame(b).of] = SubSeq(Children(Frame(b).of), 1, Frame(b).seen)
      BY <1>14, <3>1, <3>3, Zenon
    <3>5. Frame(b).seen <= Frame(b).got /\ Frame(b).got <= Len(Children(Frame(b).of))
      BY <3>2, <3>3
    <3>6. Frame(b).more
      BY <3>3, Zenon
    <3> QED BY <3>4, <3>5, <3>6, Zenon DEF Collecting
  <2>4. Visited(then, b)
    BY <1>6, <1>12
  <2>5. \A i \in 1 .. Len(next) : /\ Level(next[i].of) = i - 2
                                  /\ Collecting(then, next[i]) /\ Visited(then, next[i].of)
    <3> TAKE i \in 1 .. Len(next)
    <3>1. CASE i = Len(stack) + 1
      BY <1>2, <1>6, <2>1, <2>2, <2>3, <2>4, <3>1
    <3>2. CASE i # Len(stack) + 1
      <4>1. i \in 1 .. Len(stack)
        BY <1>2, <2>2, <3>2
      <4> QED BY <1>18, <2>2, <4>1
    <3> QED BY <3>1, <3>2
  <2>6. Len(next) <= MaxDepth + 1
    BY <1>0, <1>2, <1>22, <2>2 DEF deep
  <2>7. Stacked(next, then)
    BY <2>2, <2>5, <2>6 DEF Stacked
  <2>8. OnStack(next, b) /\ \A c : OnStack(mid, c) => OnStack(next, c)
    <3>1. Len(stack) + 1 \in 1 .. Len(next) /\ 1 .. Len(stack) \subseteq 1 .. Len(next)
      BY <1>2, <2>2
    <3> QED BY <1>16, <2>1, <2>2, <3>1 DEF OnStack
  <2>9. Fetching(next, then)
    <3>1. ASSUME NEW c \in Pages, ~OnStack(next, c) PROVE then[c] = ListedAt(then, c)
      <4>1. ~OnStack(mid, c) /\ c # b
        BY <2>8, <3>1
      <4> QED BY <1>20, <4>1
    <3> QED BY <2>7, <3>1 DEF Fetching
  <2> QED BY <1>10, <2>9 DEF f, p, b, deep, then, g, mid, next
<1> QED
  BY <1>21, <1>22

\* The fetch begins with a call for the page and nothing collected.
LEMMA BeginFetch ==
    ASSUME Tree
    PROVE  Fetching(<<Frame(0)>>, [b \in Pages |-> <<>>])
<1> DEFINE col == [b \in Pages |-> <<>>]
           stack == <<Frame(0)>>
<1>1. Len(kind) \in Nat /\ 0 \in Pages /\ Blocks = 1 .. Len(kind) /\ MaxDepth \in Nat
      /\ \A b \in Blocks : parent[b] \in Pages
  BY TreeSize, SizesAssumption DEF Pages
<1>2. Frame(0) \in Calls /\ Frame(0).of = 0
  BY <1>1 DEF Frame, Calls
<1>3. stack \in Seq(Calls) /\ Len(stack) = 1 /\ stack[1] = Frame(0)
  BY <1>2
<1>4. Collecting(col, Frame(0))
  <2>1. SubSeq(Children(0), 1, 0) = <<>>
    BY SubSeqEmpty
  <2>2. Len(Children(0)) \in Nat
    BY <1>1, ChildrenListed
  <2> QED BY <1>1, <2>1, <2>2 DEF Collecting, Frame
<1>5. Visited(col, 0) /\ Level(0) = -1
  BY DEF Visited, Level
<1>6. \A b \in Pages : b # 0 => ~Visited(col, b) /\ col[b] = <<>>
  <2> SUFFICES ASSUME NEW b \in Pages, b # 0 PROVE ~Visited(col, b)
    OBVIOUS
  <2>1. col[parent[b]] = <<>>
    BY <1>1 DEF Pages
  <2> HIDE DEF col
  <2> QED BY <2>1 DEF Visited
<1> HIDE DEF col, stack
<1>7. Stacked(stack, col)
  BY <1>1, <1>2, <1>3, <1>4, <1>5 DEF Stacked
<1>8. \A b \in Pages : ~OnStack(stack, b) => col[b] = ListedAt(col, b)
  BY <1>2, <1>3, <1>6 DEF OnStack, ListedAt
<1> QED
  BY <1>7, <1>8 DEF Fetching, col, stack

\* When the first call has returned, all of the page is there.
LEMMA EndFetch ==
    ASSUME Tree, NEW col, Fetching(<<>>, col)
    PROVE  Fetched(col)
<1> DEFINE S == {b \in Pages : Level(b) <= MaxDepth => Visited(col, b)}
<1>0. /\ Len(kind) \in Nat /\ Blocks = 1 .. Len(kind) /\ MaxDepth \in Nat
      /\ Pages = 0 .. Len(kind)
      /\ \A b \in Blocks : parent[b] \in Pages /\ parent[b] < b
  BY TreeSize, SizesAssumption DEF Pages
<1>1. \A b \in Pages : col[b] = ListedAt(col, b)
  BY DEF Fetching, OnStack
<1>2. ASSUME NEW n \in 0 .. Len(kind), \A k \in 0 .. n - 1 : k \in S PROVE n \in S
  <2>1. CASE n = 0
    BY <1>0, <2>1 DEF Visited
  <2>2. CASE n # 0
    <3> SUFFICES ASSUME Level(n) <= MaxDepth PROVE Visited(col, n)
      BY <1>0
    <3>1. n \in Blocks /\ parent[n] \in 0 .. n - 1 /\ parent[n] \in Pages
      BY <1>0, <2>2
    <3>2. Level(n) \in Nat /\ Level(n) = Level(parent[n]) + 1
      BY <3>1, LevelOfChild
    <3>3. Level(parent[n]) \in Int
      <4>1. parent[n] = 0 \/ parent[n] \in Blocks
        BY <1>0, <3>1
      <4> QED BY <4>1, LevelOfChild DEF Level
    <3>4. Level(parent[n]) < MaxDepth /\ Level(parent[n]) <= MaxDepth
      BY <1>0, <3>2, <3>3
    <3>5. Visited(col, parent[n])
      BY <1>2, <3>1, <3>4
    <3>6. col[parent[n]] = Children(parent[n])
      BY <1>1, <3>1, <3>4, <3>5 DEF ListedAt
    <3> QED BY <3>1, <3>6, ChildrenListed DEF Visited
  <2> QED BY <2>1, <2>2
<1>3. \A b \in 0 .. Len(kind) : b \in S
  <2> HIDE DEF S
  <2> QED BY <1>0, <1>2, FromBelow, Zenon
<1>4. \A b \in Pages : Level(b) \in Int
  <2> TAKE b \in Pages
  <2>1. b = 0 \/ b \in Blocks
    BY <1>0
  <2> QED BY <2>1, LevelOfChild DEF Level
<1>5. \A b \in Pages : Level(b) < MaxDepth => Visited(col, b)
  BY <1>0, <1>3, <1>4
<1> QED
  BY <1>1, <1>5 DEF Fetched, ListedAt

-----------------------------------------------------------------------------
(* The page a job has *)

\* Nobody edits the page: what is said of it stays true.
LEMMA SamePage ==
    ASSUME UNCHANGED task
    PROVE  /\ Tree' <=> Tree
           /\ Pages' = Pages /\ Blocks' = Blocks
           /\ Fetching(frames, collected)' <=> Fetching(frames', collected')
           /\ Fetched(collected)' <=> Fetched(collected')
<1>1. kind' = kind /\ parent' = parent
  BY DEF task
<1>2. Tree' <=> Tree
  BY <1>1 DEF Tree, InDocumentOrder, Above
<1>3. Pages' = Pages /\ Blocks' = Blocks
  BY <1>1 DEF Pages, Blocks
<1>4. \A b : Children(b)' = Children(b)
  BY <1>1, <1>3, Zenon DEF Children
<1>5. \A b : Level(b)' = Level(b)
  <2>1. Above(parent)' = Above(parent)
    BY <1>1, Zenon DEF Above
  <2>2. Depth' = Depth
    BY <1>3, <2>1, Zenon DEF Depth
  <2> QED BY <2>2, Zenon DEF Level
<1>6. Fetched(collected)' <=> Fetched(collected')
  BY <1>3, <1>4, <1>5 DEF Fetched
<1>7. Fetching(frames, collected)' <=> Fetching(frames', collected')
  BY <1>1, <1>3, <1>4, <1>5 DEF Fetching, Stacked, Calls, Collecting, ListedAt, Visited, OnStack
<1> QED
  BY <1>2, <1>3, <1>6, <1>7

\* The description depends on the page and on what was collected.
LEMMA SameMarkdown ==
    ASSUME UNCHANGED <<task, collected>>
    PROVE  Markdown' = Markdown
<1>1. kind' = kind /\ parent' = parent /\ collected' = collected
  BY DEF task
<1>2. Render' = Render
  BY <1>1 DEF Render, Rendered, OwnLine, Line, Numbering
<1>3. \A lines : BlanksCollapsed(lines)' = BlanksCollapsed(lines)
  BY <1>1, Zenon DEF BlanksCollapsed, CollapseBlank, IsBlank
<1> QED
  BY <1>1, <1>2, <1>3, Zenon DEF Markdown, IsBlank

\* What the job has of the page: nothing yet; what its calls of _fetch_blocks have
\* collected; all of it, in Markdown, or, when a request failed, nothing.
PageInv ==
    /\ Tree
    /\ collected \in [Pages -> Seq(Blocks)]
    /\ pc \in {"slug", "fetch", "prompt", "coding"}
    /\ pc = "slug" => collected = [b \in Pages |-> <<>>]
    /\ pc \in {"slug", "fetch"} => ~failed
    /\ pc = "fetch" => Fetching(frames, collected)
    /\ pc \in {"prompt", "coding"} => IF failed THEN body = <<>>
                                      ELSE Fetched(collected) /\ body = Markdown
    /\ pc \in {"slug", "fetch"} => body = <<>>
    /\ pc = "coding" => sections = IF body = <<>> THEN <<"title", "agreement">>
                                   ELSE <<"title", "description", "agreement">>

\* A job begins with no description.
LEMMA PageInit == Init => PageInv
<1> SUFFICES ASSUME Init PROVE PageInv
  OBVIOUS
<1>1. Tree
  <2>1. CASE kind = <<>> /\ parent = <<>>
    BY <2>1 DEF Tree, InDocumentOrder
  <2>2. ASSUME NEW n \in 1 .. NBlocks, kind \in [1 .. n -> Kinds],
               parent \in [1 .. n -> 0 .. n - 1], \A b \in 1 .. n : parent[b] < b,
               InDocumentOrder(parent)
        PROVE  Tree
    <3>1. NBlocks \in Nat
      BY SizesAssumption
    <3>2. kind \in Seq(Kinds) /\ Len(kind) = n
      BY <2>2, <3>1
    <3>3. parent \in [1 .. n -> 0 .. n]
      BY <2>2, <3>1
    <3> QED BY <2>2, <3>2, <3>3 DEF Tree
  <2> QED BY <2>1, <2>2 DEF Init
<1>2. {0} \cup Blocks = Pages
  BY <1>1, TreeSize DEF Pages
<1>3. collected = [b \in Pages |-> <<>>]
  BY <1>2 DEF Init
<1>4. collected \in [Pages -> Seq(Blocks)]
  BY <1>3
<1> QED
  BY <1>1, <1>3, <1>4 DEF PageInv, Init

\* A request answered leaves the invariant of the fetch.
LEMMA RequestStep ==
    ASSUME PageInv, pc = "fetch", FetchBlocks, frames # <<>>,
           LET f == Last(frames) IN f.seen = f.got /\ f.more /\ Request(f)
    PROVE  Fetching(frames', collected')
<1> DEFINE f == Last(frames)
           g == [f EXCEPT !.got = Min({f.got + PageSize, Len(Children(f.of))}),
                          !.more = Min({f.got + PageSize, Len(Children(f.of))}) < Len(Children(f.of))]
<1>1. Tree /\ Fetching(frames, collected) /\ Stacked(frames, collected) /\ frames \in Seq(Calls)
  BY DEF PageInv, Fetching, Stacked
<1>2. Len(frames) \in 1 .. Len(frames) /\ f = frames[Len(frames)]
  <2>1. Len(frames) \in Nat \ {0} /\ f = frames[Len(frames)]
    BY <1>1, FrontOf
  <2> QED BY <2>1
<1>3. /\ f \in Calls /\ f.of \in Pages /\ f.got \in Nat /\ f.seen \in Nat /\ Collecting(collected, f)
  BY <1>1, <1>2, CollectingIsTyped
<1>4. Len(Children(f.of)) \in Nat /\ PageSize \in Nat
  BY <1>1, <1>3, ChildrenListed, SizesAssumption
<1> DEFINE m == Min({f.got + PageSize, Len(Children(f.of))})
<1>5. m \in Nat /\ f.seen <= m /\ m <= Len(Children(f.of))
  <2> DEFINE S == {f.got + PageSize, Len(Children(f.of))}
  <2>1. S \in SUBSET Nat /\ S # {}
    BY <1>3, <1>4
  <2>2. PICK k : k = Min(S) /\ k \in S /\ \A x \in S : k <= x
    BY <2>1, MinOfNat
  <2>3. f.seen <= f.got /\ f.got <= Len(Children(f.of))
    BY <1>3 DEF Collecting
  <2> HIDE DEF f
  <2> QED BY <1>3, <1>4, <2>2, <2>3
<1> HIDE DEF m
<1>6. g = [f EXCEPT !.got = m, !.more = m < Len(Children(f.of))]
  BY DEF g, m
<1>7. frames' = Append(Front(frames), g) /\ collected' = collected
  BY DEF Request
<1> HIDE DEF g
<1> DEFINE more == m < Len(Children(f.of))
<1>8. /\ g \in Calls /\ g.of = f.of /\ g.got = m /\ g.seen = f.seen
      /\ ~g.more => ~more
  <2>1. more \in BOOLEAN /\ g = [f EXCEPT !.got = m, !.more = more]
    BY <1>6
  <2> HIDE DEF more, f
  <2>2. g \in Calls /\ g.of = f.of /\ g.got = m /\ g.seen = f.seen
    BY <1>3, <1>5, <2>1 DEF Calls
  <2>3. g.more = more
    BY <1>3, <2>1, Zenon DEF Calls
  <2> QED BY <2>2, <2>3
<1>9. Collecting(collected, g)
  BY <1>3, <1>4, <1>5, <1>8 DEF Collecting
<1> QED
  BY <1>1, <1>7, <1>8, <1>9, RequestKeeps

\* One step of fetch_page_body.
LEMMA FetchStep ==
    ASSUME PageInv, FetchBlocks
    PROVE  /\ collected' \in [Pages -> Seq(Blocks)]
           /\ \/ pc' = "fetch" /\ ~failed' /\ Fetching(frames', collected')
              \/ pc' = "prompt" /\ failed'
<1>1. pc = "fetch" /\ frames # <<>> /\ ~failed
  BY DEF FetchBlocks, PageInv
<1>2. Tree /\ Fetching(frames, collected) /\ collected \in [Pages -> Seq(Blocks)]
  BY <1>1 DEF PageInv
<1> DEFINE f == Last(frames)
<1>3. CASE f.seen = f.got /\ f.more /\ Request(f)
  <2>1. Fetching(frames', collected')
    BY <1>1, <1>3, RequestStep
  <2> QED BY <1>1, <1>2, <1>3, <2>1 DEF Request
<1>4. CASE f.seen = f.got /\ f.more /\ FailRequest(f)
  <2>1. {0} \cup Blocks = Pages
    BY <1>2, TreeSize DEF Pages
  <2>2. collected' = [b \in Pages |-> <<>>] /\ pc' = "prompt" /\ failed'
    BY <1>4, <2>1 DEF FailRequest
  <2> QED BY <2>2
<1>5. CASE f.seen < f.got /\ Collect(f)
  <2>1. Last(frames).seen < Last(frames).got
    BY <1>5
  <2>2. /\ collected' \in [Pages -> Seq(Blocks)]
        /\ Fetching(frames', collected')
    BY <1>1, <1>2, <1>5, <2>1, CollectKeeps DEF Collect
  <2> QED BY <1>1, <1>5, <2>2 DEF Collect
<1>6. CASE /\ f.seen = f.got /\ ~f.more
           /\ frames' = Front(frames)
           /\ UNCHANGED <<pc, collected, failed>>
  <2>1. Fetching(frames', collected')
    BY <1>1, <1>2, <1>6, ReturnKeeps
  <2> QED BY <1>1, <1>2, <1>6, <2>1
<1> QED
  BY <1>3, <1>4, <1>5, <1>6 DEF FetchBlocks

\* Every step keeps the invariant.
LEMMA PageNext == PageInv /\ [Next]_vars => PageInv'
<1> SUFFICES ASSUME PageInv, [Next]_vars PROVE PageInv'
  OBVIOUS
<1>1. UNCHANGED task
  BY DEF Next, vars, MakeSlug, FetchBlocks, RenderBody, BuildPrompt
<1>2. /\ Tree' /\ Tree /\ Pages' = Pages /\ Blocks' = Blocks
      /\ Fetching(frames, collected)' <=> Fetching(frames', collected')
      /\ Fetched(collected)' <=> Fetched(collected')
  BY <1>1, SamePage DEF PageInv
<1>3. CASE MakeSlug
  <2>1. collected = [b \in Pages |-> <<>>] /\ ~failed /\ body = <<>>
    BY <1>3 DEF MakeSlug, PageInv
  <2>2. Fetching(frames', collected')
    BY <1>2, <1>3, <2>1, BeginFetch DEF MakeSlug
  <2> QED BY <1>2, <1>3, <2>1, <2>2 DEF MakeSlug, PageInv
<1>4. CASE FetchBlocks
  <2>1. /\ collected' \in [Pages -> Seq(Blocks)]
        /\ \/ pc' = "fetch" /\ ~failed' /\ Fetching(frames', collected')
           \/ pc' = "prompt" /\ failed'
    BY <1>4, FetchStep
  <2>2. body' = <<>>
    BY <1>4 DEF FetchBlocks, PageInv
  <2> QED BY <1>2, <2>1, <2>2 DEF PageInv
<1>5. CASE RenderBody
  <2>1. Fetching(<<>>, collected) /\ ~failed
    BY <1>5 DEF RenderBody, PageInv
  <2>2. Fetched(collected)
    BY <1>2, <2>1, EndFetch
  <2>3. Markdown' = Markdown
    BY <1>1, <1>5, SameMarkdown DEF RenderBody
  <2> QED BY <1>2, <1>5, <2>1, <2>2, <2>3 DEF RenderBody, PageInv
<1>6. CASE BuildPrompt \/ UNCHANGED vars
  <2>1. UNCHANGED <<task, collected>> /\ UNCHANGED <<frames, failed, body>>
    BY <1>6 DEF BuildPrompt, vars
  <2>2. Markdown' = Markdown
    BY <2>1, SameMarkdown
  <2>3. CASE BuildPrompt
    BY <1>2, <2>1, <2>2, <2>3 DEF BuildPrompt, PageInv
  <2>4. CASE UNCHANGED vars
    BY <1>2, <2>1, <2>2, <2>4 DEF vars, PageInv
  <2> QED BY <1>6, <2>3, <2>4
<1> QED
  BY <1>3, <1>4, <1>5, <1>6 DEF Next

-----------------------------------------------------------------------------
(* Numbering *)

\* There is a function that satisfies the definition of Numbering, and it counts.
LEMMA NumberingEquation ==
    ASSUME NEW list \in Seq(Blocks)
    PROVE  LET f == Numbering(list)
           IN  /\ f[0] = 0
               /\ \A i \in 1 .. Len(list) :
                     f[i] \in Nat /\ f[i] = IF kind[list[i]] = "numbered" THEN f[i - 1] + 1 ELSE 0
<1> DEFINE L == Len(list)
           Step(h, i) == IF i = 0 THEN 0 ELSE IF kind[list[i]] = "numbered" THEN h[i - 1] + 1 ELSE 0
           step == [n \in 1 .. L |-> [k \in Nat |-> IF kind[list[n]] = "numbered" THEN k + 1 ELSE 0]]
           f == CHOOSE h : h = [i \in 0 .. L |-> Step(h, i)]
<1>0. L \in Nat
  OBVIOUS
<1>1. step \in [1 .. L -> [Nat -> Nat]]
  OBVIOUS
<1>2. PICK g : Iterates(g, Nat, L, 0, step)
  <2> HIDE DEF step, L
  <2> QED BY <1>0, <1>1, Iterated
<1>3. g = [i \in 0 .. L |-> Step(g, i)]
  <2>1. g \in [0 .. L -> Nat] /\ g[0] = 0 /\ \A n \in 1 .. L : g[n] = step[n][g[n - 1]]
    BY <1>2 DEF Iterates
  <2>2. ASSUME NEW i \in 0 .. L, i # 0 PROVE g[i] = Step(g, i)
    <3>1. i \in 1 .. L /\ i - 1 \in 0 .. L
      BY <1>0, <2>2
    <3>2. g[i] = step[i][g[i - 1]] /\ g[i - 1] \in Nat
      BY <2>1, <3>1
    <3>3. step[i] = [k \in Nat |-> IF kind[list[i]] = "numbered" THEN k + 1 ELSE 0]
      BY <3>1
    <3> HIDE DEF step
    <3> QED BY <2>2, <3>2, <3>3
  <2> QED BY <2>1, <2>2
<1>4. f = [i \in 0 .. L |-> Step(f, i)]
  <2> HIDE DEF Step
  <2> QED BY <1>3
<1>5. Numbering(list) = f
  BY DEF Numbering
<1> HIDE DEF f, step
<1>6. f[0] = 0 /\ \A i \in 1 .. L : f[i] = IF kind[list[i]] = "numbered" THEN f[i - 1] + 1 ELSE 0
  BY <1>0, <1>4
<1> DEFINE S == {n \in 0 .. L : f[n] \in Nat}
<1>7. \A n \in 0 .. L : n \in S
  <2>1. 0 \in S
    BY <1>0, <1>6
  <2>2. ASSUME NEW n \in 0 .. L - 1, n \in S PROVE n + 1 \in S
    <3>1. n + 1 \in 1 .. L /\ f[n] \in Nat
      BY <1>0, <2>2
    <3>2. f[n + 1] \in Nat
      BY <1>6, <3>1
    <3> QED BY <3>1, <3>2
  <2> HIDE DEF S, L
  <2> QED BY <1>0, <2>1, <2>2, Upward, Zenon
<1> QED
  BY <1>5, <1>6, <1>7

\* The items of the list a block belongs to, when it does.
LEMMA ItemOfChild ==
    ASSUME Tree, NEW b \in Pages, NEW i \in 1 .. Len(Children(b))
    PROVE  LET c    == Children(b)[i]
               last == Children(b)[i - 1]
           IN  /\ IsFiniteSet(Item(c)) /\ \A x \in Item(c) : x <= c
               /\ Item(c) = IF kind[c] # "numbered" THEN {}
                            ELSE IF i = 1 THEN {c} ELSE Item(last) \cup {c}
<1> DEFINE kids == Children(b)
           c == kids[i]
           last == kids[i - 1]
<1>0. /\ Blocks = 1 .. Len(kind) /\ Len(kind) \in Nat
      /\ Len(kids) \in Nat
      /\ \A k \in 1 .. Len(kids) : kids[k] \in Blocks /\ parent[kids[k]] = b
      /\ \A k, m \in 1 .. Len(kids) : k < m => kids[k] < kids[m]
      /\ \A x \in Blocks : parent[x] = b => \E k \in 1 .. Len(kids) : kids[k] = x
  BY TreeSize, ChildrenListed
<1>1. c \in Blocks /\ parent[c] = b /\ c \in Nat /\ 1 <= c /\ c <= Len(kind)
  BY <1>0
<1> HIDE DEF kids, c, last
<1>2. Item(c) = {x \in 1 .. c : /\ parent[x] = b
                                /\ \A d \in x .. c : parent[d] = b => kind[d] = "numbered"}
  BY <1>1 DEF Item
<1>3. IsFiniteSet(Item(c)) /\ \A x \in Item(c) : x <= c
  <2>1. IsFiniteSet(1 .. c)
    BY <1>1, FS_Interval
  <2>2. Item(c) \in SUBSET (1 .. c)
    BY <1>2
  <2>3. \A x \in 1 .. c : x <= c
    BY <1>1
  <2> QED BY <2>1, <2>2, <2>3, FS_Subset
<1>4. CASE kind[c] # "numbered"
  <2>1. \A x \in 1 .. c : c \in x .. c
    BY <1>1
  <2> QED BY <1>1, <1>2, <1>3, <1>4, <2>1 DEF c, kids
<1>5. CASE kind[c] = "numbered" /\ i = 1
  <2>1. ASSUME NEW x \in 1 .. c, parent[x] = b PROVE x = c
    <3>1. x \in Blocks
      BY <1>0, <1>1
    <3>2. PICK k \in 1 .. Len(kids) : kids[k] = x
      BY <1>0, <2>1, <3>1
    <3>3. k = 1 \/ c < x
      BY <1>0, <1>5, <3>2 DEF c
    <3> QED BY <1>1, <1>5, <3>2, <3>3 DEF c
  <2>2. c \in 1 .. c /\ c .. c = {c}
    BY <1>1
  <2>3. Item(c) = {c}
    BY <1>1, <1>2, <1>5, <2>1, <2>2
  <2> QED BY <1>3, <1>5, <2>3 DEF c, kids
<1>6. CASE kind[c] = "numbered" /\ i # 1
  <2>1. i - 1 \in 1 .. Len(kids) /\ i - 1 < i /\ i \in 1 .. Len(kids)
    BY <1>0, <1>6 DEF kids
  <2>2. last \in Blocks /\ parent[last] = b /\ last < c /\ last \in Nat /\ 1 <= last
    BY <1>0, <2>1 DEF c, last
  <2>3. \A x \in 1 .. c : parent[x] = b => x = c \/ x \in 1 .. last
    <3> SUFFICES ASSUME NEW x \in 1 .. c, parent[x] = b, x # c PROVE x \in 1 .. last
      OBVIOUS
    <3>1. x \in Blocks
      BY <1>0, <1>1
    <3>2. PICK k \in 1 .. Len(kids) : kids[k] = x
      BY <1>0, <3>1
    <3>3. k < i
      <4>1. k # i /\ ~(i < k)
        BY <1>0, <1>1, <2>1, <3>2 DEF c
      <4> QED BY <1>0, <2>1, <4>1
    <3>4. k = i - 1 \/ x < last
      BY <1>0, <2>1, <3>2, <3>3 DEF last
    <3> QED BY <2>2, <3>2, <3>4 DEF last
  <2>4. Item(last) = {x \in 1 .. last : /\ parent[x] = b
                                       /\ \A d \in x .. last : parent[d] = b => kind[d] = "numbered"}
    BY <2>2 DEF Item
  <2>5. \A x \in 1 .. last : x \in Item(c) <=> x \in Item(last)
    <3> TAKE x \in 1 .. last
    <3>1. x \in 1 .. c /\ x # c
      BY <1>1, <2>2
    <3>2. \A d \in x .. c : parent[d] = b => d = c \/ d \in x .. last
      <4> TAKE d \in x .. c
      <4>1. d \in 1 .. c
        BY <1>1, <2>2
      <4> QED BY <2>2, <2>3, <4>1
    <3>3. \A d \in x .. last : d \in x .. c
      BY <1>1, <2>2
    <3> QED BY <1>2, <1>6, <2>4, <3>1, <3>2, <3>3
  <2>6. c \in Item(c)
    BY <1>1, <1>2, <1>6
  <2>7. Item(c) = Item(last) \cup {c}
    <3>1. \A x \in Item(c) : x = c \/ x \in 1 .. last
      BY <1>2, <2>3
    <3>2. \A x \in Item(last) : x \in 1 .. last
      BY <2>4
    <3> QED BY <2>5, <2>6, <3>1, <3>2
  <2> QED BY <1>3, <1>6, <2>7 DEF c, last, kids
<1> QED
  BY <1>4, <1>5, <1>6

\* numbered_idx counts the items of a list.
LEMMA NumberingCounts ==
    ASSUME Tree, NEW b \in Pages, NEW i \in 1 .. Len(Children(b))
    PROVE  Numbering(Children(b))[i] = Cardinality(Item(Children(b)[i]))
<1> DEFINE kids == Children(b)
           L == Len(kids)
           f == Numbering(kids)
           S == {n \in 0 .. L : n # 0 => f[n] = Cardinality(Item(kids[n]))}
<1>0. /\ L \in Nat /\ kids \in Seq(Blocks)
      /\ \A k \in 1 .. L : kids[k] \in Nat
      /\ \A k, m \in 1 .. L : k < m => kids[k] < kids[m]
  BY ChildrenListed, TreeSize
<1>1. /\ f[0] = 0
      /\ \A k \in 1 .. L : f[k] \in Nat /\ f[k] = IF kind[kids[k]] = "numbered" THEN f[k - 1] + 1 ELSE 0
  BY <1>0, NumberingEquation
<1>2. \A k \in 1 .. L : /\ IsFiniteSet(Item(kids[k])) /\ \A x \in Item(kids[k]) : x <= kids[k]
                        /\ Item(kids[k]) = IF kind[kids[k]] # "numbered" THEN {}
                                           ELSE IF k = 1 THEN {kids[k]}
                                           ELSE Item(kids[k - 1]) \cup {kids[k]}
  BY ItemOfChild
<1> HIDE DEF f, kids
<1>3. 0 \in S
  BY <1>0
<1>4. ASSUME NEW n \in 0 .. L - 1, n \in S PROVE n + 1 \in S
  <2> DEFINE m == n + 1
  <2>1. m \in 1 .. L /\ m \in 0 .. L /\ m - 1 = n /\ (m = 1 <=> n = 0)
    BY <1>0
  <2> HIDE DEF m
  <2>2. CASE kind[kids[m]] # "numbered"
    <3>1. f[m] = 0 /\ Item(kids[m]) = {}
      BY <1>1, <1>2, <2>1, <2>2
    <3> QED BY <2>1, <3>1, FS_EmptySet DEF m
  <2>3. CASE kind[kids[m]] = "numbered" /\ m = 1
    <3>1. f[m] = f[0] + 1 /\ Item(kids[m]) = {kids[m]}
      BY <1>1, <1>2, <2>1, <2>3
    <3>2. Cardinality({kids[m]}) = 1
      BY FS_Singleton
    <3>3. f[m] = Cardinality(Item(kids[m]))
      BY <1>1, <3>1, <3>2
    <3> QED BY <2>1, <3>3 DEF m
  <2>4. CASE kind[kids[m]] = "numbered" /\ m # 1
    <3>1. f[m] = f[n] + 1 /\ Item(kids[m]) = Item(kids[n]) \cup {kids[m]}
      BY <1>1, <1>2, <2>1, <2>4
    <3>2. n \in 1 .. L /\ n < m /\ f[n] = Cardinality(Item(kids[n]))
      BY <1>0, <1>4, <2>1, <2>4
    <3>3. kids[m] \notin Item(kids[n])
      <4>1. kids[n] < kids[m] /\ kids[n] \in Nat /\ kids[m] \in Nat
        BY <1>0, <2>1, <3>2
      <4>2. ~(kids[m] <= kids[n])
        BY <4>1
      <4> QED BY <1>2, <3>2, <4>2
    <3>4. Cardinality(Item(kids[n]) \cup {kids[m]}) = Cardinality(Item(kids[n])) + 1
      BY <1>2, <3>2, <3>3, FS_AddElement
    <3> QED BY <2>1, <3>1, <3>2, <3>4 DEF m
  <2> QED BY <2>2, <2>3, <2>4
<1>5. \A n \in 0 .. L : n \in S
  <2> HIDE DEF S, L
  <2> QED BY <1>0, <1>3, <1>4, Upward, Zenon
<1>6. i \in 1 .. L /\ i \in 0 .. L /\ i # 0
  BY <1>0 DEF kids
<1> QED
  BY <1>5, <1>6 DEF kids, f

-----------------------------------------------------------------------------
(* Listings *)

Lines == [block : Nat, indent : Int, label : Nat]

\* The line of a block, as the page demands it.
LineOf(b) == Line(b, Level(b), Cardinality(Item(b)))

\* The lines s are those of the blocks in S, in document order.
Lists(s, S) ==
    /\ s \in Seq(Lines)
    /\ \A i \in 1 .. Len(s) : s[i].block \in S /\ s[i] = LineOf(s[i].block)
    /\ \A i, j \in 1 .. Len(s) : i < j => s[i].block < s[j].block
    /\ \A b \in S : \E i \in 1 .. Len(s) : s[i].block = b

\* No lines list no blocks.
LEMMA ListsNothing == Lists(<<>>, {})
  BY DEF Lists

\* One line lists one block.
LEMMA ListsOne ==
    ASSUME NEW b \in Nat, LineOf(b) \in Lines
    PROVE  Lists(<<LineOf(b)>>, {b})
<1> DEFINE s == <<LineOf(b)>>
<1>1. s \in Seq(Lines) /\ Len(s) = 1 /\ s[1] = LineOf(b)
  OBVIOUS
<1>2. LineOf(b).block = b
  BY DEF LineOf, Line
<1> HIDE DEF s
<1>3. \A i \in 1 .. Len(s) : i = 1
  BY <1>1
<1>4. Lists(s, {b})
  BY <1>1, <1>2, <1>3 DEF Lists
<1> QED
  BY <1>4 DEF s

\* Lines behind lines list both, when the blocks of the second come later.
LEMMA ListsBoth ==
    ASSUME NEW S, NEW U, NEW s, NEW u, Lists(s, S), Lists(u, U), \A a \in S, b \in U : a < b
    PROVE  Lists(s \o u, S \cup U)
<1> DEFINE t == s \o u
<1>1. s \in Seq(Lines) /\ u \in Seq(Lines) /\ Len(s) \in Nat /\ Len(u) \in Nat
  BY DEF Lists
<1>2. /\ t \in Seq(Lines) /\ Len(t) = Len(s) + Len(u)
      /\ \A i \in 1 .. Len(s) : t[i] = s[i]
      /\ \A i \in 1 .. Len(u) : t[Len(s) + i] = u[i]
  BY <1>1
<1> HIDE DEF t
<1>3. \A i \in 1 .. Len(t) : i \notin 1 .. Len(s) =>
         i - Len(s) \in 1 .. Len(u) /\ t[i] = u[i - Len(s)]
  <2> SUFFICES ASSUME NEW i \in 1 .. Len(t), i \notin 1 .. Len(s)
               PROVE  i - Len(s) \in 1 .. Len(u) /\ t[i] = u[i - Len(s)]
    OBVIOUS
  <2>1. i - Len(s) \in 1 .. Len(u) /\ Len(s) + (i - Len(s)) = i
    BY <1>1, <1>2
  <2> QED BY <1>2, <2>1
<1>4. ASSUME NEW i \in 1 .. Len(t) PROVE t[i].block \in S \cup U /\ t[i] = LineOf(t[i].block)
  <2>1. CASE i \in 1 .. Len(s)
    BY <1>2, <2>1 DEF Lists
  <2>2. CASE i \notin 1 .. Len(s)
    BY <1>3, <2>2 DEF Lists
  <2> QED BY <2>1, <2>2
<1>5. ASSUME NEW i \in 1 .. Len(t), NEW j \in 1 .. Len(t), i < j PROVE t[i].block < t[j].block
  <2>1. CASE i \in 1 .. Len(s) /\ j \in 1 .. Len(s)
    BY <1>2, <1>5, <2>1 DEF Lists
  <2>2. CASE i \in 1 .. Len(s) /\ j \notin 1 .. Len(s)
    <3>1. t[i].block \in S /\ t[j].block \in U
      BY <1>2, <1>3, <2>2 DEF Lists
    <3> QED BY <3>1
  <2>3. CASE i \notin 1 .. Len(s) /\ j \notin 1 .. Len(s)
    <3>1. /\ i - Len(s) \in 1 .. Len(u) /\ t[i] = u[i - Len(s)]
          /\ j - Len(s) \in 1 .. Len(u) /\ t[j] = u[j - Len(s)]
          /\ i - Len(s) < j - Len(s)
      BY <1>1, <1>2, <1>3, <1>5, <2>3
    <3> QED BY <3>1 DEF Lists
  <2>4. ~(i \notin 1 .. Len(s) /\ j \in 1 .. Len(s))
    BY <1>1, <1>5
  <2> QED BY <2>1, <2>2, <2>3, <2>4
<1>6. ASSUME NEW b \in S \cup U PROVE \E i \in 1 .. Len(t) : t[i].block = b
  <2>1. CASE b \in S
    <3>1. PICK i \in 1 .. Len(s) : s[i].block = b
      BY <2>1 DEF Lists
    <3>2. i \in 1 .. Len(t) /\ t[i] = s[i]
      BY <1>1, <1>2
    <3> QED BY <3>1, <3>2
  <2>2. CASE b \in U
    <3>1. PICK i \in 1 .. Len(u) : u[i].block = b
      BY <2>2 DEF Lists
    <3>2. Len(s) + i \in 1 .. Len(t) /\ t[Len(s) + i] = u[i]
      BY <1>1, <1>2
    <3> QED BY <3>1, <3>2
  <2> QED BY <2>1, <2>2
<1> QED
  BY <1>2, <1>4, <1>5, <1>6 DEF Lists, t

-----------------------------------------------------------------------------
(* Rendering *)

\* A page of which every listing tells of later blocks only.
Collection(col) ==
    /\ col \in [Pages -> Seq(Blocks)]
    /\ \A b \in Pages : \A i \in 1 .. Len(col[b]) : b < col[b][i]

\* The definition of Rendered, as a function of itself.
Piece(f, b, depth, i) ==
    OwnLine(collected[b], i, depth) \o f[collected[b][i]][depth + 1]
Pieces(f, b, depth) == [i \in 1 .. Len(collected[b]) |-> Piece(f, b, depth, i)]
RenderWith(f, b) == [depth \in Nat |-> FlattenSeq(Pieces(f, b, depth))]

\* There is a function that satisfies the definition of Rendered: what a call
\* renders, it takes from calls for later blocks.
LEMMA RenderedExists ==
    ASSUME Tree, Collection(collected)
    PROVE  \E f : f = [b \in Pages |-> RenderWith(f, b)]
<1> DEFINE N == Len(kind)
           Defined(f, n) == \A b \in Pages : N - n <= b => f[b] = RenderWith(f, b)
           S == {n \in 0 .. N : \E f : f = [b \in Pages |-> f[b]] /\ Defined(f, n)}
<1>0. /\ N \in Nat /\ Pages = 0 .. N /\ Blocks = 1 .. N
      /\ \A b \in Pages : \A i \in 1 .. Len(collected[b]) : collected[b][i] \in Pages /\ b < collected[b][i]
  <2>1. N \in Nat /\ Pages = 0 .. N /\ Blocks = 1 .. N
    BY TreeSize DEF Pages
  <2> QED BY <2>1 DEF Collection
\* Equal functions above b render b alike.
<1>1. ASSUME NEW f, NEW g, NEW b \in Pages, \A c \in Pages : b < c => f[c] = g[c]
      PROVE  RenderWith(f, b) = RenderWith(g, b)
  <2>1. \A i \in 1 .. Len(collected[b]) : f[collected[b][i]] = g[collected[b][i]]
    BY <1>0, <1>1
  <2>2. \A depth \in Nat : Pieces(f, b, depth) = Pieces(g, b, depth)
    BY <2>1 DEF Pieces, Piece
  <2> QED BY <2>2, Zenon DEF RenderWith
<1>2. 0 \in S
  <2> DEFINE f0 == [b \in Pages |-> <<>>]
             f == [b \in Pages |-> RenderWith(f0, b)]
  <2>1. ASSUME NEW b \in Pages, N <= b PROVE f[b] = RenderWith(f, b)
    <3>1. \A c \in Pages : b < c => f0[c] = f[c]
      BY <1>0, <2>1
    <3> HIDE DEF f0
    <3>2. RenderWith(f0, b) = RenderWith(f, b)
      <4> HIDE DEF f
      <4> QED BY <1>1, <3>1
    <3> QED BY <3>2
  <2>2. f = [b \in Pages |-> f[b]]
    OBVIOUS
  <2> HIDE DEF f
  <2> QED BY <1>0, <2>1, <2>2
<1>3. ASSUME NEW n \in 0 .. N - 1, n \in S PROVE n + 1 \in S
  <2>1. PICK f : f = [b \in Pages |-> f[b]] /\ Defined(f, n)
    BY <1>3
  <2> DEFINE a == N - (n + 1)
             g == [b \in Pages |-> IF b = a THEN RenderWith(f, b) ELSE f[b]]
  <2>2. a \in Pages /\ \A b \in Pages : a < b => N - n <= b
    BY <1>0
  <2>3. /\ \A b \in Pages : b # a => g[b] = f[b]
        /\ g[a] = RenderWith(f, a)
        /\ g = [b \in Pages |-> g[b]]
    BY <2>2
  <2> HIDE DEF g, a
  <2>4. ASSUME NEW b \in Pages, a <= b PROVE g[b] = RenderWith(g, b)
    <3>0. a \in Int /\ b \in Int
      BY <1>0, <2>2
    <3>1. \A c \in Pages : b < c => f[c] = g[c]
      BY <1>0, <2>3, <2>4, <3>0
    <3>2. RenderWith(f, b) = RenderWith(g, b)
      BY <1>1, <3>1
    <3>3. CASE b = a
      BY <2>3, <3>2, <3>3
    <3>4. CASE b # a
      <4>1. f[b] = RenderWith(f, b)
        BY <2>1, <2>2, <2>4, <3>0, <3>4
      <4> QED BY <2>3, <3>2, <3>4, <4>1
    <3> QED BY <3>3, <3>4
  <2>5. n + 1 \in 0 .. N /\ Defined(g, n + 1)
    BY <1>0, <2>4 DEF a
  <2> HIDE DEF Defined
  <2> QED BY <2>3, <2>5
<1>4. \A n \in 0 .. N : n \in S
  <2> HIDE DEF S, N
  <2> QED BY <1>0, <1>2, <1>3, Upward, Zenon
<1>5. PICK f : f = [b \in Pages |-> f[b]] /\ Defined(f, N)
  <2>1. N \in 0 .. N
    BY <1>0
  <2>2. N \in S
    BY <1>4, <2>1
  <2> HIDE DEF Defined
  <2> QED BY <2>2
<1>6. f = [b \in Pages |-> RenderWith(f, b)]
  <2>1. \A b \in Pages : f[b] = RenderWith(f, b)
    BY <1>0, <1>5
  <2> QED BY <1>5, <2>1, Zenon
<1> QED
  BY <1>6

\* What render_blocks makes of the children of a block.
LEMMA RenderedEquation ==
    ASSUME Tree, Collection(collected), NEW b \in Pages, NEW depth \in Nat
    PROVE  Rendered[b][depth] = FlattenSeq(Pieces(Rendered, b, depth))
<1>1. Rendered = CHOOSE f : f = [c \in Pages |-> RenderWith(f, c)]
  BY DEF Rendered, RenderWith, Pieces, Piece, Pages
<1>2. Rendered = [c \in Pages |-> RenderWith(Rendered, c)]
  BY <1>1, RenderedExists
<1>3. Rendered[b] = RenderWith(Rendered, b)
  BY <1>2
<1> QED
  BY <1>3 DEF RenderWith

\* What is shown at or under a block, and under it.
At(b)    == {x \in Shown : b \in Anc[x]}
Under(b) == {x \in Shown : b \in Anc[x] /\ x # b}

\* A block that is shown lies within max_depth and has a line.
LEMMA ShownBlocks ==
    ASSUME Tree, NEW x \in Shown
    PROVE  /\ x \in Blocks /\ x \in Pages /\ x \in Nat /\ x # 0
           /\ Level(x) \in Nat /\ Level(x) <= MaxDepth /\ kind[x] # "empty"
<1>1. x \in Blocks /\ Depth[x] <= MaxDepth /\ kind[x] # "empty"
  BY DEF Shown
<1>2. Blocks = 1 .. Len(kind) /\ Len(kind) \in Nat
  BY TreeSize
<1>3. Level(x) \in Nat
  BY <1>1, LevelOfChild
<1>4. Level(x) = Depth[x]
  BY <1>1, <1>2 DEF Level
<1> QED
  BY <1>1, <1>2, <1>3, <1>4 DEF Pages

\* The line of a block is a line.
LEMMA LineIsLine ==
    ASSUME Tree, NEW c \in Blocks
    PROVE  LineOf(c) \in Lines
<1>1. c \in Nat /\ Level(c) \in Int
  <2>1. Blocks = 1 .. Len(kind) /\ Len(kind) \in Nat
    BY TreeSize
  <2> QED BY <2>1, LevelOfChild
<1>2. Cardinality(Item(c)) \in Nat
  <2>1. IsFiniteSet(1 .. c)
    BY <1>1, FS_Interval
  <2>2. Item(c) \in SUBSET (1 .. c)
    BY DEF Item
  <2>3. IsFiniteSet(Item(c))
    BY <2>1, <2>2, FS_Subset
  <2> QED BY <2>3, FS_CardinalityType
<1> QED
  BY <1>1, <1>2 DEF LineOf, Line, Lines

\* A fetched page lists later blocks under earlier ones.
LEMMA FetchedIsCollection ==
    ASSUME Tree, collected \in [Pages -> Seq(Blocks)], Fetched(collected)
    PROVE  Collection(collected)
<1>1. ASSUME NEW b \in Pages, NEW i \in 1 .. Len(collected[b]) PROVE b < collected[b][i]
  <2>1. collected[b] = Children(b) \/ collected[b] = <<>>
    BY DEF Fetched
  <2>2. collected[b] = Children(b)
    BY <2>1
  <2>3. collected[b][i] \in Blocks /\ parent[collected[b][i]] = b
    BY <2>2, ChildrenListed
  <2> QED BY <2>3, TreeSize
<1> QED
  BY <1>1 DEF Collection

\* A block's line and those of the blocks under it.
LEMMA PieceLists ==
    ASSUME Tree, NEW b \in Pages, Level(b) < MaxDepth, collected[b] = Children(b),
           NEW i \in 1 .. Len(Children(b)),
           Lists(Rendered[Children(b)[i]][Level(b) + 2], Under(Children(b)[i]))
    PROVE  Lists(Piece(Rendered, b, Level(b) + 1, i), At(Children(b)[i]))
<1> DEFINE c == Children(b)[i]
           own == OwnLine(Children(b), i, Level(b) + 1)
           rest == Rendered[c][Level(b) + 2]
<1>0. MaxDepth \in Nat
  BY SizesAssumption
<1>1. c \in Blocks /\ parent[c] = b /\ c \in Pages /\ c \in Nat /\ c # 0
  BY ChildrenListed, TreeSize DEF Pages
<1>2. Level(c) = Level(b) + 1 /\ Level(c) \in Nat /\ Level(b) \in Int
  <2>1. Level(c) = Level(b) + 1 /\ Level(c) \in Nat
    BY <1>1, LevelOfChild
  <2>2. b = 0 \/ b \in Blocks
    BY TreeSize DEF Pages
  <2>3. Level(b) \in Int
    BY <2>2, LevelOfChild DEF Level
  <2> QED BY <2>1, <2>3
<1>3. Line(c, Level(b) + 1, Numbering(Children(b))[i]) = LineOf(c)
  BY <1>2, NumberingCounts DEF LineOf
<1>4. c \in Shown <=> kind[c] # "empty"
  BY <1>0, <1>1, <1>2 DEF Shown, Level
<1>5. c \in Anc[c] /\ \A x \in Under(c) : c < x
  <2>1. c \in Anc[c]
    BY <1>1, AboveIsBefore DEF Pages
  <2>2. ASSUME NEW x \in Under(c) PROVE c < x
    <3>1. x \in Pages /\ x \in Nat /\ c \in Anc[x] /\ x # c
      BY ShownBlocks DEF Under
    <3>2. Anc[x] \in SUBSET (0 .. x)
      BY <3>1, AboveIsBefore DEF Pages
    <3> QED BY <1>1, <3>1, <3>2
  <2> QED BY <2>1, <2>2
<1>6. Level(b) + 1 + 1 = Level(b) + 2
  BY <1>2
<1>7. Piece(Rendered, b, Level(b) + 1, i) = own \o rest
  BY <1>6, Zenon DEF Piece
<1>8. Lists(rest, Under(c))
  OBVIOUS
<1>9. CASE kind[c] # "empty"
  <2>1. own = <<LineOf(c)>>
    BY <1>3, <1>9 DEF OwnLine
  <2>2. Lists(own, {c})
    BY <1>1, <2>1, ListsOne, LineIsLine
  <2>3. At(c) = {c} \cup Under(c)
    BY <1>4, <1>5, <1>9 DEF At, Under
  <2>4. \A a \in {c}, x \in Under(c) : a < x
    BY <1>5
  <2> HIDE DEF own, rest, c
  <2>5. Lists(own \o rest, {c} \cup Under(c))
    BY <1>8, <2>2, <2>4, ListsBoth, Zenon
  <2> QED BY <1>7, <2>3, <2>5 DEF c
<1>10. CASE kind[c] = "empty"
  <2>1. own = <<>>
    BY <1>10 DEF OwnLine
  <2>2. At(c) = {} \cup Under(c)
    BY <1>4, <1>10 DEF At, Under
  <2>3. Lists(own, {})
    BY <2>1, ListsNothing
  <2> HIDE DEF own, rest, c
  <2>4. \A a \in {}, x \in Under(c) : a < x
    OBVIOUS
  <2>5. Lists(own \o rest, {} \cup Under(c))
    BY <1>8, <2>3, <2>4, ListsBoth, Zenon
  <2> QED BY <1>7, <2>2, <2>5 DEF c
<1> QED
  BY <1>9, <1>10

\* What is under a block is at one of its children, and in their order.
LEMMA UnderIsAtChildren ==
    ASSUME Tree, NEW b \in Pages
    PROVE  LET kids == Children(b)
           IN  /\ \A x : x \in Under(b) <=> \E i \in 1 .. Len(kids) : x \in At(kids[i])
               /\ \A i, j \in 1 .. Len(kids) : i < j =>
                     \A x \in At(kids[i]), y \in At(kids[j]) : x < y
<1> DEFINE kids == Children(b)
<1>0. /\ Len(kids) \in Nat
      /\ \A k \in 1 .. Len(kids) : kids[k] \in Blocks /\ kids[k] \in Pages /\ kids[k] \in Nat
                                    /\ parent[kids[k]] = b /\ b < kids[k]
      /\ \A k, m \in 1 .. Len(kids) : k < m => kids[k] < kids[m]
      /\ \A x \in Blocks : parent[x] = b => \E k \in 1 .. Len(kids) : kids[k] = x
      /\ b \in Nat /\ b \in 0 .. Len(kind)
  BY ChildrenListed, TreeSize DEF Pages
<1> HIDE DEF kids
<1>1. ASSUME NEW x \in Shown, NEW c \in Pages, c \in Anc[x] PROVE c <= x
  <2>1. x \in Pages
    BY ShownBlocks
  <2>2. Anc[x] \in SUBSET (0 .. x) /\ x \in Int
    BY <2>1, AboveIsBefore, TreeSize DEF Pages
  <2> QED BY <1>1, <2>2
<1>2. ASSUME NEW x \in Under(b) PROVE \E i \in 1 .. Len(kids) : x \in At(kids[i])
  <2>1. x \in Shown /\ b \in Anc[x] /\ x # b /\ x \in 0 .. Len(kind)
    BY ShownBlocks DEF Under, Pages
  <2>2. PICK k \in Blocks : parent[k] = b /\ k \in Anc[x]
    BY <2>1, ChildBetween
  <2>3. PICK i \in 1 .. Len(kids) : kids[i] = k
    BY <1>0, <2>2
  <2> QED BY <2>1, <2>2, <2>3 DEF At
<1>3. ASSUME NEW i \in 1 .. Len(kids), NEW x \in At(kids[i]) PROVE x \in Under(b)
  <2>1. x \in Shown /\ kids[i] \in Anc[x] /\ x \in 0 .. Len(kind) /\ x \in Nat
    BY ShownBlocks DEF At, Pages
  <2>2. kids[i] <= x /\ b < kids[i] /\ kids[i] \in Nat
    BY <1>0, <1>1, <2>1
  <2>3. Anc[kids[i]] \in SUBSET Anc[x]
    BY <2>1, AboveIsTransitive
  <2>4. b \in Anc[kids[i]]
    <3>1. kids[i] \in 0 .. Len(kind) /\ kids[i] # 0 /\ parent[kids[i]] = b
      BY <1>0 DEF Pages
    <3>2. Anc[kids[i]] = {kids[i]} \cup Anc[b]
      BY <3>1, AboveEquation
    <3>3. b \in Anc[b]
      BY <1>0, AboveIsBefore
    <3> QED BY <3>2, <3>3
  <2>5. x # b
    BY <1>0, <2>1, <2>2
  <2> QED BY <2>1, <2>3, <2>4, <2>5 DEF Under
<1>4. ASSUME NEW i \in 1 .. Len(kids), NEW j \in 1 .. Len(kids), i < j,
             NEW x \in At(kids[i]), NEW y \in At(kids[j])
      PROVE  x < y
  <2>1. /\ x \in Shown /\ kids[i] \in Anc[x] /\ x \in Nat /\ x \in 0 .. Len(kind)
        /\ y \in Shown /\ kids[j] \in Anc[y] /\ y \in Nat
    BY ShownBlocks DEF At, Pages
  <2>2. kids[j] <= y /\ kids[i] < kids[j] /\ kids[j] \in Nat
    BY <1>0, <1>1, <1>4, <2>1
  <2>3. ~(kids[j] <= x)
    <3> SUFFICES ASSUME kids[j] <= x PROVE FALSE
      OBVIOUS
    <3>1. kids[i] \in Blocks /\ kids[j] \in Blocks /\ parent[kids[i]] = parent[kids[j]]
      BY <1>0
    <3>2. kids[i] \notin Anc[x]
      BY <2>1, <2>2, <3>1, SiblingsApart
    <3> QED BY <2>1, <3>2
  <2> QED BY <2>1, <2>2, <2>3
<1> QED
  BY <1>2, <1>3, <1>4 DEF kids

\* A block's children rendered, when those of its children are.
LEMMA RenderStep ==
    ASSUME Tree, collected \in [Pages -> Seq(Blocks)], Fetched(collected), NEW b \in Pages,
           \A c \in Pages : b < c => Lists(Rendered[c][Level(c) + 1], Under(c))
    PROVE  Lists(Rendered[b][Level(b) + 1], Under(b))
<1> DEFINE kids == Children(b)
           depth == Level(b) + 1
           P == Pieces(Rendered, b, depth)
           N == Len(kids)
<1>0. MaxDepth \in Nat /\ depth \in Nat /\ Level(b) \in Int
  <2>1. b = 0 \/ b \in Blocks
    BY TreeSize DEF Pages
  <2>2. Level(b) \in Int /\ Level(b) >= -1
    BY <2>1, LevelOfChild DEF Level
  <2> QED BY <2>2, SizesAssumption
<1>1. Rendered[b][depth] = FlattenSeq(P)
  BY <1>0, FetchedIsCollection, RenderedEquation
<1>2. CASE ~(Level(b) < MaxDepth)
  <2>1. collected[b] = <<>>
    BY <1>2 DEF Fetched
  <2>2. P = <<>>
    BY <2>1 DEF Pieces
  <2>3. FlattenSeq(P) = <<>>
    BY <2>2 DEF FlattenSeq
  <2>4. Under(b) = {}
    <3> SUFFICES ASSUME NEW x \in Under(b) PROVE FALSE
      OBVIOUS
    <3>1. x \in Shown /\ b \in Anc[x] /\ x # b
      BY DEF Under
    <3>2. x \in Pages /\ Level(x) \in Nat /\ Level(x) <= MaxDepth
      BY <3>1, ShownBlocks
    <3>3. Level(b) < Level(x)
      BY <3>1, <3>2, LevelGrows DEF Pages
    <3> QED BY <1>0, <1>2, <3>2, <3>3
  <2> QED BY <1>1, <2>3, <2>4, ListsNothing
<1>3. CASE Level(b) < MaxDepth
  <2>1. collected[b] = kids /\ N \in Nat /\ Len(P) = N
    BY <1>3, ChildrenListed DEF Fetched, Pieces
  <2>2. ASSUME NEW i \in 1 .. N PROVE Lists(P[i], At(kids[i]))
    <3>1. P[i] = Piece(Rendered, b, depth, i)
      BY <2>1 DEF Pieces
    <3>2. kids[i] \in Pages /\ b < kids[i] /\ Level(kids[i]) + 1 = Level(b) + 2
      <4>1. kids[i] \in Blocks /\ parent[kids[i]] = b
        BY ChildrenListed
      <4>2. Level(kids[i]) = Level(b) + 1
        BY <4>1, LevelOfChild
      <4> QED BY <1>0, <4>1, <4>2, TreeSize DEF Pages
    <3>3. Lists(Rendered[kids[i]][Level(b) + 2], Under(kids[i]))
      BY <3>2
    <3> QED BY <1>3, <2>1, <3>1, <3>3, PieceLists
  <2>3. P \in Seq(Seq(Lines))
    <3>1. \A i \in 1 .. N : P[i] \in Seq(Lines)
      BY <2>2 DEF Lists
    <3>2. P = [i \in 1 .. N |-> P[i]]
      BY <2>1 DEF Pieces
    <3> HIDE DEF P
    <3> QED BY <2>1, <3>1, <3>2
  <2>4. PICK f \in [0 .. Len(P) -> Seq(Lines)] :
             /\ f[0] = <<>> /\ FlattenSeq(P) = f[Len(P)]
             /\ \A n \in 1 .. Len(P) : f[n] = f[n - 1] \o P[n]
    BY <2>3, Flattened
  <2> DEFINE First(n) == {x \in Under(b) : \E i \in 1 .. n : x \in At(kids[i])}
             S == {n \in 0 .. N : Lists(f[n], First(n))}
  <2>5. /\ \A x : x \in Under(b) <=> \E i \in 1 .. N : x \in At(kids[i])
        /\ \A i, j \in 1 .. N : i < j => \A x \in At(kids[i]), y \in At(kids[j]) : x < y
    BY UnderIsAtChildren
  <2> HIDE DEF P, kids
  <2>6. 0 \in S
    <3>1. First(0) = {}
      OBVIOUS
    <3>2. Lists(f[0], First(0))
      BY <2>4, <3>1, ListsNothing
    <3>3. 0 \in 0 .. N
      BY <2>1
    <3> HIDE DEF First
    <3> QED BY <3>2, <3>3
  <2>7. ASSUME NEW n \in 0 .. N - 1, n \in S PROVE n + 1 \in S
    <3> DEFINE m == n + 1
    <3>1. m \in 1 .. N /\ m \in 0 .. N /\ m - 1 = n /\ m \in 1 .. Len(P) /\ N \in Nat
      BY <2>1
    <3>2. f[m] = f[n] \o P[m]
      <4> HIDE DEF m, N
      <4> QED BY <2>4, <3>1, Zenon
    <3>3. Lists(f[n], First(n)) /\ Lists(P[m], At(kids[m]))
      BY <2>2, <2>7, <3>1
    <3>4. \A x \in First(n), y \in At(kids[m]) : x < y
      <4> TAKE x \in First(n), y \in At(kids[m])
      <4>1. PICK i \in 1 .. n : x \in At(kids[i])
        OBVIOUS
      <4>2. i \in 1 .. N /\ i < m
        BY <3>1
      <4> QED BY <2>5, <3>1, <4>1, <4>2
    <3>5. First(m) = First(n) \cup At(kids[m])
      <4>1. \A i \in 1 .. m : i = m \/ i \in 1 .. n
        BY <3>1
      <4>2. m \in 1 .. m /\ \A i \in 1 .. n : i \in 1 .. m
        BY <3>1
      <4>3. \A x \in At(kids[m]) : x \in Under(b)
        BY <2>5, <3>1
      <4> HIDE DEF m, N
      <4> QED BY <4>1, <4>2, <4>3
    <3> HIDE DEF First
    <3>6. Lists(f[n] \o P[m], First(n) \cup At(kids[m]))
      BY <3>3, <3>4, ListsBoth, Zenon
    <3> QED BY <3>1, <3>2, <3>5, <3>6
  <2>8. N \in S
    <3>1. \A n \in 0 .. N : n \in S
      <4> HIDE DEF S, N
      <4> QED BY <2>1, <2>6, <2>7, Upward, Zenon
    <3> QED BY <2>1, <3>1
  <2>9. First(N) = Under(b)
    BY <2>5
  <2> QED BY <1>1, <2>1, <2>4, <2>8, <2>9
<1> QED
  BY <1>2, <1>3

\* render_blocks makes of the page's blocks the lines of those to be shown, in
\* document order.
LEMMA RenderLists ==
    ASSUME Tree, collected \in [Pages -> Seq(Blocks)], Fetched(collected)
    PROVE  Lists(Render, Shown)
<1> DEFINE N == Len(kind)
           S == {b \in Pages : Lists(Rendered[b][Level(b) + 1], Under(b))}
<1>0. N \in Nat /\ Pages = 0 .. N
  BY TreeSize DEF Pages
<1>1. ASSUME NEW b \in 0 .. N, \A c \in b + 1 .. N : c \in S PROVE b \in S
  <2>1. \A c \in Pages : b < c => c \in b + 1 .. N
    BY <1>0
  <2>2. \A c \in Pages : b < c => Lists(Rendered[c][Level(c) + 1], Under(c))
    BY <1>1, <2>1
  <2> QED BY <1>0, <2>2, RenderStep
<1>2. \A b \in 0 .. N : b \in S
  <2>1. 0 \in Int /\ N \in Int
    BY <1>0
  <2> HIDE DEF S, N
  <2> QED BY <1>1, <2>1, Downward, Zenon
<1>3. Lists(Rendered[0][Level(0) + 1], Under(0))
  BY <1>0, <1>2
<1>4. Level(0) + 1 = 0
  BY DEF Level
<1>5. Under(0) = Shown
  <2>1. ASSUME NEW x \in Shown PROVE 0 \in Anc[x] /\ x # 0
    <3>1. x \in Pages /\ x # 0
      BY ShownBlocks
    <3> QED BY <3>1, AboveIsBefore DEF Pages
  <2> QED BY <2>1 DEF Under
<1> QED
  BY <1>3, <1>4, <1>5 DEF Render

-----------------------------------------------------------------------------
(* Blank lines *)

\* The definition of BlanksCollapsed, as a function of itself.
Shrink(f, lines, n) == IF n = 0 THEN <<>> ELSE CollapseBlank(f[n - 1], lines[n])

\* There is a function that satisfies the definition of BlanksCollapsed.
LEMMA BlanksEquation ==
    ASSUME NEW lines \in Seq(Lines)
    PROVE  LET f == BlanksCollapsed(lines)
           IN  f[0] = <<>> /\ \A n \in 1 .. Len(lines) : f[n] = CollapseBlank(f[n - 1], lines[n])
<1> DEFINE A == Seq(Lines)
           L == Len(lines)
           none == <<>>
           step == [n \in 1 .. L |-> [s \in A |-> CollapseBlank(s, lines[n])]]
           f == CHOOSE h : h = [n \in 0 .. L |-> Shrink(h, lines, n)]
<1>0. L \in Nat /\ none \in A
  OBVIOUS
<1>1. step \in [1 .. L -> [A -> A]]
  <2>1. ASSUME NEW n \in 1 .. L, NEW s \in A PROVE CollapseBlank(s, lines[n]) \in A
    <3>1. lines[n] \in Lines
      OBVIOUS
    <3>2. Append(s, lines[n]) \in A
      BY <3>1
    <3> QED BY <3>2 DEF CollapseBlank
  <2> HIDE DEF A, L
  <2> QED BY <2>1
<1>2. PICK g : Iterates(g, A, L, none, step)
  <2> HIDE DEF step, L, A, none
  <2> QED BY <1>0, <1>1, Iterated, Zenon
<1>3. g = [n \in 0 .. L |-> Shrink(g, lines, n)]
  <2>1. g \in [0 .. L -> A] /\ g[0] = none /\ \A n \in 1 .. L : g[n] = step[n][g[n - 1]]
    BY <1>2 DEF Iterates
  <2>2. ASSUME NEW n \in 0 .. L, n # 0 PROVE g[n] = Shrink(g, lines, n)
    <3>1. n \in 1 .. L /\ n - 1 \in 0 .. L
      BY <1>0, <2>2
    <3>2. g[n] = step[n][g[n - 1]] /\ g[n - 1] \in A
      BY <2>1, <3>1
    <3>3. step[n] = [s \in A |-> CollapseBlank(s, lines[n])]
      BY <3>1
    <3> HIDE DEF step, A
    <3> QED BY <2>2, <3>2, <3>3 DEF Shrink
  <2>3. g[0] = Shrink(g, lines, 0)
    BY <2>1 DEF Shrink
  <2> HIDE DEF A, step
  <2> QED BY <2>1, <2>2, <2>3
<1>4. f = [n \in 0 .. L |-> Shrink(f, lines, n)]
  BY <1>3
<1>5. BlanksCollapsed(lines) = f
  BY DEF BlanksCollapsed, Shrink
<1> HIDE DEF f
<1>6. f[0] = <<>>
  BY <1>0, <1>4 DEF Shrink
<1>7. ASSUME NEW n \in 1 .. L PROVE f[n] = CollapseBlank(f[n - 1], lines[n])
  <2>1. n \in 0 .. L /\ n # 0
    BY <1>0
  <2>2. f[n] = Shrink(f, lines, n)
    BY <1>4, <2>1
  <2> QED BY <2>1, <2>2, Zenon DEF Shrink
<1> QED
  BY <1>5, <1>6, <1>7

\* Lines that stay when runs of blank ones are made one.
Stays(lines, n) == ~IsBlank(lines[n]) \/ n = 1 \/ ~IsBlank(lines[n - 1])

\* Of lines that list blocks, collapsing leaves those that stay.
LEMMA BlanksLists ==
    ASSUME NEW lines, NEW S \in SUBSET Nat, Lists(lines, S)
    PROVE  Lists(BlanksCollapsed(lines)[Len(lines)],
                 {lines[k].block : k \in {i \in 1 .. Len(lines) : Stays(lines, i)}})
<1> DEFINE L == Len(lines)
           f == BlanksCollapsed(lines)
           Staying(n) == {lines[k].block : k \in {i \in 1 .. n : Stays(lines, i)}}
           Good(n) == /\ Lists(f[n], Staying(n))
                      /\ n # 0 => /\ f[n] # <<>>
                                  /\ IsBlank(Last(f[n])) <=> IsBlank(lines[n])
           P == {n \in 0 .. L : Good(n)}
<1>0. L \in Nat /\ lines \in Seq(Lines)
  BY DEF Lists
<1>1. f[0] = <<>> /\ \A n \in 1 .. L : f[n] = CollapseBlank(f[n - 1], lines[n])
  BY <1>0, BlanksEquation
<1>2. \A i \in 1 .. L : /\ lines[i].block \in S /\ lines[i].block \in Nat
                        /\ lines[i] = LineOf(lines[i].block) /\ lines[i] \in Lines
  <2> TAKE i \in 1 .. L
  <2>1. lines[i] \in Lines
    BY <1>0
  <2>2. lines[i].block \in S /\ lines[i] = LineOf(lines[i].block)
    BY DEF Lists
  <2>3. lines[i].block \in Nat
    BY <2>2
  <2> QED BY <2>1, <2>2, <2>3
<1>3. \A i, j \in 1 .. L : i < j => lines[i].block < lines[j].block
  BY DEF Lists
<1> HIDE DEF f
<1>4. 0 \in P
  <2>1. Staying(0) = {}
    OBVIOUS
  <2>2. Lists(f[0], Staying(0))
    BY <1>1, <2>1, ListsNothing
  <2>3. 0 \in 0 .. L
    BY <1>0
  <2> HIDE DEF Staying
  <2> QED BY <2>2, <2>3
<1>5. ASSUME NEW n \in 0 .. L - 1, n \in P PROVE n + 1 \in P
  <2> DEFINE m == n + 1
             b == lines[m].block
  <2>1. /\ m \in 1 .. L /\ m \in 0 .. L /\ m - 1 = n /\ m # 0 /\ (m = 1 <=> n = 0)
        /\ \A i \in 1 .. m : i = m \/ i \in 1 .. n
        /\ \A i \in 1 .. n : i \in 1 .. m /\ i \in 1 .. L /\ i < m
        /\ m \in 1 .. m
    BY <1>0
  <2> HIDE DEF m
  <2>2. f[m] = CollapseBlank(f[n], lines[m])
    BY <1>1, <2>1
  <2>3. Good(n)
    BY <1>5
  <2>4. CASE ~Stays(lines, m)
    <3>1. IsBlank(lines[m]) /\ n # 0 /\ IsBlank(lines[n])
      BY <2>1, <2>4 DEF Stays
    <3>2. f[m] = f[n]
      BY <2>2, <2>3, <3>1 DEF CollapseBlank
    <3>3. Staying(m) = Staying(n)
      BY <2>1, <2>4
    <3>4. f[n] # <<>> /\ IsBlank(Last(f[n])) /\ Lists(f[n], Staying(n))
      BY <2>3, <3>1
    <3> HIDE DEF Staying
    <3>5. Good(m)
      BY <3>1, <3>2, <3>3, <3>4
    <3> HIDE DEF Good
    <3> QED BY <2>1, <3>5 DEF m
  <2>5. CASE Stays(lines, m)
    <3>1. f[m] = Append(f[n], lines[m])
      <4>1. ~(IsBlank(lines[m]) /\ f[n] # <<>> /\ IsBlank(Last(f[n])))
        BY <1>1, <2>1, <2>3, <2>5 DEF Stays
      <4> QED BY <2>2, <4>1 DEF CollapseBlank
    <3>2. f[n] \in Seq(Lines) /\ lines[m] \in Lines /\ b \in Nat /\ lines[m] = LineOf(b)
      BY <1>2, <2>1, <2>3 DEF Lists
    <3>3. f[m] = f[n] \o <<LineOf(b)>>
      <4> HIDE DEF b
      <4> QED BY <3>1, <3>2, AppendIsConcat
    <3>4. Staying(m) = Staying(n) \cup {b}
      <4>1. ASSUME NEW x \in Staying(m) PROVE x \in Staying(n) \cup {b}
        <5>1. PICK k \in 1 .. m : Stays(lines, k) /\ x = lines[k].block
          OBVIOUS
        <5> QED BY <2>1, <5>1
      <4>2. ASSUME NEW x \in Staying(n) PROVE x \in Staying(m)
        <5>1. PICK k \in 1 .. n : Stays(lines, k) /\ x = lines[k].block
          OBVIOUS
        <5> QED BY <2>1, <5>1
      <4>3. b \in Staying(m)
        BY <2>1, <2>5
      <4> HIDE DEF Staying
      <4> QED BY <4>1, <4>2, <4>3
    <3>5. \A a \in Staying(n), c \in {b} : a < c
      BY <1>3, <2>1
    <3>6. Lists(f[n], Staying(n)) /\ Lists(<<LineOf(b)>>, {b})
      BY <2>3, <3>2, ListsOne
    <3> HIDE DEF Staying, b
    <3>7. Lists(f[m], Staying(m))
      BY <3>3, <3>4, <3>5, <3>6, ListsBoth
    <3>8. f[m] # <<>> /\ Last(f[m]) = lines[m]
      BY <3>1, <3>2 DEF Last
    <3>9. Good(m)
      BY <3>7, <3>8
    <3> HIDE DEF Good
    <3> QED BY <2>1, <3>9 DEF m
  <2> QED BY <2>4, <2>5
<1>6. \A n \in 0 .. L : n \in P
  <2> HIDE DEF P, L
  <2> QED BY <1>0, <1>4, <1>5, Upward, Zenon
<1>7. L \in P
  <2>1. L \in 0 .. L
    BY <1>0
  <2> HIDE DEF P
  <2> QED BY <1>6, <2>1
<1> QED
  BY <1>7 DEF f

-----------------------------------------------------------------------------
(* The description *)

\* A part of lines that list blocks lists its own.
LEMMA ListsMiddle ==
    ASSUME NEW s, NEW S, Lists(s, S), NEW a \in 1 .. Len(s), NEW z \in 1 .. Len(s), a <= z
    PROVE  Lists(SubSeq(s, a, z), {b \in S : \E k \in a .. z : s[k].block = b})
<1> DEFINE t == SubSeq(s, a, z)
           U == {b \in S : \E k \in a .. z : s[k].block = b}
<1>1. s \in Seq(Lines) /\ Len(s) \in Nat
  BY DEF Lists
<1>2. /\ t \in Seq(Lines) /\ Len(t) = z - a + 1
      /\ \A i \in 1 .. z - a + 1 : t[i] = s[a + i - 1]
  <2>1. \A k \in a .. z : s[k] \in Lines
    BY <1>1
  <2> QED BY <1>1, <2>1, SubSeqProperties
<1> HIDE DEF t
<1>3. \A i \in 1 .. Len(t) : a + i - 1 \in a .. z /\ a + i - 1 \in 1 .. Len(s) /\ t[i] = s[a + i - 1]
  BY <1>1, <1>2
<1>4. \A k \in a .. z : k - a + 1 \in 1 .. Len(t) /\ t[k - a + 1] = s[k] /\ k \in 1 .. Len(s)
  <2> TAKE k \in a .. z
  <2>1. k - a + 1 \in 1 .. z - a + 1 /\ a + (k - a + 1) - 1 = k /\ k \in 1 .. Len(s)
    BY <1>1
  <2> QED BY <1>2, <2>1
<1>5. ASSUME NEW i \in 1 .. Len(t) PROVE t[i].block \in U /\ t[i] = LineOf(t[i].block)
  <2>1. a + i - 1 \in a .. z /\ a + i - 1 \in 1 .. Len(s) /\ t[i] = s[a + i - 1]
    BY <1>3
  <2>2. t[i].block \in S /\ t[i] = LineOf(t[i].block)
    BY <2>1 DEF Lists
  <2> QED BY <2>1, <2>2
<1>6. ASSUME NEW i \in 1 .. Len(t), NEW j \in 1 .. Len(t), i < j PROVE t[i].block < t[j].block
  <2>1. a + i - 1 < a + j - 1
    BY <1>1, <1>2, <1>6
  <2> QED BY <1>3, <2>1 DEF Lists
<1>7. ASSUME NEW b \in U PROVE \E i \in 1 .. Len(t) : t[i].block = b
  <2>1. PICK k \in a .. z : s[k].block = b
    OBVIOUS
  <2> QED BY <1>4, <2>1
<1> HIDE DEF U
<1>8. Lists(t, U)
  BY <1>2, <1>5, <1>6, <1>7 DEF Lists
<1> QED
  BY <1>8 DEF t, U

\* Which of the lines stay: texts, and blanks with a text right before them.
LEMMA StayingBlocks ==
    ASSUME Tree, NEW lines, Lists(lines, Shown), NEW k \in 1 .. Len(lines)
    PROVE  LET b == lines[k].block
           IN  /\ b \in Shown
               /\ IsBlank(lines[k]) <=> b \notin Texts
               /\ k = 1 <=> ~\E c \in Shown : c < b
               /\ k # 1 => Max({c \in Shown : c < b}) = lines[k - 1].block
<1> DEFINE b == lines[k].block
           L == Len(lines)
           before == {c \in Shown : c < b}
<1>0. L \in Nat /\ lines \in Seq(Lines)
  BY DEF Lists
<1>1. \A i \in 1 .. L : lines[i].block \in Shown
  BY DEF Lists
<1>2. \A i, j \in 1 .. L : i < j => lines[i].block < lines[j].block
  BY DEF Lists
<1>3. \A c \in Shown : \E i \in 1 .. L : lines[i].block = c
  BY DEF Lists
<1>4. Shown \in SUBSET Nat /\ b \in Shown /\ b \in Nat
  BY <1>1, ShownBlocks
<1>5. IsBlank(lines[k]) <=> b \notin Texts
  BY <1>4 DEF IsBlank, Texts
<1>6. ASSUME NEW c \in before PROVE \E i \in 1 .. k - 1 : i \in 1 .. L /\ lines[i].block = c
  <2>1. PICK i \in 1 .. L : lines[i].block = c
    BY <1>3
  <2>2. c \in Nat /\ c < b
    BY <1>4
  <2>3. i # k /\ ~(k < i)
    BY <1>2, <1>4, <2>1, <2>2
  <2> QED BY <1>0, <2>1, <2>3
<1>7. CASE k = 1
  <2>1. before = {}
    BY <1>6, <1>7
  <2> QED BY <1>4, <1>5, <1>7, <2>1
<1>8. CASE k # 1
  <2> DEFINE p == lines[k - 1].block
  <2>1. k - 1 \in 1 .. L /\ k - 1 < k
    BY <1>0, <1>8
  <2>2. p \in before /\ p \in Nat
    BY <1>1, <1>2, <1>4, <2>1
  <2>3. ASSUME NEW c \in before PROVE c <= p
    <3>1. PICK i \in 1 .. k - 1 : i \in 1 .. L /\ lines[i].block = c
      BY <1>6
    <3>2. i = k - 1 \/ i < k - 1
      BY <2>1
    <3>3. c = p \/ c < p
      BY <1>2, <2>1, <3>1, <3>2
    <3> QED BY <1>4, <2>2, <3>3
  <2> HIDE DEF before, p
  <2>4. Max(before) = p
    <3>1. before \in SUBSET Nat /\ before # {}
      BY <1>4, <2>2 DEF before
    <3>2. \A c \in before : c <= b
      BY <1>4 DEF before
    <3>3. Max(before) \in before /\ \A c \in before : c <= Max(before)
      BY <1>4, <3>1, <3>2, MaxOfBounded
    <3>4. Max(before) <= p /\ p <= Max(before) /\ Max(before) \in Nat
      BY <2>2, <2>3, <3>1, <3>3
    <3> QED BY <2>2, <3>4
  <2>5. \E c \in Shown : c < b
    BY <2>2 DEF before
  <2> QED BY <1>4, <1>5, <1>8, <2>4, <2>5 DEF before, p
<1> QED
  BY <1>7, <1>8

\* Without the lines before the first text and behind the last one.
LEMMA StrippedIsKept ==
    ASSUME Tree, NEW lines, Lists(lines, Shown), NEW s,
           Lists(s, {lines[k].block : k \in {i \in 1 .. Len(lines) : Stays(lines, i)}})
    PROVE  LET texts == {i \in DOMAIN s : ~IsBlank(s[i])}
           IN  /\ texts = {} => Texts = {}
               /\ texts # {} => /\ Lists(SubSeq(s, Min(texts), Max(texts)), Kept)
                                /\ Min(texts) \in DOMAIN s /\ Max(texts) \in DOMAIN s
                                /\ Min(texts) <= Max(texts) /\ Texts # {}
<1> DEFINE L == Len(lines)
           S == {lines[k].block : k \in {i \in 1 .. L : Stays(lines, i)}}
           texts == {i \in DOMAIN s : ~IsBlank(s[i])}
           Previous(b) == Max({c \in Shown : c < b})
<1>0. L \in Nat /\ s \in Seq(Lines) /\ Len(s) \in Nat /\ DOMAIN s = 1 .. Len(s)
  BY DEF Lists
<1>1. \A k \in 1 .. L : LET b == lines[k].block
                       IN  /\ b \in Shown
                           /\ IsBlank(lines[k]) <=> b \notin Texts
                           /\ k = 1 <=> ~\E c \in Shown : c < b
                           /\ k # 1 => Previous(b) = lines[k - 1].block
  BY StayingBlocks
<1>2. Shown \in SUBSET Nat /\ Texts \in SUBSET Shown
  BY ShownBlocks DEF Texts
<1>3. \A b : b \in S <=> /\ b \in Shown
                         /\ \/ b \in Texts \/ ~\E c \in Shown : c < b
                            \/ Previous(b) \in Texts
  <2>1. ASSUME NEW k \in 1 .. L
        PROVE  Stays(lines, k) <=> LET b == lines[k].block
                                   IN  \/ b \in Texts \/ ~\E c \in Shown : c < b
                                       \/ Previous(b) \in Texts
    <3> DEFINE b == lines[k].block
    <3>1. /\ IsBlank(lines[k]) <=> b \notin Texts
          /\ k = 1 <=> ~\E c \in Shown : c < b
          /\ k # 1 => Previous(b) = lines[k - 1].block
      BY <1>1
    <3>2. k # 1 => (IsBlank(lines[k - 1]) <=> lines[k - 1].block \notin Texts)
      <4> SUFFICES ASSUME k # 1 PROVE k - 1 \in 1 .. L
        BY <1>1
      <4> QED BY <1>0
    <3> HIDE DEF Previous, b
    <3>3. CASE k = 1
      BY <3>1, <3>3 DEF Stays, b
    <3>4. CASE k # 1
      BY <3>1, <3>2, <3>4 DEF Stays, b
    <3> QED BY <3>3, <3>4
  <2>2. \A b \in Shown : \E k \in 1 .. L : lines[k].block = b
    BY DEF Lists
  <2> HIDE DEF Previous, L
  <2>3. ASSUME NEW b \in S
        PROVE  b \in Shown /\ (\/ b \in Texts \/ ~\E c \in Shown : c < b
                               \/ Previous(b) \in Texts)
    <3>1. PICK k \in 1 .. L : Stays(lines, k) /\ b = lines[k].block
      OBVIOUS
    <3> QED BY <1>1, <2>1, <3>1
  <2>4. ASSUME NEW b \in Shown, \/ b \in Texts \/ ~\E c \in Shown : c < b
                                \/ Previous(b) \in Texts
        PROVE  b \in S
    <3>1. PICK k \in 1 .. L : lines[k].block = b
      BY <2>2
    <3>2. Stays(lines, k)
      BY <2>1, <2>4, <3>1
    <3> QED BY <3>1, <3>2
  <2> HIDE DEF S
  <2> QED BY <2>3, <2>4
<1>4. /\ \A i \in 1 .. Len(s) : s[i].block \in S
      /\ \A i, j \in 1 .. Len(s) : i < j => s[i].block < s[j].block
      /\ \A b \in S : \E i \in 1 .. Len(s) : s[i].block = b
  BY DEF Lists
<1> HIDE DEF S, L
<1>5. \A i \in 1 .. Len(s) : /\ s[i].block \in Shown /\ s[i].block \in Nat
                             /\ IsBlank(s[i]) <=> s[i].block \notin Texts
  <2> TAKE i \in 1 .. Len(s)
  <2>1. s[i].block \in Shown
    BY <1>3, <1>4
  <2> QED BY <1>2, <2>1 DEF IsBlank, Texts
<1>6. \A i \in 1 .. Len(s) : i \in texts <=> s[i].block \in Texts
  <2> TAKE i \in 1 .. Len(s)
  <2>1. i \in DOMAIN s /\ (IsBlank(s[i]) <=> s[i].block \notin Texts)
    BY <1>0, <1>5
  <2>2. i \in texts <=> ~IsBlank(s[i])
    BY <2>1, Zenon
  <2> QED BY <2>1, <2>2, Zenon
<1>7. \A c \in Texts : \E i \in texts : s[i].block = c
  BY <1>0, <1>2, <1>3, <1>4, <1>6
<1>8. CASE texts = {}
  <2>1. Texts = {}
    BY <1>7, <1>8
  <2> QED BY <1>8, <2>1
<1>9. CASE texts # {}
  <2>0. texts \in SUBSET Nat /\ \A i \in texts : i <= Len(s)
    BY <1>0
  <2>1. PICK a \in texts : a = Min(texts) /\ \A i \in texts : a <= i
    BY <1>9, <2>0, MinOfNat
  <2>2. PICK z \in texts : z = Max(texts) /\ \A i \in texts : i <= z
    BY <1>0, <1>9, <2>0, MaxOfBounded
  <2>3. a \in 1 .. Len(s) /\ z \in 1 .. Len(s) /\ a <= z
    BY <1>0, <2>1, <2>2
  <2> DEFINE first == s[a].block
             last == s[z].block
  <2>4. first \in Texts /\ last \in Texts /\ first \in Nat /\ last \in Nat
    <3>1. first \in Texts /\ last \in Texts
      BY <1>6, <2>1, <2>2, <2>3, Zenon
    <3> HIDE DEF first, last
    <3> QED BY <1>2, <3>1
  <2> HIDE DEF texts, Previous
  <2>5. \A i, j \in 1 .. Len(s) : i <= j => s[i].block <= s[j].block
    <3> SUFFICES ASSUME NEW i \in 1 .. Len(s), NEW j \in 1 .. Len(s), i <= j
                 PROVE  s[i].block <= s[j].block
      OBVIOUS
    <3>1. i = j \/ i < j
      BY <1>0
    <3>2. s[i].block \in Nat /\ s[j].block \in Nat
      BY <1>5
    <3>3. s[i].block = s[j].block \/ s[i].block < s[j].block
      BY <1>4, <3>1
    <3> QED BY <3>2, <3>3
  <2>6. \A c \in Texts : first <= c /\ c <= last
    <3> TAKE c \in Texts
    <3>1. PICK i \in texts : s[i].block = c
      BY <1>7
    <3>2. i \in 1 .. Len(s) /\ a <= i /\ i <= z
      BY <1>0, <2>0, <2>1, <2>2, <3>1 DEF texts
    <3> QED BY <2>3, <2>5, <3>1, <3>2
  <2> DEFINE middle == {b \in S : \E k \in a .. z : s[k].block = b}
  <2>7. \A b \in S : b \in middle <=> first <= b /\ b <= last
    <3> TAKE b \in S
    <3>1. PICK k \in 1 .. Len(s) : s[k].block = b
      BY <1>4
    <3>2. ASSUME first <= b, b <= last PROVE k \in a .. z
      <4>1. ~(k < a) /\ ~(z < k)
        <5>1. b \in Nat /\ k \in 1 .. Len(s)
          BY <1>5, <3>1
        <5>2. k < a => b < first
          BY <1>4, <2>3, <3>1 DEF first
        <5>3. z < k => last < b
          BY <1>4, <2>3, <3>1 DEF last
        <5> QED BY <2>4, <3>2, <5>1, <5>2, <5>3
      <4> QED BY <1>0, <2>3, <4>1
    <3>3. ASSUME NEW m \in a .. z, s[m].block = b PROVE first <= b /\ b <= last
      <4>1. m \in 1 .. Len(s) /\ a <= m /\ m <= z
        BY <1>0, <2>3
      <4> QED BY <2>3, <2>5, <3>3, <4>1
    <3> QED BY <3>1, <3>2, <3>3
  <2> HIDE DEF first, last, middle
  <2>8. ASSUME NEW b \in Kept PROVE b \in middle
    <3>1. CASE b \in Texts
      BY <1>2, <1>3, <2>6, <2>7, <3>1
    <3>2. CASE b \notin Texts
      <4>1. /\ b \in Shown /\ b \in Nat /\ Previous(b) \in Texts
            /\ \E c, d \in Texts : c < b /\ b < d
        BY <1>2, <3>2 DEF Kept, Previous
      <4>2. PICK c \in Texts, d \in Texts : c < b /\ b < d
        BY <4>1
      <4>3. first <= b /\ b <= last
        <5>1. c \in Nat /\ d \in Nat /\ first <= c /\ d <= last
          BY <1>2, <2>6
        <5> QED BY <2>4, <4>1, <4>2, <5>1
      <4> QED BY <1>3, <2>7, <4>1, <4>3
    <3> QED BY <3>1, <3>2
  <2>9. ASSUME NEW b \in middle PROVE b \in Kept
    <3>1. b \in S /\ first <= b /\ b <= last /\ b \in Shown /\ b \in Nat
      <4>1. b \in S
        BY DEF middle
      <4>2. b \in Shown /\ b \in Nat
        BY <1>2, <1>3, <4>1
      <4> QED BY <2>7, <4>1, <4>2
    <3>2. CASE b \in Texts
      BY <3>2 DEF Kept
    <3>3. CASE b \notin Texts
      <4>1. first < b /\ b < last
        BY <2>4, <3>1, <3>3
      <4>2. first \in Shown
        BY <1>2, <2>4
      <4>3. Previous(b) \in Texts
        BY <1>3, <3>1, <3>3, <4>1, <4>2
      <4> QED BY <2>4, <3>1, <3>3, <4>1, <4>3 DEF Kept, Previous
    <3> QED BY <3>2, <3>3
  <2>10. middle = Kept
    BY <2>8, <2>9
  <2>11. Lists(SubSeq(s, a, z), middle)
    <3>1. Lists(s, S)
      BY DEF S, L
    <3>2. a \in 1 .. Len(s) /\ z \in 1 .. Len(s) /\ a <= z
      BY <2>3
    <3> QED BY <3>1, <3>2, ListsMiddle DEF middle
  <2>12. Texts # {}
    BY <2>4
  <2>13. /\ Lists(SubSeq(s, Min(texts), Max(texts)), Kept)
         /\ Min(texts) \in DOMAIN s /\ Max(texts) \in DOMAIN s
         /\ Min(texts) <= Max(texts)
    BY <1>0, <2>1, <2>2, <2>3, <2>10, <2>11
  <2> QED BY <1>9, <2>12, <2>13 DEF texts
<1> QED
  BY <1>8, <1>9

\* The body a page demands.
Demanded == LET order == InOrder(Kept)
            IN  [i \in DOMAIN order |-> Line(order[i],
                                             IF i = 1 THEN 0 ELSE Depth[order[i]],
                                             Cardinality(Item(order[i])))]

\* The blocks kept are blocks shown.
LEMMA KeptBlocks ==
    ASSUME Tree
    PROVE  Kept \in SUBSET Nat /\ IsFiniteSet(Kept) /\ Kept \in SUBSET Shown
<1>1. Kept \in SUBSET Shown
  BY DEF Kept, Texts
<1>2. Shown \in SUBSET Nat /\ Shown \in SUBSET Blocks
  BY ShownBlocks
<1>3. Blocks = 1 .. Len(kind) /\ Len(kind) \in Nat
  BY TreeSize
<1>4. IsFiniteSet(1 .. Len(kind))
  BY <1>3, FS_Interval
<1>5. Kept \in SUBSET (1 .. Len(kind))
  BY <1>1, <1>2, <1>3
<1>6. IsFiniteSet(Kept)
  BY <1>4, <1>5, FS_Subset
<1> QED
  BY <1>1, <1>2, <1>6

\* The final strip() takes the indentation of the first line.
LEMMA ListsDemanded ==
    ASSUME Tree, NEW t, Lists(t, Kept), t # <<>>
    PROVE  [t EXCEPT ![1].indent = 0] = Demanded
<1> DEFINE order == InOrder(Kept)
           n == Len(t)
           u == [i \in 1 .. n |-> t[i].block]
           m == [t EXCEPT ![1].indent = 0]
<1>0. t \in Seq(Lines) /\ n \in Nat \ {0} /\ DOMAIN t = 1 .. n
  BY DEF Lists
<1>1. /\ \A i \in 1 .. n : t[i].block \in Kept /\ t[i] = LineOf(t[i].block)
      /\ \A i, j \in 1 .. n : i < j => t[i].block < t[j].block
      /\ \A b \in Kept : \E i \in 1 .. n : t[i].block = b
  BY DEF Lists
<1>2. order = u
  <2>1. Enumerates(order, Kept)
    BY KeptBlocks, InOrderEnumerates
  <2>2. Enumerates(u, Kept)
    <3>1. u \in Seq(Kept) /\ Len(u) = n
      BY <1>0, <1>1
    <3>2. \A i \in 1 .. n : u[i] = t[i].block
      OBVIOUS
    <3> HIDE DEF u
    <3> QED BY <1>1, <3>1, <3>2 DEF Enumerates
  <2> HIDE DEF order, u
  <2> QED BY <2>1, <2>2, KeptBlocks, EnumerationIsUnique
<1>3. DOMAIN order = 1 .. n /\ \A i \in 1 .. n : order[i] = t[i].block
  BY <1>2
<1>4. \A i \in 1 .. n : t[i] = Line(order[i], Depth[order[i]], Cardinality(Item(order[i])))
  <2> TAKE i \in 1 .. n
  <2>1. order[i] # 0
    BY <1>1, <1>3, KeptBlocks, ShownBlocks
  <2>2. t[i] = LineOf(order[i])
    BY <1>1, <1>3
  <2> QED BY <2>1, <2>2, Zenon DEF LineOf, Level
<1> DEFINE at(i) == Line(order[i], IF i = 1 THEN 0 ELSE Depth[order[i]], Cardinality(Item(order[i])))
<1>5. Demanded = [i \in 1 .. n |-> at(i)]
  BY <1>3 DEF Demanded
<1> HIDE DEF order
<1>6. m = [i \in 1 .. n |-> IF i = 1 THEN [t[1] EXCEPT !.indent = 0] ELSE t[i]]
  BY <1>0
<1>7. ASSUME NEW i \in 1 .. n
      PROVE  (IF i = 1 THEN [t[1] EXCEPT !.indent = 0] ELSE t[i]) = at(i)
  <2>1. CASE i = 1
    <3>1. t[1] = Line(order[1], Depth[order[1]], Cardinality(Item(order[1])))
      BY <1>4, <2>1
    <3>2. [t[1] EXCEPT !.indent = 0] = Line(order[1], 0, Cardinality(Item(order[1])))
      BY <3>1 DEF Line
    <3> QED BY <2>1, <3>2
  <2>2. CASE i # 1
    BY <1>4, <2>2
  <2> QED BY <2>1, <2>2
<1> QED
  BY <1>5, <1>6, <1>7

\* The Markdown of a page fetched completely is the one demanded.
LEMMA MarkdownIsDemanded ==
    ASSUME Tree, collected \in [Pages -> Seq(Blocks)], Fetched(collected)
    PROVE  Markdown = Demanded /\ (Markdown = <<>> <=> Texts = {})
<1> DEFINE s == BlanksCollapsed(Render)[Len(Render)]
           texts == {i \in DOMAIN s : ~IsBlank(s[i])}
           t == SubSeq(s, Min(texts), Max(texts))
<1>1. Lists(Render, Shown)
  BY RenderLists
<1>2. Lists(s, {Render[k].block : k \in {i \in 1 .. Len(Render) : Stays(Render, i)}})
  <2>1. Shown \in SUBSET Nat
    BY ShownBlocks
  <2> QED BY <1>1, <2>1, BlanksLists
<1>3. Markdown = IF texts = {} THEN <<>> ELSE [t EXCEPT ![1].indent = 0]
  BY DEF Markdown
<1> HIDE DEF s
<1>4. /\ texts = {} => Texts = {}
      /\ texts # {} => /\ Lists(t, Kept)
                       /\ Min(texts) \in DOMAIN s /\ Max(texts) \in DOMAIN s
                       /\ Min(texts) <= Max(texts) /\ Texts # {}
  BY <1>1, <1>2, StrippedIsKept
<1>5. CASE texts = {}
  <2>1. Kept = {}
    BY <1>4, <1>5 DEF Kept
  <2>2. Len(InOrder(Kept)) = 0 /\ InOrder(Kept) \in Seq(Kept)
    BY <2>1, KeptBlocks, InOrderEnumerates, FS_EmptySet DEF Enumerates
  <2>3. DOMAIN InOrder(Kept) = {}
    BY <2>2
  <2>4. Demanded = <<>>
    BY <2>3 DEF Demanded
  <2> QED BY <1>3, <1>4, <1>5, <2>4
<1>6. CASE texts # {}
  <2> DEFINE a == Min(texts)
             z == Max(texts)
  <2>1. a \in 1 .. Len(s) /\ z \in 1 .. Len(s) /\ a <= z /\ s \in Seq(Lines)
    BY <1>2, <1>4, <1>6 DEF Lists
  <2> HIDE DEF a, z
  <2>2. Len(SubSeq(s, a, z)) = z - a + 1 /\ z - a + 1 # 0
    BY <2>1
  <2>3. t # <<>>
    BY <2>2 DEF a, z
  <2>4. Lists(t, Kept)
    BY <1>4, <1>6
  <2> HIDE DEF t, texts
  <2>5. Markdown = [t EXCEPT ![1].indent = 0]
    BY <1>3, <1>6
  <2>6. [t EXCEPT ![1].indent = 0] = Demanded
    BY <2>3, <2>4, ListsDemanded
  <2>7. [t EXCEPT ![1].indent = 0] # <<>>
    <3>1. t \in Seq(Lines) /\ DOMAIN [t EXCEPT ![1].indent = 0] = DOMAIN t /\ DOMAIN t # {}
      BY <2>3, <2>4 DEF Lists
    <3> QED BY <3>1
  <2>8. Texts # {}
    BY <1>4, <1>6 DEF texts, t
  <2> QED BY <2>5, <2>6, <2>7, <2>8
<1> QED
  BY <1>5, <1>6

\* The description in the coder's prompt is the page, every block of it down to
\* max_depth, or absent when a request failed: however the listings are cut into
\* requests, and for pages of any size.
THEOREM BodiesArePages == Spec => []BodyIsThePage
<1>1. PageInv => BodyIsThePage
  <2> SUFFICES ASSUME PageInv, pc = "coding"
               PROVE  /\ body = IF failed THEN <<>> ELSE Demanded
                      /\ "description" \in ToSet(sections) <=> ~failed /\ Texts # {}
    BY DEF BodyIsThePage, Demanded
  <2>1. /\ Tree /\ collected \in [Pages -> Seq(Blocks)]
        /\ IF failed THEN body = <<>> ELSE Fetched(collected) /\ body = Markdown
        /\ sections = IF body = <<>> THEN <<"title", "agreement">>
                      ELSE <<"title", "description", "agreement">>
    BY DEF PageInv
  <2>2. "description" \in ToSet(sections) <=> body # <<>>
    <3>1. /\ "description" \notin ToSet(<<"title", "agreement">>)
          /\ "description" \in ToSet(<<"title", "description", "agreement">>)
      BY DEF ToSet
    <3> QED BY <2>1, <3>1, Zenon
  <2>3. CASE failed
    BY <2>1, <2>2, <2>3
  <2>4. CASE ~failed
    <3>1. Markdown = Demanded /\ (Markdown = <<>> <=> Texts = {})
      BY <2>1, <2>4, MarkdownIsDemanded
    <3> QED BY <2>1, <2>2, <2>4, <3>1
  <2> QED BY <2>3, <2>4
<1> QED
  BY <1>1, PageInit, PageNext, PTL DEF Spec
=============================================================================
