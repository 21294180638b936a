------------------------------- MODULE TaskText -------------------------------
(***************************************************************************)
(* What a job makes of the text of its Notion page before the coder runs:  *)
(* the slug that names its branch and worktree, and the description in the *)
(* coder's prompt, fetched request by request and rendered to Markdown.    *)
(*                                                                         *)
(* A title is a sequence of characters, each one of a few classes, and a   *)
(* task's number is its count of digits, all of them 1, or 0 for None, as  *)
(* Notion numbers its tasks from 1 on.                                     *)
(* The blocks of a page are numbered in document order, 0 is the page      *)
(* itself, and nobody edits it while it is fetched.                        *)
(***************************************************************************)
EXTENDS Integers, SequencesExt

CONSTANTS MaxDigits,    \* bound: digits of a task's number
          MaxTitle,     \* bound: characters of a title
          MaxLen,       \* max_len of make_branch_slug
          NBlocks,      \* bound: blocks of a page
          PageSize,     \* children one request returns
          MaxDepth      \* max_depth of fetch_page_body

ASSUME SizesAssumption ==
    {MaxDigits, MaxTitle, MaxLen, NBlocks, PageSize, MaxDepth} \subseteq Nat \ {0}
ASSUME PrefixFits == MaxDigits + 7 <= MaxLen

VARIABLES number, title,    \* of the task
          kind, parent,     \* of each block of its page
          pc,               \* where the job is
          slug,
          frames,           \* calls of _fetch_blocks at work, the innermost last
          collected,        \* what they have collected, by the block listed
          failed,           \* history: a request failed
          body,             \* the page in Markdown
          sections          \* of the coder's prompt

task == <<number, title, kind, parent>>
vars == <<task, pc, slug, frames, collected, failed, body, sections>>

-----------------------------------------------------------------------------
(* make_branch_slug *)

\* A letter, a digit, the two characters that matter to git, and everything
\* that is not [a-zA-Z0-9._-]: spaces, Cyrillic, punctuation.
Chars == {"a", "1", "-", ".", "other"}

\* str.strip("-")
Strip(s) == LET kept == {i \in DOMAIN s : s[i] # "-"}
            IN  IF kept = {} THEN <<>> ELSE SubSeq(s, Min(kept), Max(kept))

\* Each other character becomes a dash: the runs collapse below.
Dashed(s) == [i \in DOMAIN s |-> IF s[i] = "other" THEN "-" ELSE s[i]]

AppendOnce(s, c) == IF c = "-" /\ s # <<>> /\ Last(s) = "-" THEN s ELSE Append(s, c)

\* The first n characters, each run of dashes made one dash.
Collapsed(s) ==
    LET upTo[n \in 0 .. Len(s)] == IF n = 0 THEN <<>> ELSE AppendOnce(upTo[n - 1], s[n])
    IN  upTo

Sanitized(s) == LET stripped == Strip(Dashed(s)) IN Collapsed(stripped)[Len(stripped)]

\* "task", a word of four letters.
Fallback == <<"a", "a", "a", "a">>

Digits(n) == [i \in 1 .. n |-> "1"]

\* Variant: no dash behind the number.
PrefixGlued(n) == IF n = 0 THEN <<>> ELSE <<"T", "-">> \o Digits(n)

\* "T-<number>-": the T is a capital, titles are in lower case.
Prefix(n) == IF n = 0 THEN <<>> ELSE <<"T", "-">> \o Digits(n) \o <<"-">>

\* The title's part of the slug, cut to what the prefix leaves of max_len.
Body(n, s) ==
    LET room == MaxLen - Len(Prefix(n))
        cut  == SubSeq(Sanitized(s), 1, Min({Len(Sanitized(s)), room}))
    IN  IF cut = <<>> THEN Fallback ELSE cut

\* Variant: the name is not stripped once more after it was cut.
SlugUnstripped(n, s) == Prefix(n) \o Body(n, s)

Slug(n, s) == Strip(Prefix(n) \o Body(n, s))

-----------------------------------------------------------------------------
(* The page, and its Markdown *)

\* "text" stands for every block that makes a line of its own, "blank" for an
\* empty paragraph, "empty" for any other block without text: it makes none.
Kinds == {"text", "numbered", "blank", "empty"}

Blocks == DOMAIN kind

\* A set of blocks as a sequence.
InOrder(S) ==
    [i \in 1 .. Cardinality(S) |-> CHOOSE b \in S : Cardinality({c \in S : c < b}) = i - 1]

Children(b) == InOrder({c \in Blocks : parent[c] = b})

\* A block and all blocks above it, up to the page.
Above(up) == LET above[b \in 0 .. Len(up)] == IF b = 0 THEN {0} ELSE {b} \cup above[up[b]]
             IN  above

\* A block's parent is the block before it or one of those above that.
InDocumentOrder(up) == \A b \in DOMAIN up : up[b] \in Above(up)[b - 1]

Line(b, indent, label) == [block |-> b, indent |-> indent, label |-> label]
IsBlank(line) == kind[line.block] = "blank"

\* numbered_idx behind each block of a list.
Numbering(list) ==
    LET upTo[i \in 0 .. Len(list)] ==
            IF i = 0 THEN 0 ELSE IF kind[list[i]] = "numbered" THEN upTo[i - 1] + 1 ELSE 0
    IN  upTo

\* The line of the i-th block of a list.
OwnLine(list, i, depth) == IF kind[list[i]] = "empty" THEN <<>>
                           ELSE <<Line(list[i], depth, Numbering(list)[i])>>

\* render_blocks, by the block whose children it is given and by depth.
Rendered ==
    LET render[b \in 0 .. Len(kind)] ==
            [depth \in Nat |->
                FlattenSeq([i \in 1 .. Len(collected[b]) |->
                    OwnLine(collected[b], i, depth) \o render[collected[b][i]][depth + 1]])]
    IN  render

Render == Rendered[0][0]

CollapseBlank(lines, line) == IF IsBlank(line) /\ lines # <<>> /\ IsBlank(Last(lines))
                              THEN lines ELSE Append(lines, line)

\* The first n lines, each run of blank ones made one.
BlanksCollapsed(lines) ==
    LET upTo[n \in 0 .. Len(lines)] == IF n = 0 THEN <<>> ELSE CollapseBlank(upTo[n - 1], lines[n])
    IN  upTo

\* blocks_to_markdown: the final strip() takes the indentation of the first
\* line with the blank lines before it.
Markdown ==
    LET lines == BlanksCollapsed(Render)[Len(Render)]
        texts == {i \in DOMAIN lines : ~IsBlank(lines[i])}
    IN  IF texts = {} THEN <<>>
        ELSE [SubSeq(lines, Min(texts), Max(texts)) EXCEPT ![1].indent = 0]

-----------------------------------------------------------------------------
\* The job begins with a task: any title and an empty page, or any page.
Init == /\ \/ /\ number \in 0 .. MaxDigits
              /\ \E n \in 0 .. MaxTitle : title \in [1 .. n -> Chars]
              /\ kind = <<>> /\ parent = <<>>
           \/ /\ number = 0 /\ title = <<"a">>
              /\ \E n \in 1 .. NBlocks :
                    /\ kind \in [1 .. n -> Kinds]
                    /\ parent \in {up \in [1 .. n -> 0 .. n - 1] : \A b \in 1 .. n : up[b] < b}
              /\ InDocumentOrder(parent)
        /\ pc = "slug"
        /\ slug = <<>>
        /\ frames = <<>>
        /\ collected = [b \in {0} \cup Blocks |-> <<>>]
        /\ failed = FALSE
        /\ body = <<>>
        /\ sections = <<>>

\* A page without a title is "(untitled)", which makes "untitled".
Untitled == <<"other", "a", "a", "a", "a", "a", "a", "a", "a", "other">>

\* A call of _fetch_blocks: seen of the got children are done with, and there
\* may be more to ask for.
Frame(b) == [of |-> b, got |-> 0, seen |-> 0, more |-> TRUE]

MakeSlug == /\ pc = "slug"
            /\ slug' = Slug(number, IF title = <<>> THEN Untitled ELSE title)
            /\ frames' = <<Frame(0)>>
            /\ pc' = "fetch"
            /\ UNCHANGED <<task, collected, failed, body, sections>>

\* One request for children of a block, from the cursor on ...
Request(f) ==
    LET got == Min({f.got + PageSize, Len(Children(f.of))})
    IN  /\ frames' = Append(Front(frames), [f EXCEPT !.got = got,
                                                    !.more = got < Len(Children(f.of))])
        /\ UNCHANGED <<pc, collected, failed>>

\* Variant: the children of a block whose listing failed are left out.
FailSwallowed(f) == /\ failed' = TRUE
                    /\ frames' = Append(Front(frames), [f EXCEPT !.more = FALSE])
                    /\ UNCHANGED <<pc, collected>>

\* ... which may fail, and then the whole body is empty.
FailRequest(f) == /\ failed' = TRUE
                  /\ frames' = <<>>
                  /\ collected' = [b \in {0} \cup Blocks |-> <<>>]
                  /\ pc' = "prompt"

\* The next child, and first its own children down to max_depth.
Collect(f) ==
    LET b     == Children(f.of)[f.seen + 1]
        under == IF Children(b) # <<>> /\ Len(frames) - 1 < MaxDepth THEN <<Frame(b)>> ELSE <<>>
    IN  /\ collected' = [collected EXCEPT ![f.of] = Append(@, b)]
        /\ frames' = Append(Front(frames), [f EXCEPT !.seen = @ + 1]) \o under
        /\ UNCHANGED <<pc, failed>>

FetchBlocks == /\ pc = "fetch" /\ frames # <<>>
               /\ LET f == Last(frames)
                  IN  \/ f.seen = f.got /\ f.more /\ (Request(f) \/ FailRequest(f))
                      \/ f.seen < f.got /\ Collect(f)
                      \/ /\ f.seen = f.got /\ ~f.more
                         /\ frames' = Front(frames)
                         /\ UNCHANGED <<pc, collected, failed>>
               /\ UNCHANGED <<task, slug, body, sections>>

\* fetch_page_body got all blocks.
RenderBody == /\ pc = "fetch" /\ frames = <<>>
              /\ body' = Markdown
              /\ pc' = "prompt"
              /\ UNCHANGED <<task, slug, frames, collected, failed, sections>>

\* build_coder_prompt
BuildPrompt == /\ pc = "prompt"
               /\ sections' = IF body = <<>> THEN <<"title", "agreement">>
                              ELSE <<"title", "description", "agreement">>
               /\ pc' = "coding"
               /\ UNCHANGED <<task, slug, frames, collected, failed, body>>

Next == MakeSlug \/ FetchBlocks \/ RenderBody \/ BuildPrompt

Spec == Init /\ [][Next]_vars

-----------------------------------------------------------------------------
(* Properties *)

Made == pc # "slug"

\* A slug is a name of at most max_len characters that no dash begins, ends or
\* repeats in, wherever the title was cut.
SlugIsTidy == Made =>
    /\ slug # <<>> /\ Len(slug) <= MaxLen
    /\ slug[1] # "-" /\ Last(slug) # "-"
    /\ \A i \in 2 .. Len(slug) : slug[i] = "-" => slug[i - 1] # "-"

\* The number a slug tells: the digits behind its first dash.
NumberIn(s) == IF s[1] # "T" THEN 0
               ELSE Cardinality({i \in 3 .. Len(s) : \A k \in 3 .. i : s[k] = "1"})

\* Two tasks with different numbers, or one without, never share a slug and with
\* it a branch and a worktree, whatever their titles: the number can be read off
\* the slug.
NumberIsReadBack == Made => NumberIn(slug) = number

\* How many blocks there are above a block.
Depth == [b \in Blocks |-> Cardinality(Above(parent)[b] \ {0, b})]

\* Blocks that are shown on a line, blank or not.
Shown == {b \in Blocks : Depth[b] <= MaxDepth /\ kind[b] # "empty"}
Texts == {b \in Shown : kind[b] # "blank"}

\* A blank line stays between two lines, as one.
Kept == Texts \cup {b \in Shown \ Texts :
                       /\ \E c, d \in Texts : c < b /\ b < d
                       /\ Max({c \in Shown : c < b}) \in Texts}

\* The items of the same list up to b.
Item(b) == {c \in 1 .. b : /\ parent[c] = parent[b]
                           /\ \A d \in c .. b : parent[d] = parent[b] => kind[d] = "numbered"}

\* The coder reads the page as it is: every block down to max_depth on a line of
\* its own, in document order, indented under its parent, list items numbered
\* through; or, when any request failed, no description instead of a part of it.
BodyIsThePage ==
    pc = "coding" =>
        /\ body = IF failed THEN <<>>
                  ELSE LET order == InOrder(Kept)
                       IN  [i \in DOMAIN order |-> Line(order[i],
                                                       IF i = 1 THEN 0 ELSE Depth[order[i]],
                                                       Cardinality(Item(order[i])))]
        /\ "description" \in ToSet(sections) <=> ~failed /\ Texts # {}

(* A promise of the repository the code does not keep *)

\* "Turn a task title into a safe git ref slug" (make_branch_slug): git refuses
\* ".." and a dot at the end of a ref, and one at the start of a component.
SlugIsSafeRef == Made =>
    /\ Last(slug) # "."
    /\ slug[1] # "."
    /\ \A i \in 2 .. Len(slug) : ~(slug[i] = "." /\ slug[i - 1] = ".")
=============================================================================
