------------------------------- MODULE Pages -------------------------------
(***************************************************************************)
(* One wiki page, the editor that agents change it with (shared/wiki/      *)
(* editor.py over parser.py, schema.py and items.py), lint's repair, and   *)
(* the humans who edit the same text by hand.                              *)
(*                                                                         *)
(* A page is its lines. A line is what the format tells apart: a section   *)
(* header, a fence marker, an item with its block id, or prose. Blank      *)
(* lines and the bytes of a line are left out; whether the last line ends  *)
(* with a newline is not, since the next header would be glued to it.      *)
(***************************************************************************)
EXTENDS Naturals, Sequences, FiniteSets, FiniteSetsExt

CONSTANTS
    Order,      \* the sections of the page's type, in schema order
    Owner,      \* who owns each of them
    Alias,      \* SECTION_ALIASES, for the aliases of these sections
    Humans,     \* lines a human may add, each at most once
    BlockIds,   \* block ids of items
    MaxWrites,  \* bound on the agents' writes
    MaxEdits    \* bound on the humans' edits

Titles == {Order[i] : i \in DOMAIN Order}

ASSUME PagesAssumption ==
    /\ Order \in Seq(Titles) /\ DOMAIN Owner = Titles
    /\ \A ti \in Titles : Owner[ti] \in {"human", "shared", "managed", "append", "derived"}
    /\ \A a \in DOMAIN Alias : a \notin Titles /\ Alias[a] \in Titles
    /\ MaxWrites \in Nat /\ MaxEdits \in Nat

VARIABLES
    lines,  \* the page's text below the frontmatter
    bare,   \* its last line has no newline
    made,   \* what the last agent's write meant the page to be, NoWrite after a human's edit
    writes, edits

vars == <<lines, bare, made, writes, edits>>

NoWrite == [by |-> "nobody"]

Head2(ti) == [is |-> "head", title |-> ti]    \* "## <title>"
Opens == [is |-> "open"]                      \* "<!-- watcher:<owner> -->"
Closes == [is |-> "close"]                    \* "<!-- /watcher -->"
Escaped == [is |-> "escaped"]                 \* a neutralised header or marker
Glued == [is |-> "glued"]                     \* a header after an unended line
Prose(w) == [is |-> "prose", word |-> w]
ItemLine(id, x) == [is |-> "item", id |-> id, text |-> x]

-----------------------------------------------------------------------------
(* parser.py                                                               *)

Headers(t) == {i \in DOMAIN t : t[i].is = "head"}

\* A header on an unended last line is none: it belongs to the body before.
RealHeaders(t, b) == Headers(t) \ (IF b THEN {Len(t)} ELSE {})

Above(S, i) == {j \in S : j > i}
EndOf(t, b, i) == IF Above(RealHeaders(t, b), i) = {} THEN Len(t) ELSE Min(Above(RealHeaders(t, b), i)) - 1

\* The i-th smallest element of a set of numbers.
Nth(S, i) == CHOOSE x \in S : Cardinality({y \in S : y <= x}) = i

\* The section of the header at h, with the lines up to the next one.
SectionAt(t, b, h) ==
    [title |-> t[h].title, body |-> SubSeq(t, h + 1, EndOf(t, b, h)),
     bare |-> b /\ EndOf(t, b, h) = Len(t) /\ h < Len(t)]

\* _split: the preamble and the sections.
Parse(t, b) ==
    LET hs == RealHeaders(t, b) IN
    [pre |-> SubSeq(t, 1, EndOf(t, b, 0)),
     bare |-> b /\ hs = {} /\ t # <<>>,
     sections |-> [i \in 1..Cardinality(hs) |-> SectionAt(t, b, Nth(hs, i))]]

\* Whether the i-th section, or the preamble, lacks its final newline.
Unended(p, i) == IF i = 0 THEN p.bare ELSE p.sections[i].bare

\* dump_page: a header after a body without a final newline is glued to it.
TextTo(p) ==
    LET text[i \in 0..Len(p.sections)] ==
            IF i = 0 THEN p.pre
            ELSE text[i - 1] \o <<IF Unended(p, i - 1) THEN Glued ELSE Head2(p.sections[i].title)>>
                             \o p.sections[i].body
    IN text

DumpFrom(p) == [lines |-> TextTo(p)[Len(p.sections)], bare |-> Unended(p, Len(p.sections))]

-----------------------------------------------------------------------------
(* schema.py and editor.py                                                 *)

\* canonical_section_title
Canonical(ti) == IF ti \in DOMAIN Alias THEN Alias[ti] ELSE ti

Matches(p, ti) == {i \in DOMAIN p.sections : Canonical(p.sections[i].title) = Canonical(ti)}

Rank(ti) == CHOOSE i \in DOMAIN Order : Order[i] = ti
Later(p, ti) == {i \in DOMAIN p.sections :
                    LET c == Canonical(p.sections[i].title) IN c \in Titles /\ Rank(c) > Rank(ti)}

Fenced(ti) == Owner[ti] \in {"managed", "append", "derived"}
Skeleton(ti) == IF Fenced(ti) THEN <<Opens, Closes>> ELSE <<>>

\* _with_section: a missing section goes before the first that comes later in
\* the schema; the text it follows gets the newline it may lack.
WithSection(p, ti) ==
    IF Matches(p, ti) # {} THEN p
    ELSE LET at == IF Later(p, ti) = {} THEN Len(p.sections) + 1 ELSE Min(Later(p, ti))
             ended == [i \in 1..(at - 1) |-> IF i = at - 1 THEN [p.sections[i] EXCEPT !.bare = FALSE]
                                             ELSE p.sections[i]]
             new == [title |-> ti, body |-> Skeleton(ti), bare |-> FALSE]
         IN [p EXCEPT !.bare = IF at = 1 THEN FALSE ELSE @,
                      !.sections = ended \o <<new>> \o SubSeq(p.sections, at, Len(p.sections))]

At(p, ti) == Min(Matches(p, ti))

\* BUG: only fence markers are escaped.
NeutraliseMutant(t) ==
    [i \in DOMAIN t |-> IF t[i].is \in {"open", "close"} THEN Escaped ELSE t[i]]

\* neutralise: no line of t opens a section, or opens or closes a fence.
Neutralise(t) ==
    [i \in DOMAIN t |-> IF t[i].is \in {"head", "open", "close"} THEN Escaped ELSE t[i]]

\* The elements of t at the places S.
Pick(t, S) == [k \in 1..Cardinality(S) |-> t[Nth(S, k)]]

Where(t, kind) == {i \in DOMAIN t : t[i].is = kind}

\* BUG: the fence ends at the last closing marker, not at the first.
SplitFenceMutant(t, b) ==
    LET open == IF Where(t, "open") = {} THEN 0 ELSE Min(Where(t, "open"))
        ends == Above(Where(t, "close"), open)
    IN IF open = 0 \/ ends = {}
       THEN [before |-> t \o <<Opens>>, inner |-> <<>>, after |-> <<Closes>>, bare |-> FALSE]
       ELSE [before |-> SubSeq(t, 1, open), inner |-> SubSeq(t, open + 1, Max(ends) - 1),
             after |-> SubSeq(t, Max(ends), Len(t)), bare |-> b]

\* _split_fence: from the first opening marker to the first closing one after
\* it; a section without both gets a fence of its own at its end.
SplitFence(t, b) ==
    LET open == IF Where(t, "open") = {} THEN 0 ELSE Min(Where(t, "open"))
        ends == Above(Where(t, "close"), open)
    IN IF open = 0 \/ ends = {}
       THEN [before |-> t \o <<Opens>>, inner |-> <<>>, after |-> <<Closes>>, bare |-> FALSE]
       ELSE [before |-> SubSeq(t, 1, open), inner |-> SubSeq(t, open + 1, Min(ends) - 1),
             after |-> SubSeq(t, Min(ends), Len(t)), bare |-> b]

FenceOf(p, ti) == SplitFence(p.sections[At(p, ti)].body, p.sections[At(p, ti)].bare)

WithBody(p, ti, t, b) ==
    [p EXCEPT !.sections[At(p, ti)] = [@ EXCEPT !.body = t, !.bare = b]]

\* set_fenced: everything inside the fence is replaced.
SetFenced(page, ti, t) ==
    LET p == WithSection(page, ti)
        f == FenceOf(p, ti)
    IN WithBody(p, ti, f.before \o Neutralise(t) \o f.after, f.bare)

\* append_lines: inside the fence of an append section, at the end of a
\* shared one; of a human one only for a confirmed proposal.
AppendLines(page, ti, t) ==
    LET p == WithSection(page, ti)
        f == FenceOf(p, ti)
        s == p.sections[At(p, ti)]
    IN IF t = <<>> THEN page
       ELSE IF Owner[ti] = "append"
       THEN WithBody(p, ti, f.before \o f.inner \o Neutralise(t) \o f.after, f.bare)
       ELSE WithBody(p, ti, s.body \o Neutralise(t), FALSE)

Items(t) == {t[i] : i \in Where(t, "item")}

\* append_items skips what is there already, by block id or by text, and what
\* came earlier in the same call.
NewItems(page, ti, items) ==
    LET there == IF Matches(page, ti) = {} THEN {} ELSE Items(page.sections[At(page, ti)].body)
        dup(i) == \E x \in there \cup {items[j] : j \in 1..(i - 1)} :
                     x.id = items[i].id \/ x.text = items[i].text
    IN Pick(items, {i \in DOMAIN items : ~dup(i)})

AppendItems(page, ti, items) == AppendLines(page, ti, NewItems(page, ti, items))

\* upsert_items: the first line of each incoming block id is replaced where
\* it stands, the rest is kept, and what found no line comes last.
UpsertItems(page, ti, items) ==
    LET p == WithSection(page, ti)
        f == FenceOf(p, ti)
        ids == {items[j].id : j \in DOMAIN items}
        new(id) == items[Max({j \in DOMAIN items : items[j].id = id})]
        first(i) == \A j \in Where(f.inner, "item") : f.inner[j].id = f.inner[i].id => i <= j
        kept == [i \in DOMAIN f.inner |->
                    IF f.inner[i].is = "item" /\ f.inner[i].id \in ids /\ first(i)
                    THEN new(f.inner[i].id) ELSE f.inner[i]]
        rest == Pick(items, {j \in DOMAIN items : \A y \in Items(f.inner) : y.id # items[j].id})
    IN WithBody(p, ti, f.before \o Neutralise(kept \o rest) \o f.after, f.bare)

\* lint's repair_missing_sections: skeletons at the end of the page, by the
\* sections' own titles (aliases are not looked at).
Missing(p) ==
    Pick(Order, {j \in DOMAIN Order :
        Fenced(Order[j]) /\ \A i \in DOMAIN p.sections : p.sections[i].title # Order[j]})

Repair(p) ==
    [p EXCEPT !.sections = @ \o [i \in DOMAIN Missing(p) |->
        [title |-> Missing(p)[i], body |-> <<Opens, Closes>>, bare |-> FALSE]]]

-----------------------------------------------------------------------------
(* Who changes the page: agents through the editor, humans as they like.   *)

Page == Parse(lines, bare)

\* How the text ends: with a newline, in a line without one, or in a header
\* without one, which is no header until something ends the line.
Ending == IF ~bare THEN "ended" ELSE IF lines[Len(lines)].is = "head" THEN "header" ELSE "bare"

\* read, edit, write: the dump of the edited page is the new text.
Saves(by, p) ==
    /\ writes < MaxWrites /\ writes' = writes + 1
    /\ made' = [by |-> by, page |-> p, was |-> Ending]
    /\ lines' = DumpFrom(p).lines /\ bare' = DumpFrom(p).bare
    /\ UNCHANGED edits

\* What a model may write: prose, and lines shaped like the page's structure.
Text == {<<Prose("agent")>>, <<Head2(Order[1])>>, <<Opens, Prose("agent"), Closes>>}
OwnedBy(owners) == {ti \in Titles : Owner[ti] \in owners}

Rewrite == \E ti \in OwnedBy({"managed", "derived"}), t \in Text : Saves("agent", SetFenced(Page, ti, t))

\* To a human's section only what a confirmed proposal adds.
Adds == \E ti \in OwnedBy({"append", "shared", "human"}), t \in Text :
            Saves("agent", AppendLines(Page, ti, t))

ItemLists == {<<ItemLine(i, "a")>> : i \in BlockIds}
        \cup {<<ItemLine(i, "b"), ItemLine(j, "a")>> : i, j \in BlockIds}

AddsItems == \E ti \in OwnedBy({"append"}), xs \in ItemLists : Saves("agent", AppendItems(Page, ti, xs))
Upserts == \E ti \in OwnedBy({"managed"}), xs \in ItemLists : Saves("agent", UpsertItems(Page, ti, xs))
Repairs == Saves("lint", Repair(Page))

Has(t, x) == \E i \in DOMAIN t : t[i] = x

\* A human adds a line of their own, or takes one line or an unwanted newline
\* away; an alias is one of the headers they may write.
HumanAdds ==
    /\ edits < MaxEdits /\ edits' = edits + 1
    /\ \E x \in {Prose(h) : h \in Humans} \cup {Head2(a) : a \in DOMAIN Alias}, i \in 0..Len(lines) :
          /\ ~Has(lines, x)
          /\ lines' = SubSeq(lines, 1, i) \o <<x>> \o SubSeq(lines, i + 1, Len(lines))
          /\ bare' \in IF i = Len(lines) /\ x.is = "prose" THEN BOOLEAN ELSE {bare}
    /\ made' = NoWrite
    /\ UNCHANGED writes

HumanDeletes ==
    /\ edits < MaxEdits /\ edits' = edits + 1
    /\ \E i \in DOMAIN lines :
          /\ lines' = SubSeq(lines, 1, i - 1) \o SubSeq(lines, i + 1, Len(lines))
          /\ bare' = (bare /\ i < Len(lines))
    /\ made' = NoWrite
    /\ UNCHANGED writes

\* new_page_sections: every section of the type, in schema order.
Init ==
    /\ lines = DumpFrom([pre |-> <<>>, bare |-> FALSE,
                         sections |-> [i \in DOMAIN Order |->
                            [title |-> Order[i], body |-> Skeleton(Order[i]), bare |-> FALSE]]]).lines
    /\ bare = FALSE
    /\ made = NoWrite
    /\ writes = 0 /\ edits = 0

Next == Rewrite \/ Adds \/ AddsItems \/ Upserts \/ Repairs \/ HumanAdds \/ HumanDeletes

Spec == Init /\ [][Next]_vars

-----------------------------------------------------------------------------
\* "Content can't break structure" (editor.py): whatever an agent writes, and
\* whatever a human has made of the page before, the text parses back to the
\* page the editor meant. Left out are a text that ends in a header without a
\* newline, which the next write makes a section of, and lint's repair of a
\* text without a final newline, which glues its header to the last line.
RoundTrip ==
    /\ made # NoWrite
    /\ made.was = "ended" \/ (made.was = "bare" /\ made.by = "agent")
    => Parse(lines, bare) = made.page

\* The lines of a human that are not inside a fence: after an opening marker
\* and before the first closing one that follows it in the section.
InsideFence(t, i) ==
    \E o \in Where(t, "open") :
        /\ o < i
        /\ \A j \in (o + 1)..(i - 1) : t[j].is \notin {"close", "head"}

\* "Bytes a human wrote before or after it survive every write" (editor.py),
\* from every page a human can make of it: no write of an agent takes away a
\* line of a human's that no opening marker stands before.
HumanTextKept ==
    [][made' # NoWrite /\ writes' # writes =>
         \A h \in Humans, i \in DOMAIN lines :
            lines[i] = Prose(h) /\ ~InsideFence(lines, i) => Has(lines', Prose(h))]_vars

=============================================================================
