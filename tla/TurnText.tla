------------------------------- MODULE TurnText --------------------------------
(* The algorithms the card of a tool call is made with, which need no state: an    *)
(* edit as a diff, an output clipped behind a button, a patch split into its files. *)
(* A text is the sequence of its lines; the pieces of an output and the lines of a *)
(* patch are told apart by what the parsers look at.                              *)
EXTENDS Naturals, Sequences, FiniteSetsExt

None == "none"

--------------------------------------------------------------------------------
(* The diff of an edit.                                                      *)

CommonPrefix(o, n) ==
    Max({p \in 0 .. Min({Len(o), Len(n)}) : \A i \in 1 .. p : o[i] = n[i]})
\* The longest common suffix of at most this length.
CommonSuffix(o, n, most) ==
    Max({s \in 0 .. most : \A i \in 0 .. s - 1 : o[Len(o) - i] = n[Len(n) - i]})
Rows(kind, lines) == [i \in DOMAIN lines |-> [kind |-> kind, text |-> lines[i]]]
Trimmed(o, n, p, s) ==
    Rows("kept", SubSeq(o, 1, p)) \o Rows("-", SubSeq(o, p + 1, Len(o) - s))
    \o Rows("+", SubSeq(n, p + 1, Len(n) - s)) \o Rows("kept", SubSeq(o, Len(o) - s + 1, Len(o)))
\* Mutant: the suffix may reach into the prefix.
DiffLinesOverlapping(o, n) ==
    Trimmed(o, n, CommonPrefix(o, n), CommonSuffix(o, n, Min({Len(o), Len(n)})))
\* The common prefix and the common suffix of what is left are context.
DiffLines(o, n) ==
    LET p == CommonPrefix(o, n) IN
    Trimmed(o, n, p, CommonSuffix(o, n, Min({Len(o), Len(n)}) - p))

\* The rows with their numbers on both sides, 0 for none.
UnifiedDiff(o, n) ==
    LET rows == DiffLines(o, n)
        Number(k, other) == IF rows[k].kind = other THEN 0
                            ELSE Cardinality({j \in 1 .. k : rows[j].kind # other}) IN
    [k \in DOMAIN rows |-> [kind |-> rows[k].kind, text |-> rows[k].text,
                            old |-> Number(k, "+"), new |-> Number(k, "-")]]

\* Without the rows of the other kind, the rows read as the text: its lines in order,
\* none left out, each with its number, and the other rows have none.
Reads(rows, number, other, text) ==
    LET side == {k \in DOMAIN rows : rows[k].kind # other} IN
    /\ Cardinality(side) = Len(text)
    /\ \A k \in side : number[k] \in DOMAIN text /\ rows[k].text = text[number[k]]
    /\ \A j, k \in side : j < k => number[j] < number[k]
    /\ \A k \in DOMAIN rows \ side : number[k] = 0

--------------------------------------------------------------------------------
(* The output of a call: pieces [tag, lines, footer, blank], a footer being the    *)
(* trailing count that the tool adds to a listing.                            *)

\* Loose text that is blank is dropped.
Segments(output) ==
    LET kept[i \in 0 .. Len(output)] ==
            IF i = 0 THEN <<>>
            ELSE IF output[i].tag # None \/ ~output[i].blank
                 THEN Append(kept[i - 1], output[i]) ELSE kept[i - 1] IN
    kept[Len(output)]
Listings == {"content", "entries"}
HeaderTags == {"path", "type"}
Notices == HeaderTags \cup {"shell_metadata", "error"}
KnownTags == Listings \cup Notices \cup {"task_result"}
BodyLines(s) == IF s.tag \in Listings THEN Max({1, s.lines - s.footer}) ELSE s.lines
InlineLimit(tool) == IF tool = "read" THEN 6 ELSE 4

SumUpTo(counts, k) ==
    LET sum[i \in 0 .. k] == IF i = 0 THEN 0 ELSE sum[i - 1] + counts[i] IN sum[k]
\* The header shows the first path and the first type; later ones are dropped.
Dropped(segments) ==
    {k \in DOMAIN segments : /\ segments[k].tag \in HeaderTags
                             /\ \E j \in 1 .. k - 1 : segments[j].tag = segments[k].tag}
\* The lines of the first k segments that are taken: notices take none, all others
\* share what the limit leaves.
Spent(segments, k) ==
    SumUpTo([i \in DOMAIN segments |->
                IF segments[i].tag \in Notices THEN 0 ELSE BodyLines(segments[i])], k)
Taken(segments, k, limit, all) ==
    IF all THEN Spent(segments, k) ELSE Min({Spent(segments, k), limit})
\* The lines that would have to be shown beside the header and the other notices.
Owed(segments) ==
    SumUpTo([i \in DOMAIN segments |->
                IF i \in Dropped(segments) THEN segments[i].lines
                ELSE IF segments[i].tag \in Notices THEN 0 ELSE BodyLines(segments[i])],
            Len(segments))
\* The listings and the loose text decide whether there is a button.
TotalLines(segments) ==
    SumUpTo([i \in DOMAIN segments |->
                IF segments[i].tag \in Listings \cup {None} THEN segments[i].lines ELSE 0],
            Len(segments))
ToolOutputSnippet(tool, output, all) ==
    LET segments == Segments(output)
        limit == InlineLimit(tool)
        total == TotalLines(segments) IN
    [header |-> HeaderTags \cap {segments[k].tag : k \in DOMAIN segments},
     visible |-> [k \in DOMAIN segments |-> Taken(segments, k, limit, all)
                                            - Taken(segments, k - 1, limit, all)],
     unhandled |-> {segments[k].tag : k \in DOMAIN segments} \ (KnownTags \cup {None}),
     button |-> IF total <= limit THEN "absent" ELSE IF all THEN "collapse" ELSE "more",
     more |-> IF total <= limit \/ all THEN 0 ELSE total - limit,
     hidden |-> Owed(segments) - Taken(segments, Len(segments), limit, all)]

--------------------------------------------------------------------------------
(* The run's patch. A line is [mark, path]: the path of a header that names one.   *)

Line(mark, path) == [mark |-> mark, path |-> path]
NoDiff == [path |-> None, added |-> 0, removed |-> 0, hunks |-> <<>>]
Start == [out |-> {}, current |-> NoDiff, hunks |-> <<>>, source |-> None]
\* The entry of a path replaces the one there was.
Finalize(st) ==
    IF st.current = NoDiff THEN st
    ELSE [st EXCEPT !.out = {d \in @ : d.path # st.current.path}
                                \cup {[st.current EXCEPT !.hunks = st.hunks]},
                    !.current = NoDiff, !.hunks = <<>>]
\* The path of a header; a deletion is known by its source.
PostImage(st, path) ==
    LET named == IF path = None THEN st.source ELSE path
        ended == IF st.current.path = named THEN st ELSE Finalize(st) IN
    IF named = None THEN st
    ELSE [ended EXCEPT !.current = IF @ = NoDiff THEN [NoDiff EXCEPT !.path = named] ELSE @,
                       !.source = None]
Content(st, mark) ==
    IF st.current = NoDiff THEN st
    ELSE [st EXCEPT !.current.added = IF mark = "+" THEN @ + 1 ELSE @,
                    !.current.removed = IF mark = "-" THEN @ + 1 ELSE @,
                    !.hunks = Append(@, mark)]
ParseLine(st, line) ==
    CASE line.mark = "diff" -> [Finalize(st) EXCEPT !.source = None]
      [] line.mark = "---" -> [st EXCEPT !.source = line.path]
      [] line.mark = "+++" -> PostImage(st, line.path)
      [] line.mark = "@@" -> [st EXCEPT !.hunks = Append(@, "@@")]
      [] OTHER -> Content(st, line.mark)
ParsePatch(lines) ==
    LET state[i \in 0 .. Len(lines)] ==
            IF i = 0 THEN Start ELSE ParseLine(state[i - 1], lines[i]) IN
    Finalize(state[Len(lines)]).out

\* The path a file goes by.
PathOf(f) == IF f.target = None THEN f.source ELSE f.target
\* What git writes of a file [source, target, content]: headers only if its text
\* changed, and no "diff" line if the producer is bare. A removed line that begins
\* with two dashes looks like a header.
Section(f, bare) ==
    (IF bare THEN <<>> ELSE <<Line("diff", None), Line("index", None)>>)
    \o (IF f.content = <<>> THEN <<>>
        ELSE <<Line("---", f.source), Line("+++", f.target), Line("@@", None)>>
             \o [i \in DOMAIN f.content |->
                    IF f.content[i] = "dashes" THEN Line("---", "text")
                    ELSE Line(f.content[i], None)])
================================================================================
