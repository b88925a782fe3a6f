-------------------------------- MODULE TurnDetail --------------------------------
(* What the inspector shows of one tool call: the edit as a diff, the output      *)
(* clipped behind a button, and the files of the run's patch.                      *)
EXTENDS TurnText, SequencesExt

CONSTANTS
    Details,     \* the tool calls, each with the patch of its run: [call, patch], a
                 \* call being [tool, fields, files, old, new, output] and a patch
                 \* [files, bare]
    Blank        \* the empty line

Unparsed == {"unparsed"}
Empty == <<Blank>>

VARIABLES
    call,        \* the call that is shown
    patch,       \* the patch of its run
    expanded     \* its output was expanded

detailVars == <<call, patch, expanded>>

--------------------------------------------------------------------------------
(* The card of the call: its name, a summary or the files, a body and the output.  *)

ToolHeaderSummary(c) ==
    CASE c.fields = Unparsed -> {}
      [] c.tool \in {"read", "edit", "write"} ->
             IF "path" \in c.fields THEN {"path"} ELSE IF c.files # {} THEN {"file"} ELSE {}
      [] c.tool \in {"glob", "grep"} -> c.fields \cap {"pattern", "path"}
      [] OTHER -> {}
RenderToolBody(c) ==
    CASE c.tool \in {"read", "glob", "grep"} -> None
      [] c.tool = "edit" /\ c.fields # Unparsed /\ (c.old # Empty \/ c.new # Empty) -> "diff"
      [] c.tool = "write" /\ "content" \in c.fields -> "code"
      [] c.tool \in {"bash", "shell"} /\ "command" \in c.fields -> "terminal"
      [] OTHER -> "raw"
ToolUseBlock(c, all) ==
    [summary |-> ToolHeaderSummary(c),
     chips |-> IF ToolHeaderSummary(c) = {} THEN c.files ELSE {},
     body |-> RenderToolBody(c),
     diff |-> IF RenderToolBody(c) = "diff" THEN UnifiedDiff(c.old, c.new) ELSE <<>>,
     output |-> ToolOutputSnippet(c.tool, c.output, all)]

PatchText(p) == FlattenSeq([i \in DOMAIN p.files |-> Section(p.files[i], p.bare)])
\* The detail pane: the entries of the files the call touched.
DiffPanel == {d \in ParsePatch(PatchText(patch)) : d.path \in call.files}

--------------------------------------------------------------------------------
(* The card.                                                                  *)

Toggle ==
    /\ ToolUseBlock(call, expanded).output.button # "absent"
    /\ expanded' = ~expanded
    /\ UNCHANGED <<call, patch>>
\* The turns are fetched again: the card keeps its state as long as there is output.
Refetch(detail) ==
    /\ call' = detail.call /\ patch' = detail.patch
    /\ expanded' = (expanded /\ call.output # <<>> /\ detail.call.output # <<>>)
\* A card that is scrolled away is unmounted.
ScrollAway ==
    /\ expanded /\ expanded' = FALSE
    /\ UNCHANGED <<call, patch>>

Mounted(detail) == call = detail.call /\ patch = detail.patch /\ expanded = FALSE
Init == \E detail \in Details : Mounted(detail)
Next ==
    \/ Toggle
    \/ \E detail \in Details : Refetch(detail)
    \/ ScrollAway
Spec == Init /\ [][Next]_detailVars

--------------------------------------------------------------------------------
\* Both texts of an edit can be read off its rows.
EditRecoverable ==
    LET rows == ToolUseBlock(call, expanded).diff IN
    rows # <<>> =>
        /\ Reads(rows, [k \in DOMAIN rows |-> rows[k].old], "+", call.old)
        /\ Reads(rows, [k \in DOMAIN rows |-> rows[k].new], "-", call.new)

\* What of an output is not on the card is behind the button, which announces at least
\* as many lines: if no segment takes lines that are not counted, and none repeats the
\* path or the type the header shows.
OutputReachable ==
    LET output == ToolUseBlock(call, expanded).output IN
    (/\ \A k \in DOMAIN call.output : call.output[k].tag \in Listings \cup Notices \cup {None}
     /\ Dropped(Segments(call.output)) = {})
        => output.hidden <= output.more

\* Of a patch whose text has no line that looks like a header, every file with
\* changed text has its own entry, with its own lines, counted as they are marked.
PatchIsCounted ==
    LET Count(f, mark) == Cardinality({i \in DOMAIN f.content : f.content[i] = mark})
        changed == {i \in DOMAIN patch.files : patch.files[i].content # <<>>} IN
    (\A i \in changed : ~Contains(patch.files[i].content, "dashes")) =>
        ParsePatch(PatchText(patch)) =
            {LET f == patch.files[i] IN
             [path |-> PathOf(f),
              added |-> Count(f, "+"), removed |-> Count(f, "-"),
              hunks |-> <<"@@">> \o f.content] : i \in changed}

\* The card and the pane show a call whole: both texts of an edit, all lines of an
\* output of the tags they count and at most one path and one type, and the changes
\* of every file.
TurnIsShownWhole == EditRecoverable /\ OutputReachable /\ PatchIsCounted

\* The same for every output: blocks.tsx:88-90 "the inner body still renders, so we
\* never silently swallow agent-visible output".
NeverSwallowed ==
    LET output == ToolUseBlock(call, expanded).output IN output.hidden <= output.more
================================================================================
