------------------------------- MODULE TurnGroups -------------------------------
(* What the run inspector computes from a run's parsed turns: groups, filters,  *)
(* search results, the tool histogram, evidence and the diffs of a group.       *)
EXTENDS Integers, FiniteSets, SequencesExt, Ordering

CONSTANTS
    Files,      \* file paths
    Texts,      \* texts a user searches for
    Tools,      \* tool names, as strings
    Roles       \* role names, as strings

None == ""
BlockKinds == {"thinking", "text", "tool_use", "tool_result", "system"}

\* A parsed turn. The content is kept as what is asked of it: how often each
\* text occurs in it, whether it is empty and whether a line starts with "error:".
Turns == [turn_index : Nat, parent_turn_index : Nat, block_kind : BlockKinds \cup {None},
          role : Roles \cup {None}, stage : {"error", None}, tool_name : Tools \cup {None},
          files_touched : SUBSET Files, empty : BOOLEAN, errorLine : BOOLEAN,
          occurrences : [Texts -> Nat]]

--------------------------------------------------------------------------------
(* Groups.                                                                   *)

KindPriority == <<"system", "text", "thinking", "tool_result", "tool_use">>
Rank(kind) == IF Contains(KindPriority, kind)
              THEN CHOOSE i \in DOMAIN KindPriority : KindPriority[i] = kind ELSE 0
PickRepresentativeKind(blocks) ==
    LET best == Max({Rank(blocks[i].block_kind) : i \in DOMAIN blocks}) IN
    IF best = 0 THEN None ELSE KindPriority[best]

FirstOf(blocks, Test(_)) == SelectInSeq(blocks, Test)
ToolNameOf(blocks) ==
    LET i == FirstOf(blocks, LAMBDA b : b.block_kind = "tool_use") IN
    IF i = 0 THEN None ELSE blocks[i].tool_name
RoleOf(blocks) ==
    LET i == FirstOf(blocks, LAMBDA b : b.role # None) IN
    IF i = 0 THEN None ELSE blocks[i].role

AllUnstamped(turns) == \A i \in DOMAIN turns : turns[i].block_kind = None
ParentsOf(turns) == {turns[i].parent_turn_index : i \in DOMAIN turns}
BlocksOf(turns, parent) == SelectSeq(turns, LAMBDA t : t.parent_turn_index = parent)
FirstIndex(blocks) == Min({blocks[i].turn_index : i \in DOMAIN blocks})
Appears(turns, parent) == FirstOf(turns, LAMBDA t : t.parent_turn_index = parent)

\* The groups' order: by smallest turn index, stable.
ByFirstIndex(turns) ==
    Ordered(ParentsOf(turns), LAMBDA p, q :
        LET f == FirstIndex(BlocksOf(turns, p))
            g == FirstIndex(BlocksOf(turns, q)) IN
        f < g \/ (f = g /\ Appears(turns, p) < Appears(turns, q)))

\* One group per parent index; a transcript without any block kind predates the
\* stamps, there every block is a group numbered by its position in the input.
GroupTurns(turns) ==
    IF AllUnstamped(turns)
    THEN [i \in DOMAIN turns |->
             [parentTurnIndex |-> i - 1, blocks |-> <<turns[i]>>,
              representativeKind |-> None, toolName |-> turns[i].tool_name, role |-> None]]
    ELSE LET order == ByFirstIndex(turns) IN
         [i \in DOMAIN order |->
             LET blocks == BlocksOf(turns, order[i]) IN
             [parentTurnIndex |-> order[i], blocks |-> blocks,
              representativeKind |-> PickRepresentativeKind(blocks),
              toolName |-> ToolNameOf(blocks), role |-> RoleOf(blocks)]]

--------------------------------------------------------------------------------
(* Filters and the tokens that carry them in the URL.                        *)

\* Tokens are bare names, except paths, which carry a prefix.
BlockFilters == [kind : {"block"}, value : BlockKinds]
PathFilters == [kind : {"path"}, value : Files]
ErrorsOnly == [kind |-> "errors_only", value |-> None]
TurnFilters == BlockFilters \cup PathFilters \cup {ErrorsOnly}

TokenOf(f) == IF f.kind = "block" THEN <<f.value>>
              ELSE IF f.kind = "path" THEN <<"path:", f.value>> ELSE <<"errors_only">>
SerializeFilters(filters) == {TokenOf(f) : f \in filters}
\* Tokens the parser does not recognise are dropped.
ParseFilterTokens(tokens) == {f \in TurnFilters : TokenOf(f) \in tokens}

IsErrorTurn(t) == t.stage = "error" \/ (t.block_kind = "tool_result" /\ t.errorLine)
\* Filters of one kind are alternatives, the kinds are all required.
Passes(t, filters) ==
    LET blocks == filters \cap BlockFilters
        paths == filters \cap PathFilters IN
    /\ blocks # {} => \E f \in blocks : f.value = t.block_kind
    /\ paths # {} => \E f \in paths : f.value \in t.files_touched
    /\ ErrorsOnly \in filters => IsErrorTurn(t)
ApplyTurnFilters(turns, filters) == SelectSeq(turns, LAMBDA t : Passes(t, filters))

--------------------------------------------------------------------------------
(* Search, histogram, evidence and diffs.                                    *)

\* The turns in which the text occurs, most occurrences first, then by index.
SearchTurns(turns, text) ==
    LET Before(a, b) ==
            \/ a.occurrences[text] > b.occurrences[text]
            \/ a.occurrences[text] = b.occurrences[text] /\ a.turn_index < b.turn_index IN
    StableSort(SelectSeq(turns, LAMBDA t : t.occurrences[text] > 0), Before)

CallsOf(turns, tool) ==
    Cardinality({i \in DOMAIN turns :
        turns[i].block_kind = "tool_use" /\ turns[i].tool_name = tool})
BuildToolHistogram(turns) ==
    [tool \in {t \in Tools : CallsOf(turns, t) > 0} |-> CallsOf(turns, tool)]
\* The width of a bar, in percent of the longest one.
BarWidth(rows, tool) ==
    LET most == Max({rows[t] : t \in DOMAIN rows}) IN (rows[tool] * 200 + most) \div (2 * most)

\* The evidence spans of a diagnostic, by the turn they quote.
BuildEvidenceByTurn(spans) ==
    [i \in {spans[k].turn_index : k \in DOMAIN spans} |->
        SelectSeq(spans, LAMBDA s : s.turn_index = i)]
\* The glyphs of a group: the spans of each of its turns, each turn once.
CollectGlyphs(group, evidence) ==
    LET indexes == [i \in DOMAIN group.blocks |-> group.blocks[i].turn_index]
        once == FoldLeft(LAMBDA acc, i : IF Contains(acc, i) THEN acc ELSE Append(acc, i),
                         <<>>, indexes)
        known == SelectSeq(once, LAMBDA i : i \in DOMAIN evidence) IN
    FlattenSeq([i \in DOMAIN known |-> evidence[known[i]]])

\* The files of a group that the run's patch changes, each once.
FilterDiffForTurn(patched, blocks) ==
    UNION {blocks[i].files_touched : i \in DOMAIN blocks} \cap patched

ActionTools == {"edit", "write", "bash", "shell", "todowrite"}
DotToneFor(group) ==
    LET Some(Test(_)) == \E i \in DOMAIN group.blocks : Test(group.blocks[i]) IN
    IF Some(LAMBDA b : b.stage = "error") THEN "error"
    ELSE IF Some(LAMBDA b : b.block_kind = "tool_use" /\ b.tool_name \in ActionTools)
         THEN "action"
    ELSE IF group.representativeKind = "tool_use" THEN "passive"
    ELSE IF group.representativeKind = "thinking" THEN "thinking" ELSE "neutral"

\* A card of the list: its dot, the role, the glyphs and the blocks, but empty ones of
\* the system.
Hidden(t) == t.block_kind = "system" /\ t.empty
TurnGroupCard(group, evidence) ==
    [turn |-> group.parentTurnIndex, dot |-> DotToneFor(group), role |-> group.role,
     glyphs |-> CollectGlyphs(group, evidence),
     blocks |-> SelectSeq(group.blocks, LAMBDA t : ~Hidden(t))]

--------------------------------------------------------------------------------
\* Grouping loses, repeats and splits nothing: every turn is in exactly one
\* group, in its order there, no two groups share a number, and the groups follow
\* the transcript even when its turns arrive out of order.
GroupsAreThePartition(turns) ==
    LET groups == GroupTurns(turns)
        Indexes(g) == [i \in DOMAIN g.blocks |-> g.blocks[i].turn_index] IN
    /\ IsInjective([i \in DOMAIN groups |-> groups[i].parentTurnIndex])
    /\ Len(FlattenSeq([i \in DOMAIN groups |-> groups[i].blocks])) = Len(turns)
    /\ \A i \in DOMAIN turns :
           Cardinality({g \in DOMAIN groups : Contains(groups[g].blocks, turns[i])}) = 1
    /\ ~AllUnstamped(turns) =>
           \A i, j \in DOMAIN groups :
               i < j => FirstIndex(groups[i].blocks) <= FirstIndex(groups[j].blocks)

\* The URL carries every filter: what is parsed back is what was set.
FiltersSurviveTheURL(filters) == ParseFilterTokens(SerializeFilters(filters)) = filters
================================================================================
