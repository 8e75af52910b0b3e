---------------------------- MODULE SettingsTree ----------------------------
(***************************************************************************)
(* One layer of the settings tree (Node, ObjectNode, ListNode) and its     *)
(* sparse JSON form.  Nesting is left out: an option stands for a path.    *)
(* A list is an option whose reset and quarantine differ.                  *)
(***************************************************************************)
CONSTANTS
    Options,      \* paths of the schema, and keys it does not know
    Lists,        \* those that are ListNodes
    GlobalOnly,   \* those an overlay may not define
    Values,       \* decoded values
    Default,      \* what an option has if no layer defines it
    Absent,       \* the option is not in the file
    Bad           \* it is, with a value that is not decoded

ASSUME TreeAssumption ==
    /\ Lists \subseteq Options /\ GlobalOnly \subseteq Options
    /\ Default \in Values
    /\ Absent \notin Values /\ Bad \notin Values /\ Absent # Bad

\* What a JSON object says of each option.
Contents == [Options -> Values \cup {Absent, Bad}]
EmptyContent == [k \in Options |-> Absent]

\* kept: the quarantine, JSON that could not be loaded and must survive.
Node == [value : Values, override : BOOLEAN, kept : Values \cup {Absent, Bad}]
Trees == [Options -> Node]

Defaults == [k \in Options |-> Default]
TreeValues(tree) == [k \in Options |-> tree[k].value]

\* Node with a value, or with what it falls back to.
Overridden(value, kept) == [value |-> value, override |-> TRUE, kept |-> kept]
Inherited(value, kept) == [value |-> value, override |-> FALSE, kept |-> kept]

\* What is not loaded is forgotten.
MutSynced(content, fallback, overlay) ==
    [k \in Options |->
        IF content[k] \in Values /\ ~(overlay /\ k \in GlobalOnly)
        THEN Overridden(content[k], Absent)
        ELSE Inherited(fallback[k], Absent)]

\* syncJson: loadFromJson, then resetUnvisited.
Synced(content, fallback, overlay) ==
    [k \in Options |->
        IF content[k] \in Values /\ ~(overlay /\ k \in GlobalOnly)
        THEN Overridden(content[k], Absent)
        ELSE Inherited(fallback[k], content[k])]

\* The root is not an object: syncJson drops the quarantine and stops.
Rejected(tree) == [k \in Options |-> [tree[k] EXCEPT !.kept = Absent]]

\* toJson with the quarantine applied
Json(tree) ==
    [k \in Options |-> IF tree[k].override THEN tree[k].value ELSE tree[k].kept]

\* A list mutation clears the quarantine of the list, which is not where its
\* parent keeps the value it refused.
Written(tree, k, value) ==
    [tree EXCEPT ![k] = Overridden(value, IF k \in Lists THEN @.kept ELSE Absent)]

Reset(tree, k, fallback) ==
    [tree EXCEPT ![k] = Inherited(fallback[k], IF k \in Lists THEN @.kept ELSE Absent)]

\* Whether recordWrite marks the layer dirty.
WriteDirties(tree, k, value) == k \in Lists \/ Written(tree, k, value) # tree

\* resetToDefaults of a list runs as FileReset, which saves nothing.
ResetDirties(tree, k, fallback) == k \notin Lists /\ Reset(tree, k, fallback) # tree
=============================================================================
