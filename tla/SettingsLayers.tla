--------------------------- MODULE SettingsLayers ---------------------------
(***************************************************************************)
(* The global layer of the settings and the overlays of the screens that   *)
(* fall back to it (Node, ObjectNode, RootNode, LayerRegistry, forScreen). *)
(* SettingsFile has what happens between a layer and its file; here a file *)
(* is read and written at once.                                            *)
(***************************************************************************)
EXTENDS SettingsTree, Naturals

CONSTANTS
    Screens,
    Shared,       \* the name of the global layer
    Edits,        \* what other programs make of a file
    MaxEdits      \* bound on their edits

ASSUME LayersAssumption == Shared \notin Screens /\ Edits \subseteq Contents

VARIABLES
    created,      \* layers the registry has
    trees,        \* layer -> tree, meaningful for the created ones
    files,        \* layer -> what its file says
    dirty,        \* layers whose change batcher will save them
    edits
vars == <<created, trees, files, dirty, edits>>

Layers == Screens \cup {Shared}

\* ------------------------------------------------------------ helpers

\* fallbackNode()->value, or the default
Fallback(layer) == IF layer = Shared THEN Defaults ELSE TreeValues(trees[Shared])

\* It follows whatever it overrides.
MutFollowed(tree, old, new) ==
    [k \in Options |-> IF old[k].value = new[k].value THEN tree[k]
                       ELSE Inherited(new[k].value, tree[k].kept)]

\* An overlay after optionChanged for what changed in the global layer.
Followed(tree, old, new) ==
    [k \in Options |->
        IF tree[k].override \/ old[k].value = new[k].value
        THEN tree[k]
        ELSE Inherited(new[k].value, tree[k].kept)]

\* Overlays notice what they do not define only when they load.
MutWithLayer(layer, tree) == [trees EXCEPT ![layer] = tree]

\* The trees once a layer has become tree and the others were told.
WithLayer(layer, tree) ==
    [l \in Layers |->
        IF l = layer THEN tree
        ELSE IF layer = Shared /\ l \in created
        THEN Followed(trees[l], trees[Shared], tree)
        ELSE trees[l]]

\* forwardGlobalWrite
Target(layer, k) == IF k \in GlobalOnly THEN Shared ELSE layer

\* Descriptors that resetToDefaults and resetOption skip on an overlay
Resettable(layer) == IF layer = Shared THEN Options ELSE Options \ GlobalOnly

\* recordWrite of a user's write
Dirties(layer, k, value) == WriteDirties(trees[layer], k, value)

\* ------------------------------------------------------------ actions

Init ==
    /\ files \in [Layers -> Edits \cup {EmptyContent}]
    /\ created = {Shared}
    /\ trees = [l \in Layers |->
                  IF l = Shared THEN Synced(files[Shared], Defaults, FALSE)
                  ELSE Synced(EmptyContent, Defaults, TRUE)]
    /\ dirty = {}
    /\ edits = 0

\* forScreen: a layer is created, and loaded, when it is first asked for.
CreateLayer(s) ==
    /\ s \notin created
    /\ created' = created \cup {s}
    /\ trees' = [trees EXCEPT ![s] = Synced(files[s], Fallback(s), TRUE)]
    /\ UNCHANGED <<files, dirty, edits>>

\* A property is set from QML.
Write(layer, k, value) ==
    \E l \in {Target(layer, k)} :
        /\ trees' = WithLayer(l, Written(trees[l], k, value))
        /\ dirty' = IF Dirties(l, k, value) THEN dirty \cup {l} ELSE dirty
        /\ UNCHANGED <<created, files, edits>>

\* resetOption of an option; global ones are left alone by overlays
ResetOption(layer, k) ==
    /\ k \in Resettable(layer)
    /\ \E tree \in {Reset(trees[layer], k, Fallback(layer))} :
        /\ trees' = WithLayer(layer, tree)
        /\ dirty' = IF tree # trees[layer] THEN dirty \cup {layer} ELSE dirty
        /\ UNCHANGED <<created, files, edits>>

\* resetOption of a node: everything in it, and its quarantine, goes; what
\* was quarantined does not make the layer dirty.
ResetSubtree(layer) ==
    \E tree \in {[k \in Options |->
                    IF k \in Resettable(layer)
                    THEN Inherited(Fallback(layer)[k], Absent)
                    ELSE Rejected(trees[layer])[k]]} :
        /\ trees' = WithLayer(layer, tree)
        /\ dirty' = IF \E k \in Resettable(layer) : trees[layer][k].override
                    THEN dirty \cup {layer} ELSE dirty
        /\ UNCHANGED <<created, files, edits>>

\* Another program writes the file and the layer reloads it.
Reload(layer, content) ==
    /\ edits < MaxEdits /\ edits' = edits + 1
    /\ files' = [files EXCEPT ![layer] = content]
    /\ trees' = WithLayer(layer, Synced(content, Fallback(layer), layer # Shared))
    /\ UNCHANGED <<created, dirty>>

\* ChangeBatcher::flush, saveToFile
Save(layer) ==
    /\ layer \in dirty
    /\ dirty' = dirty \ {layer}
    /\ files' = [files EXCEPT ![layer] = Json(trees[layer])]
    /\ UNCHANGED <<created, trees, edits>>

Next ==
    \/ \E s \in Screens : CreateLayer(s)
    \/ \E l \in created, k \in Options, v \in Values : Write(l, k, v)
    \/ \E l \in created, k \in Options : ResetOption(l, k)
    \/ \E l \in created : ResetSubtree(l)
    \/ \E l \in created, content \in Edits : Reload(l, content)
    \/ \E l \in created : Save(l)

Spec == Init /\ [][Next]_vars

\* --------------------------------------------------------- properties

TypeOK ==
    /\ created \subseteq Layers /\ Shared \in created
    /\ trees \in [Layers -> Trees]
    /\ \A l \in Layers, k \in Options \ Lists :
          trees[l][k].override => trees[l][k].kept = Absent
    /\ files \in [Layers -> Contents]
    /\ dirty \subseteq created
    /\ edits \in Nat

\* What a screen does not override is what the global layer has, whoever
\* changed it, however and before or after the screen was asked for
\* (Node::onFallbackNotify, resetUnvisited).
InheritedFollowsGlobal ==
    \A s \in created \ {Shared}, k \in Options :
        ~trees[s][k].override => trees[s][k].value = trees[Shared][k].value

\* A screen never defines what only the global layer may, whether the
\* definition comes from QML or from its file (forwardGlobalWrite,
\* loadFromJson).
GlobalOnlyIsGlobal ==
    \A s \in created \ {Shared}, k \in GlobalOnly : ~trees[s][k].override

\* A change of the global layer never takes from a screen what it overrides
\* ("File and qml both count as overrides", recordWrite).
OverridesStay ==
    [][trees[Shared] # trees'[Shared] =>
         \A s \in created \ {Shared}, k \in Options :
             trees[s][k].override => trees'[s][k] = trees[s][k]]_vars

\* Once its saves are done, a layer that is created again from its file has
\* the values it has now, and what the shell cannot read is still in the file.
RestartKeepsValues ==
    \A l \in created \ dirty :
        \E again \in {Synced(files[l], Fallback(l), l # Shared)} :
            /\ TreeValues(again) = TreeValues(trees[l])
            /\ \A k \in Options : again[k].override = trees[l][k].override

\* What holds of the layers at any time, together.
LayersAgree == TypeOK /\ GlobalOnlyIsGlobal /\ InheritedFollowsGlobal /\ RestartKeepsValues
=============================================================================
