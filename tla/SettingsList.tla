---------------------------- MODULE SettingsList ----------------------------
(***************************************************************************)
(* A list of the settings (ListNode) in the global layer and in the        *)
(* overlay of a screen.  Until the overlay overrides it, its elements are  *)
(* copies that fall back to the elements of the global list, one by one,   *)
(* and are kept in step by the indices elementsChanged reports.  What an   *)
(* element holds is one option.  Lists inside elements and global-only     *)
(* lists, which forward every mutation, are left out.                      *)
(***************************************************************************)
EXTENDS Naturals, SequencesExt

CONSTANTS
    Nodes,           \* identities of the elements of the global list
    ElementValues,
    ElementDefault,  \* what an option of an element falls back to
    None,            \* no fallback
    MaxLength        \* bound on lists that grow

ASSUME ElementsAssumption == ElementDefault \in ElementValues /\ None \notin Nodes

VARIABLES
    global,       \* Seq of [node, value]
    overlay,      \* Seq of [value, override, fallback]
    overridden    \* the overlay defines the list
elementVars == <<global, overlay, overridden>>

Indices(list) == DOMAIN list

\* ------------------------------------------------------------ helpers

Fresh == Nodes \ ({global[i].node : i \in Indices(global)})

\* QList::move
Moved(list, from, to) == InsertAt(RemoveAt(list, from), to, list[from])

\* insertNode with a fallback
Copy(element) == [value |-> element.value, override |-> FALSE, fallback |-> element.node]

\* insertNode without one
Own(value) == [value |-> value, override |-> FALSE, fallback |-> None]

\* recordWrite: the elements of a list that becomes an override are detached.
Detached(list) ==
    [i \in Indices(list) |-> [list[i] EXCEPT !.fallback = None]]

\* onFallbackListNotify for one inserted, removed or moved element
FollowInsert(list, i) ==
    IF overridden THEN list ELSE InsertAt(list, i, Copy(global'[i]))

FollowRemove(list, i) == IF overridden THEN list ELSE RemoveAt(list, i)

\* The indices of a move are taken the other way round.
MutFollowMove(list, i, j) == IF overridden THEN list ELSE Moved(list, j, i)

FollowMove(list, i, j) == IF overridden THEN list ELSE Moved(list, i, j)

\* ... and for a list that was replaced
FollowAll(list) ==
    IF overridden THEN list ELSE [i \in Indices(global') |-> Copy(global'[i])]

\* Node::onFallbackNotify of the elements that fall back to the changed one
FollowElement(list, node, value) ==
    [i \in Indices(list) |->
        IF list[i].fallback = node /\ ~list[i].override
        THEN [list[i] EXCEPT !.value = value] ELSE list[i]]

\* ------------------------------------------------------------ actions

\* Both layers are loaded with the default elements.
ElementsInit ==
    /\ \E nodes \in {s \in [1..2 -> Nodes] : IsInjective(s)} :
          global = [i \in 1..2 |-> [node |-> nodes[i], value |-> ElementDefault]]
    /\ overlay = [i \in 1..2 |-> Copy(global[i])]
    /\ overridden = FALSE

\* insert: an index that is none appends
GlobalInsert(i, value) ==
    /\ Len(global) < MaxLength
    /\ \E n \in Fresh : global' = InsertAt(global, i, [node |-> n, value |-> value])
    /\ overlay' = FollowInsert(overlay, i)
    /\ UNCHANGED overridden

GlobalRemove(i) ==
    /\ global' = RemoveAt(global, i)
    /\ overlay' = FollowRemove(overlay, i)
    /\ UNCHANGED overridden

GlobalMove(i, j) ==
    /\ global' = Moved(global, i, j)
    /\ overlay' = FollowMove(overlay, i, j)
    /\ UNCHANGED overridden

\* setValue: reset, reload and, with no values, clear; all elements are new.
GlobalSet(values) ==
    /\ \E nodes \in {s \in [Indices(values) -> Fresh] : IsInjective(s)} :
          global' = [i \in Indices(values) |-> [node |-> nodes[i], value |-> values[i]]]
    /\ overlay' = FollowAll(overlay)
    /\ UNCHANGED overridden

\* An option of an element is set, or reset to its default.
GlobalEdit(i, value) ==
    /\ global' = [global EXCEPT ![i].value = value]
    /\ overlay' = FollowElement(overlay, global[i].node, value)
    /\ UNCHANGED overridden

\* A mutation of the overlay makes it an override.
Mutate(list) ==
    /\ overlay' = Detached(list)
    /\ overridden' = TRUE
    /\ UNCHANGED global

OverlayInsert(i, value) ==
    /\ Len(overlay) < MaxLength
    /\ Mutate(InsertAt(overlay, i, Own(value)))

OverlayRemove(i) == Mutate(RemoveAt(overlay, i))

\* An index that is not in the list: nothing moves, but it was a mutation.
OverlayInvalid == Mutate(overlay)

OverlayMove(i, j) == Mutate(Moved(overlay, i, j))

\* clear, and syncJson of a file with the list
OverlaySet(values) == Mutate([i \in Indices(values) |-> Own(values[i])])

\* resetToDefaults, which setValue does while the list may still be an override
OverlayReset ==
    /\ overlay' = [i \in Indices(global) |-> Copy(global[i])]
    /\ overridden' = FALSE
    /\ UNCHANGED global

\* A write to an element overrides the element, not the list.
OverlayEdit(i, value) ==
    /\ overlay' = [overlay EXCEPT ![i].value = value, ![i].override = TRUE]
    /\ UNCHANGED <<global, overridden>>

\* resetOption of an element
OverlayEditReset(i) ==
    /\ \E value \in {IF overlay[i].fallback = None THEN ElementDefault
                     ELSE global[CHOOSE j \in Indices(global) :
                                    global[j].node = overlay[i].fallback].value} :
          overlay' = [overlay EXCEPT ![i].value = value, ![i].override = FALSE]
    /\ UNCHANGED <<global, overridden>>

Replacements == {<<>>} \cup {<<v>> : v \in ElementValues}

ElementsNext ==
    \/ \E i \in 1..(Len(global) + 1), v \in ElementValues : GlobalInsert(i, v)
    \/ \E i \in Indices(global) : GlobalRemove(i)
    \/ \E i, j \in Indices(global) : GlobalMove(i, j)
    \/ \E values \in Replacements : GlobalSet(values)
    \/ \E i \in Indices(global), v \in ElementValues : GlobalEdit(i, v)
    \/ \E i \in 1..(Len(overlay) + 1), v \in ElementValues : OverlayInsert(i, v)
    \/ \E i \in Indices(overlay) : OverlayRemove(i)
    \/ \E i, j \in Indices(overlay) : OverlayMove(i, j)
    \/ \E values \in Replacements : OverlaySet(values)
    \/ OverlayInvalid
    \/ OverlayReset
    \/ \E i \in Indices(overlay), v \in ElementValues : OverlayEdit(i, v)
    \/ \E i \in Indices(overlay) : OverlayEditReset(i)

ElementsSpec == ElementsInit /\ [][ElementsNext]_elementVars

\* --------------------------------------------------------- properties

ElementsTypeOK ==
    /\ global \in Seq([node : Nodes, value : ElementValues])
    /\ \A i, j \in Indices(global) : global[i].node = global[j].node => i = j
    /\ overlay \in Seq([value : ElementValues, override : BOOLEAN, fallback : Nodes \cup {None}])
    /\ overridden \in BOOLEAN

\* The overlay of a list it does not define has the elements of the global
\* list in its order, whatever was inserted, removed or moved before
\* (onFallbackListNotify).
OverlayMirrorsGlobal ==
    ~overridden =>
        /\ Len(overlay) = Len(global)
        /\ \A i \in Indices(overlay) : overlay[i].fallback = global[i].node

\* An element the screen did not edit has the value of the one it falls back
\* to (Node::onFallbackNotify).
CopiesFollow ==
    \A i \in Indices(overlay), j \in Indices(global) :
        overlay[i].fallback = global[j].node /\ ~overlay[i].override
            => overlay[i].value = global[j].value

\* "No fallback node either means global tree or inside overridden list"
\* (node.hpp): elements are detached exactly when the list is an override,
\* and nothing falls back to an element that was deleted.
FallbacksAreLive ==
    \A i \in Indices(overlay) :
        IF overridden THEN overlay[i].fallback = None
        ELSE \E j \in Indices(global) : overlay[i].fallback = global[j].node

\* What holds of the two layers of a list at any time, together.
SettingsAreShared ==
    ElementsTypeOK /\ OverlayMirrorsGlobal /\ CopiesFollow /\ FallbacksAreLive

\* What a screen edited in an element goes where the element goes: it is lost
\* only with the element (onFallbackListNotify, onFallbackNotify).
KeepsEdits ==
    global' # global =>
         \A i \in Indices(overlay) :
             overlay[i].override /\ (overridden \/ \E j \in Indices(global') :
                                        global'[j].node = overlay[i].fallback)
               => \E j \in Indices(overlay') : overlay'[j] = overlay[i]
EditsFollowTheirElement == [][KeepsEdits]_elementVars
=============================================================================
