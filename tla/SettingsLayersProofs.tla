------------------------ MODULE SettingsLayersProofs ------------------------
(***************************************************************************)
(* Proofs about SettingsLayers, for every schema, any number of screens    *)
(* and whatever other programs write, and about SettingsList, for lists of *)
(* any length.                                                             *)
(***************************************************************************)
EXTENDS SettingsLayers, SettingsList, TLAPS

\* What a layer does not load from its file
Unread(layer, k, content) == content \notin Values \/ (layer # Shared /\ k \in GlobalOnly)

\* A tree that a layer may have over these fallback values
Good(layer, tree, fallback) ==
    /\ tree \in Trees
    /\ \A k \in Options \ Lists : tree[k].override => tree[k].kept = Absent
    /\ \A k \in Options :
          /\ Unread(layer, k, tree[k].kept)
          /\ ~tree[k].override => tree[k].value = fallback[k]
          /\ layer # Shared /\ k \in GlobalOnly => ~tree[k].override

\* A file that says what the tree overrides, and nothing else
Agrees(layer, tree, content) ==
    \A k \in Options :
        IF tree[k].override THEN content[k] = tree[k].value
        ELSE Unread(layer, k, content[k])

\* An uncreated layer has no fallback to agree with yet.
IInv ==
    /\ TypeOK
    /\ \A l \in created : Good(l, trees[l], Fallback(l))
    /\ \A l \in created \ dirty : Agrees(l, trees[l], files[l])

---------------------------------------------------------------------------
(* The operators of SettingsTree                                           *)

\* A loaded tree is good and agrees with what it was loaded from.
LEMMA SyncedGood ==
    ASSUME NEW layer \in Layers, NEW content \in Contents,
           NEW fallback \in [Options -> Values]
    PROVE  /\ Good(layer, Synced(content, fallback, layer # Shared), fallback)
           /\ Agrees(layer, Synced(content, fallback, layer # Shared), content)
BY TreeAssumption
   DEF Good, Agrees, Unread, Synced, Overridden, Inherited, Trees, Node, Contents

\* Nothing else agrees with it.
LEMMA AgreesIsSynced ==
    ASSUME NEW layer \in Layers, NEW content \in Contents,
           NEW fallback \in [Options -> Values], NEW tree,
           Good(layer, tree, fallback), Agrees(layer, tree, content)
    PROVE  \A k \in Options :
              /\ Synced(content, fallback, layer # Shared)[k].value = tree[k].value
              /\ Synced(content, fallback, layer # Shared)[k].override = tree[k].override
<1> TAKE k \in Options
<1>1. CASE tree[k].override
  BY <1>1, TreeAssumption
     DEF Good, Agrees, Unread, Synced, Overridden, Inherited, Trees, Node, Contents
<1>2. CASE ~tree[k].override
  BY <1>2, TreeAssumption
     DEF Good, Agrees, Unread, Synced, Overridden, Inherited, Trees, Node, Contents
<1> QED BY <1>1, <1>2

\* Writing and resetting keep a tree good; a write that does not make the
\* layer dirty changes nothing.
LEMMA WrittenGood ==
    ASSUME NEW layer \in Layers, NEW tree, NEW fallback, NEW k \in Options,
           NEW value \in Values, Good(layer, tree, fallback),
           layer # Shared => k \notin GlobalOnly
    PROVE  /\ Good(layer, Written(tree, k, value), fallback)
           /\ ~WriteDirties(tree, k, value) => Written(tree, k, value) = tree
<1>1. Written(tree, k, value) \in Trees
  BY TreeAssumption DEF Good, Written, Overridden, Trees, Node
<1>2. \A j \in Options : Written(tree, k, value)[j] =
        IF j = k THEN Overridden(value, IF k \in Lists THEN tree[k].kept ELSE Absent)
        ELSE tree[j]
  BY DEF Good, Written, Trees
<1> QED BY <1>1, <1>2, TreeAssumption DEF Good, Unread, Overridden, WriteDirties, Written

LEMMA ResetGood ==
    ASSUME NEW layer \in Layers, NEW tree, NEW fallback \in [Options -> Values],
           NEW k \in Options, Good(layer, tree, fallback)
    PROVE  Good(layer, Reset(tree, k, fallback), fallback)
<1>1. Reset(tree, k, fallback) \in Trees
  BY TreeAssumption DEF Good, Reset, Inherited, Trees, Node
<1>2. \A j \in Options : Reset(tree, k, fallback)[j] =
        IF j = k THEN Inherited(fallback[k], IF k \in Lists THEN tree[k].kept ELSE Absent)
        ELSE tree[j]
  BY DEF Good, Reset, Trees
<1> QED BY <1>1, <1>2, TreeAssumption DEF Good, Unread, Inherited

\* An overlay that follows a change stays good and agrees with its file as
\* much as before.
LEMMA FollowedGood ==
    ASSUME NEW layer \in Layers, NEW tree, NEW old \in Trees, NEW new \in Trees,
           Good(layer, tree, TreeValues(old))
    PROVE  /\ Good(layer, Followed(tree, old, new), TreeValues(new))
           /\ \A content : Agrees(layer, tree, content)
                           => Agrees(layer, Followed(tree, old, new), content)
<1>1. Followed(tree, old, new) \in Trees
  BY DEF Good, Followed, Inherited, Trees, Node
<1>2. \A k \in Options :
        /\ Followed(tree, old, new)[k].override = tree[k].override
        /\ Followed(tree, old, new)[k].kept = tree[k].kept
        /\ tree[k].override => Followed(tree, old, new)[k] = tree[k]
        /\ ~tree[k].override => Followed(tree, old, new)[k].value = new[k].value
  BY DEF Good, Followed, Inherited, Trees, Node, TreeValues
<1>3. Good(layer, Followed(tree, old, new), TreeValues(new))
  BY <1>1, <1>2 DEF Good, TreeValues
<1>4. ASSUME NEW content, Agrees(layer, tree, content)
      PROVE  Agrees(layer, Followed(tree, old, new), content)
  BY <1>2, <1>4 DEF Agrees
<1> QED BY <1>3, <1>4

---------------------------------------------------------------------------
(* Steps                                                                   *)

\* Defaults and the values of the global layer are fallbacks.
LEMMA FallbackType ==
    ASSUME TypeOK, NEW l \in Layers
    PROVE  Fallback(l) \in [Options -> Values]
BY TreeAssumption DEF TypeOK, Fallback, Defaults, TreeValues, Trees, Node, Layers

\* Whatever good tree a layer becomes, all layers are good afterwards, the
\* others agree with their files as before and keep what they override.
LEMMA LayerChanges ==
    ASSUME IInv, NEW layer \in created, NEW tree, Good(layer, tree, Fallback(layer)),
           trees' = WithLayer(layer, tree), created' = created
    PROVE  /\ trees' \in [Layers -> Trees]
           /\ \A l \in Layers, k \in Options \ Lists :
                 trees'[l][k].override => trees'[l][k].kept = Absent
           /\ trees'[layer] = tree
           /\ \A l \in created : Good(l, trees'[l], Fallback(l)')
           /\ \A l \in created \ {layer} : \A content :
                 Agrees(l, trees[l], content) => Agrees(l, trees'[l], content)
<1>1. layer \in Layers /\ created \subseteq Layers /\ Shared \in Layers
      /\ Shared \in created /\ trees \in [Layers -> Trees]
  BY DEF IInv, TypeOK, Layers
<1>2. trees'[layer] = tree
  BY <1>1 DEF WithLayer
<1>3. \A l \in Layers : trees'[l] \in Trees
  <2> SUFFICES ASSUME NEW l \in Layers PROVE trees'[l] \in Trees
    OBVIOUS
  <2>1. CASE l = layer
    BY <2>1, <1>2 DEF Good
  <2>2. CASE l # layer /\ layer = Shared /\ l \in created
    <3>1. trees'[l] = Followed(trees[l], trees[Shared], tree)
      BY <2>2, <1>1 DEF WithLayer
    <3>2. tree \in Trees /\ trees[Shared] \in Trees
      BY <1>1 DEF Good
    <3>3. Good(l, trees[l], TreeValues(trees[Shared]))
      BY <2>2 DEF IInv, Fallback
    <3>4. Good(l, trees'[l], TreeValues(tree))
      BY <3>1, <3>2, <3>3, FollowedGood
    <3> QED BY <3>4 DEF Good
  <2>3. CASE ~(l = layer) /\ ~(l # layer /\ layer = Shared /\ l \in created)
    BY <2>3, <1>1 DEF WithLayer
  <2> QED BY <2>1, <2>2, <2>3
<1>4. \A l \in Layers \ created : trees'[l] = trees[l]
  BY <1>1 DEF WithLayer
<1>5. CASE layer = Shared
  <2>1. \A l \in created \ {Shared} :
           /\ trees'[l] = Followed(trees[l], trees[Shared], tree)
           /\ Fallback(l)' = TreeValues(tree)
           /\ Fallback(l) = TreeValues(trees[Shared])
    BY <1>1, <1>2, <1>5 DEF WithLayer, Fallback
  <2>2. Fallback(Shared)' = Fallback(Shared)
    BY DEF Fallback
  <2>3. \A l \in created \ {Shared} :
           /\ Good(l, trees'[l], Fallback(l)')
           /\ \A content : Agrees(l, trees[l], content) => Agrees(l, trees'[l], content)
    <3> SUFFICES ASSUME NEW l \in created \ {Shared}
                 PROVE  /\ Good(l, trees'[l], Fallback(l)')
                        /\ \A content : Agrees(l, trees[l], content)
                                        => Agrees(l, trees'[l], content)
      OBVIOUS
    <3>1. tree \in Trees /\ trees[Shared] \in Trees /\ l \in Layers
      BY <1>1 DEF Good
    <3>2. Good(l, trees[l], TreeValues(trees[Shared]))
      BY <2>1 DEF IInv
    <3> QED BY <3>1, <3>2, <2>1, FollowedGood
  <2>4. \A l \in created : Good(l, trees'[l], Fallback(l)')
    BY <1>1, <1>2, <1>5, <2>2, <2>3
  <2>5. \A l \in Layers, k \in Options \ Lists :
           trees'[l][k].override => trees'[l][k].kept = Absent
    BY <1>4, <2>4 DEF Good, IInv, TypeOK
  <2>6. trees' \in [Layers -> Trees]
    BY <1>3 DEF WithLayer
  <2> QED BY <1>2, <1>5, <2>3, <2>4, <2>5, <2>6
<1>6. CASE layer # Shared
  <2>1. \A l \in Layers \ {layer} : trees'[l] = trees[l]
    BY <1>1, <1>6 DEF WithLayer
  <2>2. \A l \in created : Fallback(l)' = Fallback(l)
    BY <2>1, <1>1, <1>6 DEF Fallback
  <2>3. \A l \in created : Good(l, trees'[l], Fallback(l)')
    BY <1>1, <1>2, <2>1, <2>2 DEF IInv
  <2>4. \A l \in Layers, k \in Options \ Lists :
           trees'[l][k].override => trees'[l][k].kept = Absent
    BY <1>4, <2>3 DEF Good, IInv, TypeOK
  <2>5. trees' \in [Layers -> Trees]
    BY <1>3 DEF WithLayer
  <2> QED BY <1>1, <1>2, <2>1, <2>3, <2>4, <2>5
<1> QED BY <1>5, <1>6

\* What is left of IInv once the layers are known to be good
LEMMA InvFromParts ==
    ASSUME IInv, NEW layer \in created, NEW tree, Good(layer, tree, Fallback(layer)),
           trees' = WithLayer(layer, tree), created' = created,
           files' \in [Layers -> Contents], dirty' \subseteq created, edits' \in Nat,
           dirty \ {layer} \subseteq dirty',
           \A l \in created \ {layer} : files'[l] = files[l],
           layer \notin dirty' => Agrees(layer, tree, files'[layer])
    PROVE  IInv'
<1>1. TypeOK'
  BY LayerChanges DEF IInv, TypeOK
<1>2. \A l \in created : Good(l, trees'[l], Fallback(l)')
  BY LayerChanges
<1>3. \A l \in created \ dirty' : Agrees(l, trees'[l], files'[l])
  BY LayerChanges DEF IInv
<1> QED BY <1>1, <1>2, <1>3 DEF IInv

LEMMA InitInv == Init => IInv
<1> SUFFICES ASSUME Init PROVE IInv
  OBVIOUS
<1>1. EmptyContent \in Contents /\ Defaults \in [Options -> Values]
  BY TreeAssumption DEF EmptyContent, Contents, Defaults
<1>2. files \in [Layers -> Contents] /\ Shared \in Layers
  BY <1>1, LayersAssumption DEF Init, Layers
<1>3. trees[Shared] = Synced(files[Shared], Defaults, Shared # Shared)
  BY <1>2 DEF Init
<1>4. \A l \in Layers \ {Shared} :
        trees[l] = Synced(EmptyContent, Defaults, l # Shared)
  BY DEF Init
<1>5. \A l \in Layers : Good(l, trees[l], Defaults)
  BY <1>1, <1>2, <1>3, <1>4, SyncedGood DEF Contents
<1>6. Agrees(Shared, trees[Shared], files[Shared])
  BY <1>1, <1>2, <1>3, SyncedGood
<1>7. TypeOK
  <2>1. trees \in [Layers -> Trees]
    BY <1>5 DEF Good, Init
  <2> QED BY <1>2, <1>5, <2>1 DEF Init, TypeOK, Good
<1>8. created = {Shared} /\ Fallback(Shared) = Defaults
  BY DEF Init, Fallback
<1> QED BY <1>2, <1>5, <1>6, <1>7, <1>8 DEF IInv

LEMMA CreateInv ==
    ASSUME IInv, NEW s \in Screens, CreateLayer(s)
    PROVE  IInv'
<1>1. s \in Layers /\ s # Shared /\ Shared \in created /\ s \notin created
  BY LayersAssumption DEF Layers, IInv, TypeOK, CreateLayer
<1>2. files[s] \in Contents /\ Fallback(s) \in [Options -> Values]
  BY <1>1, FallbackType DEF IInv, TypeOK
<1>3. /\ Good(s, trees'[s], Fallback(s))
      /\ Agrees(s, trees'[s], files[s])
  BY <1>1, <1>2, SyncedGood DEF CreateLayer, IInv, TypeOK
<1>4. \A l \in Layers \ {s} : trees'[l] = trees[l]
  BY DEF CreateLayer, IInv, TypeOK
<1>5. \A l \in Layers : Fallback(l)' = Fallback(l)
  BY <1>1, <1>4 DEF Fallback, Layers
<1>6. TypeOK'
  <2>1. trees' \in [Layers -> Trees]
    BY <1>1, <1>3, <1>4 DEF CreateLayer, IInv, TypeOK, Good
  <2> QED BY ZenonT(40), <1>1, <1>3, <1>4, <2>1 DEF CreateLayer, IInv, TypeOK, Good
<1> QED BY <1>1, <1>3, <1>4, <1>5, <1>6 DEF CreateLayer, IInv, TypeOK

LEMMA WriteInv ==
    ASSUME IInv, NEW layer \in created, NEW k \in Options, NEW value \in Values,
           Write(layer, k, value)
    PROVE  IInv'
<1> DEFINE l == Target(layer, k)
           tree == Written(trees[l], k, value)
<1>1. l \in created /\ l \in Layers /\ (l # Shared => k \notin GlobalOnly)
  BY DEF Target, IInv, TypeOK
<1>2. /\ trees' = WithLayer(l, tree)
      /\ dirty' = IF WriteDirties(trees[l], k, value) THEN dirty \cup {l} ELSE dirty
      /\ UNCHANGED <<created, files, edits>>
  BY DEF Write, Dirties
<1>3. /\ Good(l, tree, Fallback(l))
      /\ ~WriteDirties(trees[l], k, value) => tree = trees[l]
  BY <1>1, WrittenGood DEF IInv
<1>4. l \notin dirty' => Agrees(l, tree, files'[l])
  BY <1>1, <1>2, <1>3 DEF IInv
<1> HIDE DEF tree, l
<1> QED BY <1>1, <1>2, <1>3, <1>4, InvFromParts DEF IInv, TypeOK

LEMMA ResetOptionInv ==
    ASSUME IInv, NEW layer \in created, NEW k \in Options, ResetOption(layer, k)
    PROVE  IInv'
<1> DEFINE tree == Reset(trees[layer], k, Fallback(layer))
<1>1. layer \in Layers /\ Fallback(layer) \in [Options -> Values]
  BY FallbackType DEF IInv, TypeOK
<1>2. /\ trees' = WithLayer(layer, tree)
      /\ dirty' = IF tree # trees[layer] THEN dirty \cup {layer} ELSE dirty
      /\ UNCHANGED <<created, files, edits>>
  BY DEF ResetOption
<1>3. Good(layer, tree, Fallback(layer))
  BY <1>1, ResetGood DEF IInv
<1>4. layer \notin dirty' => Agrees(layer, tree, files'[layer])
  BY <1>2 DEF IInv
<1> HIDE DEF tree
<1> QED BY <1>1, <1>2, <1>3, <1>4, InvFromParts DEF IInv, TypeOK

LEMMA ResetSubtreeInv ==
    ASSUME IInv, NEW layer \in created, ResetSubtree(layer)
    PROVE  IInv'
<1> DEFINE tree == [k \in Options |->
                      IF k \in Resettable(layer)
                      THEN Inherited(Fallback(layer)[k], Absent)
                      ELSE Rejected(trees[layer])[k]]
<1>1. layer \in Layers /\ Fallback(layer) \in [Options -> Values]
  BY FallbackType DEF IInv, TypeOK
<1>2. /\ trees' = WithLayer(layer, tree)
      /\ dirty' = IF \E k \in Resettable(layer) : trees[layer][k].override
                  THEN dirty \cup {layer} ELSE dirty
      /\ UNCHANGED <<created, files, edits>>
  BY DEF ResetSubtree
<1>3. Good(layer, trees[layer], Fallback(layer))
  BY DEF IInv
<1>4. \A k \in Options : /\ Rejected(trees[layer])[k] \in Node
                          /\ Rejected(trees[layer])[k].value = trees[layer][k].value
                          /\ Rejected(trees[layer])[k].override = trees[layer][k].override
                          /\ Rejected(trees[layer])[k].kept = Absent
  BY <1>3 DEF Good, Rejected, Trees, Node
<1>5. \A k \in Options : /\ tree[k] \in Node
                          /\ ~tree[k].override
                          /\ tree[k].value = Fallback(layer)[k]
                          /\ tree[k].kept = Absent
  BY <1>1, <1>3, <1>4 DEF Good, Inherited, Node, Resettable
<1>6. Good(layer, tree, Fallback(layer))
  <2>1. tree \in Trees
    BY <1>5 DEF Trees
  <2> HIDE DEF tree
  <2> QED BY <2>1, <1>5, TreeAssumption DEF Good, Unread
<1>7. layer \notin dirty' => Agrees(layer, tree, files'[layer])
  <2> SUFFICES ASSUME layer \notin dirty' PROVE Agrees(layer, tree, files'[layer])
    OBVIOUS
  <2>1. Agrees(layer, trees[layer], files[layer])
        /\ \A k \in Resettable(layer) : ~trees[layer][k].override
    BY <1>2 DEF IInv
  <2>2. \A k \in Options : ~trees[layer][k].override
    BY <2>1, <1>3 DEF Good, Resettable
  <2> HIDE DEF tree
  <2> QED BY <1>2, <1>5, <2>1, <2>2 DEF Agrees
<1> HIDE DEF tree
<1> QED BY <1>1, <1>2, <1>6, <1>7, InvFromParts DEF IInv, TypeOK

LEMMA ReloadInv ==
    ASSUME IInv, NEW layer \in created, NEW content \in Edits, Reload(layer, content)
    PROVE  IInv'
<1> DEFINE tree == Synced(content, Fallback(layer), layer # Shared)
<1>1. layer \in Layers /\ Fallback(layer) \in [Options -> Values] /\ content \in Contents
  BY FallbackType, LayersAssumption DEF IInv, TypeOK
<1>2. /\ trees' = WithLayer(layer, tree)
      /\ files' = [files EXCEPT ![layer] = content]
      /\ edits' \in Nat
      /\ UNCHANGED <<created, dirty>>
  BY DEF Reload, IInv, TypeOK
<1>3. Good(layer, tree, Fallback(layer)) /\ Agrees(layer, tree, content)
  BY <1>1, SyncedGood
<1>4. /\ files' \in [Layers -> Contents] /\ files'[layer] = content
      /\ \A l \in created \ {layer} : files'[l] = files[l]
  BY <1>1, <1>2 DEF IInv, TypeOK
<1> HIDE DEF tree
<1> QED BY <1>1, <1>2, <1>3, <1>4, InvFromParts DEF IInv, TypeOK

LEMMA SaveInv ==
    ASSUME IInv, NEW layer \in created, Save(layer)
    PROVE  IInv'
<1>1. layer \in Layers /\ Good(layer, trees[layer], Fallback(layer))
  BY DEF IInv, TypeOK
<1>2. Json(trees[layer]) \in Contents
      /\ Agrees(layer, trees[layer], Json(trees[layer]))
  BY <1>1 DEF Good, Agrees, Unread, Json, Trees, Node, Contents
<1>3. \A l \in Layers : Fallback(l)' = Fallback(l)
  BY DEF Save, Fallback
<1>4. TypeOK'
  BY <1>1, <1>2 DEF Save, IInv, TypeOK
<1>5. \A l \in created \ dirty' : Agrees(l, trees[l], files'[l])
  BY <1>1, <1>2 DEF Save, IInv, TypeOK
<1>6. created \subseteq Layers
  BY DEF IInv, TypeOK
<1> QED BY <1>3, <1>4, <1>5, <1>6 DEF Save, IInv

LEMMA NextInv == IInv /\ [Next]_vars => IInv'
<1> SUFFICES ASSUME IInv, [Next]_vars PROVE IInv'
  OBVIOUS
<1>1. CASE UNCHANGED vars
  BY <1>1 DEF vars, IInv, TypeOK, Fallback
<1>2. CASE Next
  BY <1>2, CreateInv, WriteInv, ResetOptionInv, ResetSubtreeInv, ReloadInv, SaveInv
     DEF Next
<1> QED BY <1>1, <1>2

---------------------------------------------------------------------------
(* Theorems                                                                *)

\* The induction: every layer the registry has is good and, unless it is to be
\* saved, agrees with its file (recordWrite, saveToFile).
THEOREM Invariance == Spec => []IInv
BY InitInv, NextInv, PTL DEF Spec

\* Trees, files and layers keep their types, and no option is both defined and
\* quarantined (recordWrite, removeQuarantined).
THEOREM LayersTyped == Spec => []TypeOK
<1>1. IInv => TypeOK
  BY DEF IInv
<1> QED BY <1>1, Invariance, PTL

\* Screens have the value of the global layer for what they do not override
\* (onFallbackNotify, resetUnvisited).
THEOREM InheritedFollows == Spec => []InheritedFollowsGlobal
<1>1. IInv => InheritedFollowsGlobal
  BY DEF IInv, TypeOK, Good, Fallback, TreeValues, InheritedFollowsGlobal
<1> QED BY <1>1, Invariance, PTL

\* No screen defines a global option (forwardGlobalWrite, loadFromJson).
THEOREM GlobalStaysGlobal == Spec => []GlobalOnlyIsGlobal
<1>1. IInv => GlobalOnlyIsGlobal
  BY TreeAssumption DEF IInv, Good, GlobalOnlyIsGlobal
<1> QED BY <1>1, Invariance, PTL

\* A restart after the last save brings back the values and the overrides
\* there are (recordWrite, toJson, syncJson).
THEOREM RestartKeeps == Spec => []RestartKeepsValues
<1>1. ASSUME IInv PROVE RestartKeepsValues
  <2> SUFFICES ASSUME NEW l \in created \ dirty
               PROVE  \E again \in {Synced(files[l], Fallback(l), l # Shared)} :
                         /\ TreeValues(again) = TreeValues(trees[l])
                         /\ \A k \in Options : again[k].override = trees[l][k].override
    BY DEF RestartKeepsValues
  <2>1. l \in Layers /\ files[l] \in Contents
    BY <1>1 DEF IInv, TypeOK
  <2>2. Fallback(l) \in [Options -> Values]
    BY <1>1, <2>1, FallbackType DEF IInv
  <2>3. Good(l, trees[l], Fallback(l)) /\ Agrees(l, trees[l], files[l])
    BY <1>1 DEF IInv
  <2> QED BY <2>1, <2>2, <2>3, AgreesIsSynced DEF TreeValues
<1> QED BY <1>1, Invariance, PTL

\* A screen keeps its overrides whatever the global layer becomes
\* (onFallbackNotify).
THEOREM OverridesAreKept == Spec => OverridesStay
<1>1. ASSUME IInv, [Next]_vars, trees[Shared] # trees'[Shared],
             NEW s \in created \ {Shared}, NEW k \in Options, trees[s][k].override
      PROVE  trees'[s][k] = trees[s][k]
  <2>1. Shared \in Layers /\ s \in Layers /\ trees \in [Layers -> Trees]
    BY <1>1 DEF IInv, TypeOK, Layers
  <2>2. \A tree : trees' = WithLayer(Shared, tree) => trees'[s][k] = trees[s][k]
    BY <1>1, <2>1 DEF WithLayer, Followed
  <2>3. \A l \in created \ {Shared} : \A tree :
          trees' = WithLayer(l, tree) => trees'[Shared] = trees[Shared]
    BY <2>1 DEF WithLayer
  <2>4. \A l \in Screens : CreateLayer(l) => trees'[Shared] = trees[Shared]
    BY <2>1, LayersAssumption DEF CreateLayer
  <2>5. \A l \in created, j \in Options, v \in Values :
          Write(l, j, v) => \E m \in created : \E tree : trees' = WithLayer(m, tree)
    BY <1>1 DEF Write, Target, IInv, TypeOK
  <2>6. \A l \in created, j \in Options :
          ResetOption(l, j) => \E tree : trees' = WithLayer(l, tree)
    BY DEF ResetOption
  <2>7. \A l \in created :
          ResetSubtree(l) => \E tree : trees' = WithLayer(l, tree)
    BY DEF ResetSubtree
  <2>8. \A l \in created, c \in Edits :
          Reload(l, c) => \E tree : trees' = WithLayer(l, tree)
    BY DEF Reload
  <2>9. \A l \in created : Save(l) => trees' = trees
    BY DEF Save
  <2>10. Next
    BY <1>1 DEF vars
  <2> QED BY <1>1, <2>2, <2>3, <2>4, <2>5, <2>6, <2>7, <2>8, <2>9, <2>10 DEF Next
<1>2. IInv /\ [Next]_vars =>
        (trees[Shared] # trees'[Shared] =>
           \A s \in created \ {Shared}, k \in Options :
             trees[s][k].override => trees'[s][k] = trees[s][k])
  BY <1>1
<1> QED BY <1>2, Invariance, PTL DEF Spec, OverridesStay

\* What holds of the layers at any time, together.
THEOREM LayersStayInAgreement == Spec => []LayersAgree
BY LayersTyped, InheritedFollows, GlobalStaysGlobal, RestartKeeps, PTL DEF LayersAgree

---------------------------------------------------------------------------
(* SettingsList: an overlay that copies a list, element by element         *)

Elements == [node : Nodes, value : ElementValues]
Copies == [value : ElementValues, override : BOOLEAN, fallback : Nodes \cup {None}]

\* A copy that falls back to an element and has its value, unless it was edited
CopyOf(copy, element) ==
    copy.fallback = element.node /\ (copy.override \/ copy.value = element.value)

NoNodeTwice(list) ==
    \A i, j \in DOMAIN list : list[i].node = list[j].node => i = j

\* An overlay is the copies of a list, in its order, or has nothing of it.
Mirrors(copies, list) ==
    /\ Len(copies) = Len(list)
    /\ \A i \in DOMAIN list : CopyOf(copies[i], list[i])

IsDetached(copies) == \A i \in DOMAIN copies : copies[i].fallback = None

ElementsTyped ==
    /\ global \in Seq(Elements) /\ NoNodeTwice(global)
    /\ overlay \in Seq(Copies) /\ overridden \in BOOLEAN

ElementsInvariant ==
    /\ ElementsTyped
    /\ IF overridden THEN IsDetached(overlay) ELSE Mirrors(overlay, global)

LEMMA FunctionIsSequence ==
    ASSUME NEW S, NEW n \in Nat, NEW f \in [1 .. n -> S]
    PROVE  f \in Seq(S) /\ Len(f) = n
OBVIOUS

LEMMA JoinedAt ==
    ASSUME NEW S, NEW u \in Seq(S), NEW x \in Seq(S), NEW k \in 1 .. Len(u) + Len(x)
    PROVE  (u \o x)[k] = IF k <= Len(u) THEN u[k] ELSE x[k - Len(u)]
OBVIOUS

\* What an insertion, a removal and a move leave at each index
Inserted(u, w, i, e) ==
    /\ Len(u) = Len(w) + 1
    /\ \A k \in 1 .. Len(w) + 1 :
          u[k] = IF k < i THEN w[k] ELSE IF k = i THEN e ELSE w[k - 1]

LEMMA InsertedAt ==
    ASSUME NEW S, NEW w \in Seq(S), NEW i \in 1 .. Len(w) + 1, NEW e \in S
    PROVE  InsertAt(w, i, e) \in Seq(S) /\ Inserted(InsertAt(w, i, e), w, i, e)
<1> DEFINE u == SubSeq(w, 1, i - 1)
           x == SubSeq(w, i, Len(w))
<1>1. /\ u \in Seq(S) /\ Len(u) = i - 1 /\ \A k \in 1 .. i - 1 : u[k] = w[k]
      /\ x \in Seq(S) /\ Len(x) = Len(w) - i + 1
      /\ \A k \in 1 .. Len(w) - i + 1 : x[k] = w[k + i - 1]
  OBVIOUS
<1>2. InsertAt(w, i, e) = (u \o <<e>>) \o x
  BY DEF InsertAt
<1> HIDE DEF u, x
<1> DEFINE y == u \o <<e>>
<1>3. /\ y \in Seq(S) /\ Len(y) = i
      /\ \A k \in 1 .. i : y[k] = IF k < i THEN w[k] ELSE e
  BY <1>1
<1>4. InsertAt(w, i, e) = y \o x
  BY <1>2
<1> HIDE DEF y
<1>5. InsertAt(w, i, e) \in Seq(S) /\ Len(InsertAt(w, i, e)) = Len(w) + 1
  <2>1. y \in Seq(S) /\ x \in Seq(S) /\ Len(y) = i /\ Len(x) = Len(w) - i + 1
    BY <1>1, <1>3
  <2>2. y \o x \in Seq(S) /\ Len(y \o x) = Len(y) + Len(x)
    BY <2>1
  <2> QED BY <1>4, <2>1, <2>2
<1>6. ASSUME NEW k \in 1 .. Len(w) + 1
      PROVE  InsertAt(w, i, e)[k] = IF k <= i THEN y[k] ELSE x[k - i]
  <2>1. k \in 1 .. Len(y) + Len(x)
    BY <1>1, <1>3
  <2>2. (y \o x)[k] = IF k <= Len(y) THEN y[k] ELSE x[k - Len(y)]
    BY <1>1, <1>3, <2>1, JoinedAt
  <2> QED BY <1>3, <1>4, <2>2
<1>7. ASSUME NEW k \in 1 .. Len(w) + 1
      PROVE  InsertAt(w, i, e)[k] = IF k < i THEN w[k] ELSE IF k = i THEN e ELSE w[k - 1]
  <2>1. CASE k <= i
    BY <1>3, <1>6, <2>1
  <2>2. CASE k > i
    <3>1. k - i \in 1 .. Len(w) - i + 1 /\ (k - i) + i - 1 = k - 1
      BY <2>2
    <3> QED BY <1>1, <1>6, <2>2, <3>1
  <2> QED BY <2>1, <2>2
<1> QED BY <1>5, <1>7 DEF Inserted

LEMMA RemovedAt ==
    ASSUME NEW S, NEW w \in Seq(S), NEW i \in 1 .. Len(w)
    PROVE  /\ RemoveAt(w, i) \in Seq(S) /\ Len(RemoveAt(w, i)) = Len(w) - 1
           /\ \A k \in 1 .. Len(w) - 1 : RemoveAt(w, i)[k] = IF k < i THEN w[k] ELSE w[k + 1]
<1> DEFINE u == SubSeq(w, 1, i - 1)
           x == SubSeq(w, i + 1, Len(w))
<1>1. /\ u \in Seq(S) /\ Len(u) = i - 1 /\ \A k \in 1 .. i - 1 : u[k] = w[k]
      /\ x \in Seq(S) /\ Len(x) = Len(w) - i
      /\ \A k \in 1 .. Len(w) - i : x[k] = w[k + i]
  OBVIOUS
<1>2. RemoveAt(w, i) = u \o x
  BY DEF RemoveAt
<1> HIDE DEF u, x
<1> QED BY <1>1, <1>2

\* Where the element that a move puts at index k was
Before(i, j, k) ==
    IF k = j THEN i
    ELSE LET m == IF k < j THEN k ELSE k - 1 IN IF m < i THEN m ELSE m + 1

\* and where it puts the one that was there.
After(i, j, k) ==
    IF k = i THEN j
    ELSE LET m == IF k < i THEN k ELSE k - 1 IN IF m < j THEN m ELSE m + 1

LEMMA MovedAt ==
    ASSUME NEW S, NEW w \in Seq(S), NEW i \in 1 .. Len(w), NEW j \in 1 .. Len(w)
    PROVE  /\ Moved(w, i, j) \in Seq(S) /\ Len(Moved(w, i, j)) = Len(w)
           /\ \A k \in 1 .. Len(w) :
                 Before(i, j, k) \in 1 .. Len(w) /\ Moved(w, i, j)[k] = w[Before(i, j, k)]
<1> DEFINE r == RemoveAt(w, i)
<1>1. /\ r \in Seq(S) /\ Len(r) = Len(w) - 1 /\ w[i] \in S
      /\ \A k \in 1 .. Len(w) - 1 : r[k] = IF k < i THEN w[k] ELSE w[k + 1]
  BY RemovedAt
<1> DEFINE e == w[i]
<1>2. Moved(w, i, j) = InsertAt(r, j, e) /\ e \in S
  BY <1>1 DEF Moved
<1> HIDE DEF r, e
<1>3. j \in 1 .. Len(r) + 1
  BY <1>1
<1>4. InsertAt(r, j, e) \in Seq(S) /\ Inserted(InsertAt(r, j, e), r, j, e)
  <2>1. r \in Seq(S) /\ e \in S
    BY <1>1, <1>2
  <2> QED BY <1>3, <2>1, InsertedAt
<1> QED BY <1>1, <1>2, <1>4 DEF Inserted, Before, e

LEMMA BeforeAndAfter ==
    ASSUME NEW n \in Nat, NEW i \in 1 .. n, NEW j \in 1 .. n, NEW k \in 1 .. n
    PROVE  /\ After(i, j, k) \in 1 .. n /\ Before(i, j, After(i, j, k)) = k
           /\ Before(i, j, k) \in 1 .. n /\ After(i, j, Before(i, j, k)) = k
BY DEF Before, After

\* A list that an override of it replaces is detached, whatever it was.
LEMMA MutationDetaches ==
    ASSUME ElementsInvariant, NEW list \in Seq(Copies), Mutate(list)
    PROVE  ElementsInvariant'
<1>1. /\ overlay' = Detached(list) /\ overridden' = TRUE /\ global' = global
  BY DEF Mutate
<1> DEFINE free(c) == [c EXCEPT !.fallback = None]
<1>2. \A c \in Copies : free(c) \in Copies /\ free(c).fallback = None
  BY DEF Copies
<1>3. Detached(list) = [i \in 1 .. Len(list) |-> free(list[i])]
  BY DEF Detached, Indices
<1> HIDE DEF free
<1>4. Detached(list) \in [1 .. Len(list) -> Copies]
  BY <1>2, <1>3
<1>5. Detached(list) \in Seq(Copies)
  BY <1>4, FunctionIsSequence
<1>6. IsDetached(Detached(list))
  BY <1>2, <1>3 DEF IsDetached
<1> QED BY <1>1, <1>5, <1>6 DEF ElementsInvariant, ElementsTyped

\* When the global list changes and the overlay is none of it, no edit is lost.
LEMMA OverriddenStays ==
    ASSUME ElementsInvariant, overridden, overridden' = overridden, overlay' = overlay,
           global' \in Seq(Elements), NoNodeTwice(global')
    PROVE  ElementsInvariant' /\ KeepsEdits
BY DEF ElementsInvariant, ElementsTyped, KeepsEdits, Indices

\* When each copy that is left stays with its element, none is lost.
LEMMA MirrorStays ==
    ASSUME ElementsInvariant, ~overridden, overridden' = overridden,
           overlay' \in Seq(Copies), global' \in Seq(Elements), NoNodeTwice(global'),
           Mirrors(overlay', global'),
           \A i \in DOMAIN overlay :
              \/ ~overlay[i].override
              \/ \A j \in DOMAIN global' : global'[j].node # overlay[i].fallback
              \/ \E j \in DOMAIN overlay' : overlay'[j] = overlay[i]
    PROVE  ElementsInvariant' /\ KeepsEdits
BY DEF ElementsInvariant, ElementsTyped, KeepsEdits, Indices

LEMMA InsertionIsFollowed ==
    ASSUME ElementsInvariant, NEW i \in 1 .. Len(global) + 1, NEW value \in ElementValues,
           GlobalInsert(i, value)
    PROVE  ElementsInvariant' /\ KeepsEdits
<1>1. PICK n \in Fresh : global' = InsertAt(global, i, [node |-> n, value |-> value])
  BY DEF GlobalInsert
<1> DEFINE e == [node |-> n, value |-> value]
<1>2. /\ e \in Elements /\ e.node = n
      /\ overridden' = overridden /\ overlay' = FollowInsert(overlay, i)
  BY DEF GlobalInsert, Elements, Fresh
<1>3. \A k \in DOMAIN global : global[k].node # n
  BY DEF Fresh, Indices
<1> HIDE DEF e
<1>4. /\ global' \in Seq(Elements) /\ Len(global') = Len(global) + 1
      /\ \A k \in 1 .. Len(global) + 1 :
            global'[k] = IF k < i THEN global[k] ELSE IF k = i THEN e ELSE global[k - 1]
  <2>1. global \in Seq(Elements) /\ global' = InsertAt(global, i, e)
    BY <1>1 DEF ElementsInvariant, ElementsTyped, e
  <2>2. InsertAt(global, i, e) \in Seq(Elements) /\ Inserted(InsertAt(global, i, e), global, i, e)
    BY <1>2, <2>1, InsertedAt
  <2> QED BY <2>1, <2>2 DEF Inserted
<1>5. NoNodeTwice(global')
  <2>1. /\ DOMAIN global = 1 .. Len(global) /\ Len(global) \in Nat
        /\ DOMAIN global' = 1 .. Len(global) + 1
        /\ \A k, m \in 1 .. Len(global) : global[k].node = global[m].node => k = m
    BY <1>4 DEF ElementsInvariant, ElementsTyped, NoNodeTwice
  <2> SUFFICES ASSUME NEW k \in 1 .. Len(global) + 1, NEW m \in 1 .. Len(global) + 1,
                      global'[k].node = global'[m].node
               PROVE  k = m
    BY <2>1 DEF NoNodeTwice
  <2>2. CASE k = i \/ m = i
    <3>1. ASSUME NEW x \in 1 .. Len(global) + 1, x # i PROVE global'[x].node # e.node
      <4>1. CASE x < i
        BY <1>2, <1>3, <1>4, <2>1, <4>1
      <4>2. CASE x > i
        <5>1. x - 1 \in 1 .. Len(global) /\ global'[x] = global[x - 1]
          BY <1>4, <2>1, <4>2
        <5> QED BY <1>2, <1>3, <2>1, <5>1
      <4> QED BY <2>1, <3>1, <4>1, <4>2
    <3>2. global'[i] = e
      BY <1>4, <2>1
    <3> QED BY <2>2, <3>1, <3>2
  <2>3. CASE k # i /\ m # i
    <3> DEFINE from(x) == IF x < i THEN x ELSE x - 1
    <3>1. /\ from(k) \in 1 .. Len(global) /\ global'[k] = global[from(k)]
          /\ from(m) \in 1 .. Len(global) /\ global'[m] = global[from(m)]
      BY <1>4, <2>1, <2>3
    <3>2. from(k) = from(m)
      BY <2>1, <3>1
    <3> QED BY <2>1, <2>3, <3>2
  <2> QED BY <2>2, <2>3
<1>6. CASE overridden
  BY <1>2, <1>4, <1>5, <1>6, OverriddenStays DEF FollowInsert
<1>7. CASE ~overridden
  <2> DEFINE c == Copy(e)
  <2>1. c \in Copies /\ CopyOf(c, e)
    BY <1>2 DEF Copy, Copies, CopyOf, Elements
  <2>2. overlay' = InsertAt(overlay, i, c) /\ overlay \in Seq(Copies)
        /\ Len(overlay) = Len(global)
    BY <1>2, <1>4, <1>7 DEF FollowInsert, ElementsInvariant, ElementsTyped, Mirrors
  <2> HIDE DEF c
  <2>3. /\ overlay' \in Seq(Copies) /\ Len(overlay') = Len(overlay) + 1
        /\ \A k \in 1 .. Len(overlay) + 1 :
              overlay'[k] = IF k < i THEN overlay[k] ELSE IF k = i THEN c ELSE overlay[k - 1]
    <3>1. i \in 1 .. Len(overlay) + 1
      BY <2>2
    <3>2. InsertAt(overlay, i, c) \in Seq(Copies) /\ Inserted(InsertAt(overlay, i, c), overlay, i, c)
      BY <2>1, <2>2, <3>1, InsertedAt
    <3> QED BY <2>2, <3>2 DEF Inserted
  <2>4. Mirrors(overlay', global')
    <3>1. /\ \A k \in 1 .. Len(global) : CopyOf(overlay[k], global[k])
          /\ Len(global) \in Nat
      BY <1>7 DEF ElementsInvariant, ElementsTyped, Mirrors
    <3>2. ASSUME NEW k \in 1 .. Len(global) + 1 PROVE CopyOf(overlay'[k], global'[k])
      <4>1. CASE k < i
        BY <1>4, <2>2, <2>3, <3>1, <4>1
      <4>2. CASE k = i
        BY <1>4, <2>1, <2>2, <2>3, <4>2
      <4>3. CASE k > i
        <5>1. k - 1 \in 1 .. Len(global) /\ global'[k] = global[k - 1]
              /\ overlay'[k] = overlay[k - 1]
          BY <1>4, <2>2, <2>3, <3>1, <4>3
        <5> QED BY <3>1, <5>1
      <4> QED BY <4>1, <4>2, <4>3
    <3> QED BY <1>4, <2>2, <2>3, <3>1, <3>2 DEF Mirrors
  <2>5. \A k \in DOMAIN overlay : \E m \in DOMAIN overlay' : overlay'[m] = overlay[k]
    <3> SUFFICES ASSUME NEW k \in DOMAIN overlay
                 PROVE  \E m \in DOMAIN overlay' : overlay'[m] = overlay[k]
      OBVIOUS
    <3>1. CASE k < i
      BY <2>2, <2>3, <3>1
    <3>2. CASE k >= i
      <4>1. k + 1 \in DOMAIN overlay' /\ overlay'[k + 1] = overlay[k]
        BY <2>2, <2>3, <3>2
      <4> QED BY <4>1
    <3> QED BY <3>1, <3>2, <2>2
  <2> QED BY <1>2, <1>4, <1>5, <1>7, <2>3, <2>4, <2>5, MirrorStays
<1> QED BY <1>6, <1>7

LEMMA RemovalIsFollowed ==
    ASSUME ElementsInvariant, NEW i \in DOMAIN global, GlobalRemove(i)
    PROVE  ElementsInvariant' /\ KeepsEdits
<1>1. /\ global' = RemoveAt(global, i) /\ overlay' = FollowRemove(overlay, i)
      /\ overridden' = overridden /\ global \in Seq(Elements) /\ i \in 1 .. Len(global)
  BY DEF GlobalRemove, ElementsInvariant, ElementsTyped
<1>2. /\ global' \in Seq(Elements) /\ Len(global') = Len(global) - 1
      /\ \A k \in 1 .. Len(global) - 1 :
            global'[k] = IF k < i THEN global[k] ELSE global[k + 1]
  BY <1>1, RemovedAt
<1>3. NoNodeTwice(global') /\ \A k \in DOMAIN global' : global'[k].node # global[i].node
  <2>1. /\ DOMAIN global = 1 .. Len(global) /\ Len(global) \in Nat
        /\ DOMAIN global' = 1 .. Len(global) - 1
        /\ \A k, m \in 1 .. Len(global) : global[k].node = global[m].node => k = m
    <3>1. DOMAIN global = 1 .. Len(global) /\ Len(global) \in Nat
      BY <1>1
    <3>2. DOMAIN global' = 1 .. Len(global')
      BY <1>2
    <3> QED BY <1>2, <3>1, <3>2 DEF ElementsInvariant, ElementsTyped, NoNodeTwice
  <2> DEFINE from(x) == IF x < i THEN x ELSE x + 1
  <2>2. /\ \A k \in 1 .. Len(global) - 1 :
              from(k) \in 1 .. Len(global) /\ from(k) # i /\ global'[k] = global[from(k)]
        /\ \A k, m \in 1 .. Len(global) - 1 : from(k) = from(m) => k = m
    BY <1>1, <1>2, <2>1
  <2> HIDE DEF from
  <2>3. ASSUME NEW k \in DOMAIN global' PROVE global'[k].node # global[i].node
    BY <1>1, <2>1, <2>2
  <2>4. ASSUME NEW k \in DOMAIN global', NEW m \in DOMAIN global',
               global'[k].node = global'[m].node
        PROVE  k = m
    <3>1. from(k) = from(m)
      BY <2>1, <2>2, <2>4
    <3> QED BY <2>1, <2>2, <3>1
  <2> QED BY <2>3, <2>4 DEF NoNodeTwice
<1>4. CASE overridden
  BY <1>1, <1>2, <1>3, <1>4, OverriddenStays DEF FollowRemove
<1>5. CASE ~overridden
  <2>1. /\ overlay' = RemoveAt(overlay, i) /\ overlay \in Seq(Copies)
        /\ Len(overlay) = Len(global)
    BY <1>1, <1>5 DEF FollowRemove, ElementsInvariant, ElementsTyped, Mirrors
  <2>2. /\ overlay' \in Seq(Copies) /\ Len(overlay') = Len(overlay) - 1
        /\ \A k \in 1 .. Len(overlay) - 1 :
              overlay'[k] = IF k < i THEN overlay[k] ELSE overlay[k + 1]
    BY <1>1, <2>1, RemovedAt
  <2>3. Mirrors(overlay', global')
    <3>1. /\ \A k \in 1 .. Len(global) : CopyOf(overlay[k], global[k])
          /\ Len(global) \in Nat
      BY <1>5 DEF ElementsInvariant, ElementsTyped, Mirrors
    <3>2. ASSUME NEW k \in 1 .. Len(global) - 1 PROVE CopyOf(overlay'[k], global'[k])
      <4>1. CASE k < i
        BY <1>1, <1>2, <2>1, <2>2, <3>1, <4>1
      <4>2. CASE k >= i
        <5>1. k + 1 \in 1 .. Len(global) /\ global'[k] = global[k + 1]
              /\ overlay'[k] = overlay[k + 1]
          BY <1>1, <1>2, <2>1, <2>2, <3>1, <4>2
        <5> QED BY <3>1, <5>1
      <4> QED BY <4>1, <4>2
    <3> QED BY <1>2, <2>1, <2>2, <3>1, <3>2 DEF Mirrors
  <2>4. ASSUME NEW k \in DOMAIN overlay
        PROVE  \/ \A m \in DOMAIN global' : global'[m].node # overlay[k].fallback
               \/ \E m \in DOMAIN overlay' : overlay'[m] = overlay[k]
    <3>1. CASE k = i
      <4>1. overlay[k].fallback = global[i].node
        BY <1>1, <1>5, <3>1 DEF ElementsInvariant, Mirrors, CopyOf
      <4> QED BY <1>3, <4>1
    <3>2. CASE k < i
      BY <1>1, <2>1, <2>2, <3>2
    <3>3. CASE k > i
      <4>1. k - 1 \in DOMAIN overlay' /\ overlay'[k - 1] = overlay[k]
        BY <1>1, <2>1, <2>2, <3>3
      <4> QED BY <4>1
    <3> QED BY <1>1, <2>1, <3>1, <3>2, <3>3
  <2> QED BY <1>1, <1>2, <1>3, <1>5, <2>2, <2>3, <2>4, MirrorStays
<1> QED BY <1>4, <1>5

LEMMA MoveIsFollowed ==
    ASSUME ElementsInvariant, NEW i \in DOMAIN global, NEW j \in DOMAIN global,
           GlobalMove(i, j)
    PROVE  ElementsInvariant' /\ KeepsEdits
<1>1. /\ global' = Moved(global, i, j) /\ overlay' = FollowMove(overlay, i, j)
      /\ overridden' = overridden /\ global \in Seq(Elements)
      /\ i \in 1 .. Len(global) /\ j \in 1 .. Len(global) /\ Len(global) \in Nat
  BY DEF GlobalMove, ElementsInvariant, ElementsTyped
<1>2. /\ global' \in Seq(Elements) /\ Len(global') = Len(global)
      /\ \A k \in 1 .. Len(global) :
            Before(i, j, k) \in 1 .. Len(global) /\ global'[k] = global[Before(i, j, k)]
  BY <1>1, MovedAt
<1>3. \A k \in 1 .. Len(global) :
         /\ After(i, j, k) \in 1 .. Len(global) /\ Before(i, j, After(i, j, k)) = k
         /\ After(i, j, Before(i, j, k)) = k
  BY <1>1, BeforeAndAfter
<1>4. NoNodeTwice(global')
  <2> SUFFICES ASSUME NEW k \in DOMAIN global', NEW m \in DOMAIN global',
                      global'[k].node = global'[m].node
               PROVE  k = m
    BY DEF NoNodeTwice
  <2>1. k \in 1 .. Len(global) /\ m \in 1 .. Len(global)
    BY <1>1, <1>2
  <2>2. Before(i, j, k) = Before(i, j, m)
    BY <1>1, <1>2, <2>1 DEF ElementsInvariant, ElementsTyped, NoNodeTwice
  <2> QED BY <1>3, <2>1, <2>2
<1>5. CASE overridden
  BY <1>1, <1>2, <1>4, <1>5, OverriddenStays DEF FollowMove
<1>6. CASE ~overridden
  <2>1. /\ overlay' = Moved(overlay, i, j) /\ overlay \in Seq(Copies)
        /\ Len(overlay) = Len(global)
    BY <1>1, <1>6 DEF FollowMove, ElementsInvariant, ElementsTyped, Mirrors
  <2>2. /\ overlay' \in Seq(Copies) /\ Len(overlay') = Len(overlay)
        /\ \A k \in 1 .. Len(overlay) : overlay'[k] = overlay[Before(i, j, k)]
    <3>1. i \in 1 .. Len(overlay) /\ j \in 1 .. Len(overlay)
      BY <1>1, <2>1
    <3>2. /\ Moved(overlay, i, j) \in Seq(Copies) /\ Len(Moved(overlay, i, j)) = Len(overlay)
          /\ \A k \in 1 .. Len(overlay) : /\ Before(i, j, k) \in 1 .. Len(overlay)
                                        /\ Moved(overlay, i, j)[k] = overlay[Before(i, j, k)]
      BY <2>1, <3>1, MovedAt
    <3> QED BY <2>1, <3>2
  <2>3. Mirrors(overlay', global')
    BY <1>1, <1>2, <1>6, <2>1, <2>2 DEF ElementsInvariant, ElementsTyped, Mirrors
  <2>4. ASSUME NEW k \in DOMAIN overlay
        PROVE  \E m \in DOMAIN overlay' : overlay'[m] = overlay[k]
    <3>1. k \in 1 .. Len(global)
      BY <2>1
    <3>2. After(i, j, k) \in DOMAIN overlay' /\ overlay'[After(i, j, k)] = overlay[k]
      BY <1>3, <2>1, <2>2, <3>1
    <3> QED BY <3>2
  <2> QED BY <1>1, <1>2, <1>4, <1>6, <2>2, <2>3, <2>4, MirrorStays
<1> QED BY <1>5, <1>6

\* The copies of a list are a mirror of it.
LEMMA CopiesMirror ==
    ASSUME NEW list \in Seq(Elements)
    PROVE  /\ [i \in DOMAIN list |-> Copy(list[i])] \in Seq(Copies)
           /\ Mirrors([i \in DOMAIN list |-> Copy(list[i])], list)
<1>1. \A e \in Elements : Copy(e) \in Copies /\ CopyOf(Copy(e), e)
  BY DEF Copy, Copies, Elements, CopyOf
<1> DEFINE copies == [i \in DOMAIN list |-> Copy(list[i])]
<1>2. copies \in [1 .. Len(list) -> Copies] /\ \A i \in DOMAIN list : list[i] \in Elements
  BY <1>1
<1>3. copies \in Seq(Copies) /\ Len(copies) = Len(list)
  BY <1>2, FunctionIsSequence
<1>4. \A i \in DOMAIN list : copies[i] = Copy(list[i])
  OBVIOUS
<1> HIDE DEF copies
<1>5. Mirrors(copies, list)
  BY <1>1, <1>2, <1>3, <1>4 DEF Mirrors
<1> QED BY <1>3, <1>5 DEF copies

LEMMA ReplacementIsFollowed ==
    ASSUME ElementsInvariant, NEW values \in Replacements, GlobalSet(values)
    PROVE  ElementsInvariant' /\ KeepsEdits
<1>1. PICK nodes \in [DOMAIN values -> Fresh] :
         /\ IsInjective(nodes)
         /\ global' = [i \in DOMAIN values |-> [node |-> nodes[i], value |-> values[i]]]
  BY DEF GlobalSet, Indices
<1>2. values \in Seq(ElementValues) /\ overridden' = overridden
      /\ overlay' = FollowAll(overlay)
  <2>1. \A u \in ElementValues : <<u>> \in Seq(ElementValues)
    OBVIOUS
  <2>2. <<>> \in Seq(ElementValues)
    OBVIOUS
  <2>3. values \in Seq(ElementValues)
    BY <2>1, <2>2 DEF Replacements
  <2> QED BY <2>3 DEF GlobalSet
<1>3. \A n \in Fresh : n \in Nodes /\ \A k \in DOMAIN global : global[k].node # n
  BY DEF Fresh, Indices
<1>4. global' \in Seq(Elements)
  <2>1. \A k \in 1 .. Len(values) : [node |-> nodes[k], value |-> values[k]] \in Elements
    BY <1>2, <1>3 DEF Elements
  <2>2. global' \in [1 .. Len(values) -> Elements]
    BY <1>1, <1>2, <2>1
  <2> QED BY <1>2, <2>2, FunctionIsSequence
<1>5. DOMAIN global' = DOMAIN values /\ \A k \in DOMAIN values : global'[k].node = nodes[k]
  BY <1>1
<1>6. NoNodeTwice(global')
  BY <1>1, <1>5 DEF NoNodeTwice, IsInjective
<1>7. CASE overridden
  BY <1>2, <1>4, <1>6, <1>7, OverriddenStays DEF FollowAll
<1>8. CASE ~overridden
  <2>1. overlay' = [k \in DOMAIN global' |-> Copy(global'[k])]
    BY <1>2, <1>8 DEF FollowAll, Indices
  <2>2. overlay' \in Seq(Copies) /\ Mirrors(overlay', global')
    BY <1>4, <2>1, CopiesMirror
  <2>3. ASSUME NEW k \in DOMAIN overlay, NEW m \in DOMAIN global'
        PROVE  global'[m].node # overlay[k].fallback
    <3>1. k \in DOMAIN global /\ overlay[k].fallback = global[k].node
      BY <1>8 DEF ElementsInvariant, ElementsTyped, Mirrors, CopyOf
    <3> QED BY <1>1, <1>3, <1>5, <3>1
  <2> QED BY <1>2, <1>4, <1>6, <1>8, <2>2, <2>3, MirrorStays
<1> QED BY <1>7, <1>8

LEMMA EditIsFollowed ==
    ASSUME ElementsInvariant, NEW i \in DOMAIN global, NEW value \in ElementValues,
           GlobalEdit(i, value)
    PROVE  ElementsInvariant' /\ KeepsEdits
<1>1. /\ global' = [global EXCEPT ![i].value = value]
      /\ overlay' = FollowElement(overlay, global[i].node, value)
      /\ overridden' = overridden
      /\ global \in Seq(Elements) /\ overlay \in Seq(Copies)
  BY DEF GlobalEdit, ElementsInvariant, ElementsTyped
<1>2. /\ global' \in Seq(Elements) /\ DOMAIN global' = DOMAIN global
      /\ Len(global') = Len(global)
      /\ \A k \in DOMAIN global :
            /\ global'[k].node = global[k].node
            /\ global'[k].value = IF k = i THEN value ELSE global[k].value
  <2> DEFINE set(e) == [e EXCEPT !.value = value]
  <2>1. \A e \in Elements : /\ set(e) \in Elements /\ set(e).node = e.node
                            /\ set(e).value = value
    BY DEF Elements
  <2>2. global' = [k \in 1 .. Len(global) |-> IF k = i THEN set(global[k]) ELSE global[k]]
    <3>1. DOMAIN global = 1 .. Len(global) /\ global = [k \in 1 .. Len(global) |-> global[k]]
      BY <1>1
    <3>2. global' = [k \in DOMAIN global |-> IF k = i THEN set(global[k]) ELSE global[k]]
      BY <1>1
    <3> QED BY <3>1, <3>2
  <2> HIDE DEF set
  <2>3. global' \in [1 .. Len(global) -> Elements]
    <3>1. \A k \in 1 .. Len(global) : global[k] \in Elements
      BY <1>1
    <3> QED BY <2>1, <2>2, <3>1
  <2>4. global' \in Seq(Elements) /\ Len(global') = Len(global)
    BY <1>1, <2>3, FunctionIsSequence
  <2> QED BY <1>1, <2>1, <2>2, <2>4
<1>3. NoNodeTwice(global')
  BY <1>2 DEF ElementsInvariant, ElementsTyped, NoNodeTwice
<1>4. /\ overlay' \in Seq(Copies) /\ DOMAIN overlay' = DOMAIN overlay
      /\ Len(overlay') = Len(overlay)
      /\ \A k \in DOMAIN overlay :
            /\ overlay'[k].fallback = overlay[k].fallback
            /\ overlay'[k].override = overlay[k].override
            /\ overlay'[k] = IF overlay[k].fallback = global[i].node /\ ~overlay[k].override
                             THEN [overlay[k] EXCEPT !.value = value] ELSE overlay[k]
            /\ overlay[k].fallback = global[i].node /\ ~overlay[k].override =>
                  overlay'[k].value = value
  <2> DEFINE set(c) == [c EXCEPT !.value = value]
             follows(c) == c.fallback = global[i].node /\ ~c.override
  <2>1. \A c \in Copies : /\ set(c) \in Copies /\ set(c).fallback = c.fallback
                          /\ set(c).override = c.override /\ set(c).value = value
    BY DEF Copies
  <2>2. overlay' = [k \in 1 .. Len(overlay) |->
                      IF follows(overlay[k]) THEN set(overlay[k]) ELSE overlay[k]]
    BY <1>1 DEF FollowElement, Indices
  <2> HIDE DEF set, follows
  <2>3. overlay' \in [1 .. Len(overlay) -> Copies]
    BY <1>1, <2>1, <2>2
  <2>4. overlay' \in Seq(Copies) /\ Len(overlay') = Len(overlay)
    BY <1>1, <2>3, FunctionIsSequence
  <2>5. \A k \in DOMAIN overlay :
           /\ overlay[k] \in Copies
           /\ overlay'[k] = IF follows(overlay[k]) THEN set(overlay[k]) ELSE overlay[k]
    BY <1>1, <2>2
  <2>6. DOMAIN overlay' = DOMAIN overlay
    BY <1>1, <2>2
  <2>7. ASSUME NEW k \in DOMAIN overlay
        PROVE  /\ overlay'[k].fallback = overlay[k].fallback
               /\ overlay'[k].override = overlay[k].override
               /\ follows(overlay[k]) => overlay'[k].value = value
    BY <2>1, <2>5
  <2> QED BY <2>4, <2>5, <2>6, <2>7 DEF set, follows
<1>5. CASE overridden
  <2>1. \A k \in DOMAIN overlay : overlay'[k] = overlay[k]
    <3>1. global[i].node # None
      <4>1. global[i] \in Elements
        BY <1>1
      <4> QED BY <4>1, ElementsAssumption DEF Elements
    <3> QED BY <1>4, <1>5, <3>1 DEF ElementsInvariant, IsDetached
  <2>2. overlay' = overlay
    BY <1>1, <1>4, <2>1
  <2> QED BY <1>1, <1>2, <1>3, <1>5, <2>2, OverriddenStays
<1>6. CASE ~overridden
  <2>1. Len(overlay) = Len(global) /\ \A k \in DOMAIN global : CopyOf(overlay[k], global[k])
    BY <1>6 DEF ElementsInvariant, Mirrors
  <2>2. \A k \in DOMAIN global : global[k].node = global[i].node => k = i
    BY DEF ElementsInvariant, ElementsTyped, NoNodeTwice
  <2>3. DOMAIN overlay = DOMAIN global
    BY <1>1, <2>1
  <2>4. Mirrors(overlay', global')
    BY <1>2, <1>4, <2>1, <2>2, <2>3 DEF Mirrors, CopyOf
  <2>5. \A k \in DOMAIN overlay : overlay[k].override => overlay'[k] = overlay[k]
    BY <1>4
  <2> QED BY <1>1, <1>2, <1>3, <1>4, <1>6, <2>4, <2>5, MirrorStays
<1> QED BY <1>5, <1>6

LEMMA MutationsDetach ==
    ASSUME ElementsInvariant,
           \/ \E i \in 1 .. Len(overlay) + 1, u \in ElementValues : OverlayInsert(i, u)
           \/ \E i \in Indices(overlay) : OverlayRemove(i)
           \/ \E i, j \in Indices(overlay) : OverlayMove(i, j)
           \/ \E values \in Replacements : OverlaySet(values)
           \/ OverlayInvalid
    PROVE  ElementsInvariant' /\ KeepsEdits
<1>1. overlay \in Seq(Copies) /\ \A u \in ElementValues : Own(u) \in Copies
  BY DEF ElementsInvariant, ElementsTyped, Own, Copies
<1>2. \E list \in Seq(Copies) : Mutate(list)
  <2>1. ASSUME NEW i \in 1 .. Len(overlay) + 1, NEW u \in ElementValues, OverlayInsert(i, u)
        PROVE  \E list \in Seq(Copies) : Mutate(list)
    <3>1. InsertAt(overlay, i, Own(u)) \in Seq(Copies)
      BY <1>1, InsertedAt
    <3> QED BY <2>1, <3>1 DEF OverlayInsert
  <2>2. ASSUME NEW i \in Indices(overlay), OverlayRemove(i)
        PROVE  \E list \in Seq(Copies) : Mutate(list)
    <3>1. i \in 1 .. Len(overlay)
      BY <1>1 DEF Indices
    <3>2. RemoveAt(overlay, i) \in Seq(Copies)
      BY <1>1, <3>1, RemovedAt
    <3> QED BY <2>2, <3>2 DEF OverlayRemove
  <2>3. ASSUME NEW i \in Indices(overlay), NEW j \in Indices(overlay), OverlayMove(i, j)
        PROVE  \E list \in Seq(Copies) : Mutate(list)
    <3>1. i \in 1 .. Len(overlay) /\ j \in 1 .. Len(overlay)
      BY <1>1 DEF Indices
    <3>2. Moved(overlay, i, j) \in Seq(Copies)
      BY <1>1, <3>1, MovedAt
    <3> QED BY <2>3, <3>2 DEF OverlayMove
  <2>4. ASSUME NEW values \in Replacements, OverlaySet(values)
        PROVE  \E list \in Seq(Copies) : Mutate(list)
    <3> DEFINE list == [i \in Indices(values) |-> Own(values[i])]
    <3>1. values = <<>> \/ \E u \in ElementValues : values = <<u>>
      BY DEF Replacements
    <3>2. /\ Len(values) \in Nat /\ Indices(values) = 1 .. Len(values)
          /\ \A i \in 1 .. Len(values) : values[i] \in ElementValues
      BY <3>1 DEF Indices
    <3>3. list \in [1 .. Len(values) -> Copies]
      BY <1>1, <3>2
    <3>4. list \in Seq(Copies)
      BY <3>2, <3>3, FunctionIsSequence
    <3> QED BY <2>4, <3>4 DEF OverlaySet
  <2>5. CASE OverlayInvalid
    BY <1>1, <2>5 DEF OverlayInvalid
  <2> QED BY <2>1, <2>2, <2>3, <2>4, <2>5
<1>3. ElementsInvariant'
  BY <1>2, MutationDetaches
<1>4. KeepsEdits
  BY <1>2 DEF Mutate, KeepsEdits
<1> QED BY <1>3, <1>4

LEMMA ResetMirrors ==
    ASSUME ElementsInvariant, OverlayReset
    PROVE  ElementsInvariant' /\ KeepsEdits
<1>1. /\ overlay' = [i \in DOMAIN global |-> Copy(global[i])]
      /\ overridden' = FALSE /\ global' = global /\ global \in Seq(Elements)
  BY DEF OverlayReset, Indices, ElementsInvariant, ElementsTyped
<1>2. overlay' \in Seq(Copies) /\ Mirrors(overlay', global)
  BY <1>1, CopiesMirror
<1> QED BY <1>1, <1>2 DEF ElementsInvariant, ElementsTyped, KeepsEdits

\* One copy has another value: of its own, or again that of its element.
LEMMA CopyChanges ==
    ASSUME ElementsInvariant, NEW i \in DOMAIN overlay, NEW value \in ElementValues,
           NEW override \in BOOLEAN,
           overlay' = [overlay EXCEPT ![i].value = value, ![i].override = override],
           override \/ overlay[i].fallback = None \/ value = global[i].value,
           UNCHANGED <<global, overridden>>
    PROVE  ElementsInvariant' /\ KeepsEdits
<1> DEFINE c == [overlay[i] EXCEPT !.value = value, !.override = override]
<1>1. overlay \in Seq(Copies) /\ overlay[i] \in Copies
  BY DEF ElementsInvariant, ElementsTyped
<1>2. /\ c \in Copies /\ c.fallback = overlay[i].fallback
      /\ c.value = value /\ c.override = override
  BY <1>1 DEF Copies
<1>3. overlay' = [overlay EXCEPT ![i] = c]
  BY <1>1
<1> HIDE DEF c
<1>4. /\ overlay' \in Seq(Copies) /\ Len(overlay') = Len(overlay)
      /\ DOMAIN overlay' = DOMAIN overlay
      /\ \A k \in DOMAIN overlay : overlay'[k] = IF k = i THEN c ELSE overlay[k]
  <2>1. DOMAIN overlay = 1 .. Len(overlay) /\ Len(overlay) \in Nat
        /\ \A k \in 1 .. Len(overlay) : overlay[k] \in Copies
    BY <1>1
  <2> DEFINE f == [k \in 1 .. Len(overlay) |-> IF k = i THEN c ELSE overlay[k]]
  <2>2. overlay' = f
    BY <1>3, <2>1
  <2>3. f \in [1 .. Len(overlay) -> Copies]
    BY <1>2, <2>1
  <2>4. DOMAIN f = DOMAIN overlay /\ \A k \in DOMAIN overlay : f[k] = IF k = i THEN c ELSE overlay[k]
    BY <2>1
  <2> HIDE DEF f
  <2>5. f \in Seq(Copies) /\ Len(f) = Len(overlay)
    BY <2>1, <2>3, FunctionIsSequence
  <2> QED BY <2>2, <2>4, <2>5
<1>5. CASE overridden
  BY <1>2, <1>4, <1>5 DEF ElementsInvariant, ElementsTyped, IsDetached, KeepsEdits
<1>6. CASE ~overridden
  <2>1. /\ Len(overlay) = Len(global) /\ global \in Seq(Elements) /\ i \in DOMAIN global
        /\ \A k \in DOMAIN global : k \in DOMAIN overlay /\ CopyOf(overlay[k], global[k])
    BY <1>1, <1>6 DEF ElementsInvariant, ElementsTyped, Mirrors
  <2>2. c.override \/ c.value = global[i].value
    <3>1. overlay[i].fallback # None
      <4>1. overlay[i].fallback = global[i].node /\ global[i] \in Elements
        BY <2>1 DEF CopyOf
      <4> QED BY <4>1, ElementsAssumption DEF Elements
    <3> QED BY <1>2, <3>1
  <2>3. \A k \in DOMAIN global : CopyOf(overlay'[k], global[k])
    BY <1>2, <1>4, <2>1, <2>2 DEF CopyOf
  <2> QED BY <1>4, <1>6, <2>1, <2>3 DEF ElementsInvariant, ElementsTyped, Mirrors, KeepsEdits
<1> QED BY <1>5, <1>6

LEMMA EditOverrides ==
    ASSUME ElementsInvariant, NEW i \in Indices(overlay), NEW value \in ElementValues,
           OverlayEdit(i, value)
    PROVE  ElementsInvariant' /\ KeepsEdits
BY CopyChanges DEF OverlayEdit, Indices

LEMMA EditIsReset ==
    ASSUME ElementsInvariant, NEW i \in Indices(overlay), OverlayEditReset(i)
    PROVE  ElementsInvariant' /\ KeepsEdits
<1> DEFINE other == CHOOSE j \in Indices(global) : global[j].node = overlay[i].fallback
           value == IF overlay[i].fallback = None THEN ElementDefault ELSE global[other].value
<1>1. /\ overlay' = [overlay EXCEPT ![i].value = value, ![i].override = FALSE]
      /\ UNCHANGED <<global, overridden>> /\ i \in DOMAIN overlay
  BY DEF OverlayEditReset, Indices
<1>2. /\ value \in ElementValues
      /\ overlay[i].fallback = None \/ value = global[i].value
  <2>1. CASE overlay[i].fallback = None
    BY <2>1, ElementsAssumption
  <2>2. CASE overlay[i].fallback # None
    <3>1. i \in DOMAIN global /\ global[i].node = overlay[i].fallback
      <4>1. ~overridden
        BY <1>1, <2>2 DEF ElementsInvariant, IsDetached
      <4>2. DOMAIN overlay = DOMAIN global
        BY <4>1 DEF ElementsInvariant, ElementsTyped, Mirrors
      <4> QED BY <1>1, <4>1, <4>2 DEF ElementsInvariant, Mirrors, CopyOf
    <3>2. other \in DOMAIN global /\ global[other].node = overlay[i].fallback
      BY <3>1 DEF Indices
    <3>3. other = i
      BY <3>1, <3>2 DEF ElementsInvariant, ElementsTyped, NoNodeTwice
    <3>4. global[i] \in Elements
      BY <3>1 DEF ElementsInvariant, ElementsTyped
    <3> QED BY <2>2, <3>3, <3>4 DEF Elements
  <2> QED BY <2>1, <2>2
<1> HIDE DEF value
<1> QED BY <1>1, <1>2, CopyChanges

LEMMA ElementsStart == ElementsInit => ElementsInvariant
<1> SUFFICES ASSUME ElementsInit PROVE ElementsInvariant
  OBVIOUS
<1>1. PICK nodes \in [1 .. 2 -> Nodes] :
         /\ IsInjective(nodes)
         /\ global = [i \in 1 .. 2 |-> [node |-> nodes[i], value |-> ElementDefault]]
  BY DEF ElementsInit
<1>2. overlay = [i \in 1 .. 2 |-> Copy(global[i])] /\ overridden = FALSE
  BY DEF ElementsInit
<1>3. \A i \in 1 .. 2 : [node |-> nodes[i], value |-> ElementDefault] \in Elements
  BY ElementsAssumption DEF Elements
<1>4. global \in [1 .. 2 -> Elements] /\ DOMAIN global = 1 .. 2
  BY <1>1, <1>3
<1>5. global \in Seq(Elements)
  BY <1>4, FunctionIsSequence
<1>6. NoNodeTwice(global)
  BY <1>1 DEF NoNodeTwice, IsInjective
<1>7. overlay = [i \in DOMAIN global |-> Copy(global[i])]
  BY <1>2, <1>4
<1>8. overlay \in Seq(Copies) /\ Mirrors(overlay, global)
  BY <1>5, <1>7, CopiesMirror
<1> QED BY <1>2, <1>5, <1>6, <1>8 DEF ElementsInvariant, ElementsTyped

LEMMA ElementsStep ==
    ElementsInvariant /\ [ElementsNext]_elementVars =>
        ElementsInvariant' /\ [KeepsEdits]_elementVars
<1> SUFFICES ASSUME ElementsInvariant, [ElementsNext]_elementVars
             PROVE  ElementsInvariant' /\ [KeepsEdits]_elementVars
  OBVIOUS
<1>1. ASSUME NEW i \in 1 .. Len(global) + 1, NEW u \in ElementValues, GlobalInsert(i, u)
      PROVE  ElementsInvariant' /\ KeepsEdits
  BY <1>1, InsertionIsFollowed
<1>2. ASSUME NEW i \in Indices(global), GlobalRemove(i)
      PROVE  ElementsInvariant' /\ KeepsEdits
  BY <1>2, RemovalIsFollowed DEF Indices
<1>3. ASSUME NEW i \in Indices(global), NEW j \in Indices(global), GlobalMove(i, j)
      PROVE  ElementsInvariant' /\ KeepsEdits
  BY <1>3, MoveIsFollowed DEF Indices
<1>4. ASSUME NEW values \in Replacements, GlobalSet(values)
      PROVE  ElementsInvariant' /\ KeepsEdits
  BY <1>4, ReplacementIsFollowed
<1>5. ASSUME NEW i \in Indices(global), NEW u \in ElementValues, GlobalEdit(i, u)
      PROVE  ElementsInvariant' /\ KeepsEdits
  BY <1>5, EditIsFollowed DEF Indices
<1>6. CASE OverlayReset
  BY <1>6, ResetMirrors
<1>7. ASSUME NEW i \in Indices(overlay), NEW u \in ElementValues, OverlayEdit(i, u)
      PROVE  ElementsInvariant' /\ KeepsEdits
  BY <1>7, EditOverrides
<1>8. ASSUME NEW i \in Indices(overlay), OverlayEditReset(i)
      PROVE  ElementsInvariant' /\ KeepsEdits
  BY <1>8, EditIsReset
<1>9. CASE UNCHANGED elementVars
  BY <1>9 DEF elementVars, ElementsInvariant, ElementsTyped
<1> QED BY <1>1, <1>2, <1>3, <1>4, <1>5, <1>6, <1>7, <1>8, <1>9, MutationsDetach
        DEF ElementsNext

LEMMA ElementsSuffice == ElementsInvariant => SettingsAreShared
<1> SUFFICES ASSUME ElementsInvariant PROVE SettingsAreShared
  OBVIOUS
<1>1. ElementsTypeOK
  BY DEF ElementsInvariant, ElementsTyped, ElementsTypeOK, Elements, Copies, Indices, NoNodeTwice
<1>2. OverlayMirrorsGlobal
  BY DEF ElementsInvariant, ElementsTyped, OverlayMirrorsGlobal, Mirrors, CopyOf, Indices
<1>3. ASSUME NEW i \in DOMAIN overlay, NEW j \in DOMAIN global,
             overlay[i].fallback = global[j].node, ~overlay[i].override
      PROVE  overlay[i].value = global[j].value
  <2>1. ~overridden
    <3>1. global[j] \in Elements
      BY DEF ElementsInvariant, ElementsTyped
    <3>2. global[j].node # None
      BY <3>1, ElementsAssumption DEF Elements
    <3> QED BY <1>3, <3>2 DEF ElementsInvariant, IsDetached
  <2>2. i \in DOMAIN global /\ CopyOf(overlay[i], global[i])
    BY <2>1 DEF ElementsInvariant, ElementsTyped, Mirrors
  <2>3. i = j
    BY <1>3, <2>2 DEF ElementsInvariant, ElementsTyped, NoNodeTwice, CopyOf
  <2> QED BY <1>3, <2>2, <2>3 DEF CopyOf
<1>4. FallbacksAreLive
  <2>1. CASE overridden
    BY <2>1 DEF ElementsInvariant, IsDetached, FallbacksAreLive, Indices
  <2>2. CASE ~overridden
    <3>1. \A i \in DOMAIN overlay : i \in DOMAIN global /\ overlay[i].fallback = global[i].node
      BY <2>2 DEF ElementsInvariant, ElementsTyped, Mirrors, CopyOf
    <3> QED BY <2>2, <3>1 DEF FallbacksAreLive, Indices
  <2> QED BY <2>1, <2>2
<1> QED BY <1>1, <1>2, <1>3, <1>4 DEF SettingsAreShared, CopiesFollow, Indices

\* Whatever is inserted, removed, moved, replaced or edited in a list of any
\* length and in an overlay of it: until the overlay overrides the list it has
\* its elements in its order, with their values where the screen edited none,
\* and nothing falls back to an element that is gone (onFallbackListNotify).
THEOREM ListsStayShared == ElementsSpec => []SettingsAreShared
BY ElementsStart, ElementsStep, ElementsSuffice, PTL DEF ElementsSpec

\* What a screen edited in an element is lost only with the element.
THEOREM EditsStayWithTheirElement == ElementsSpec => EditsFollowTheirElement
BY ElementsStart, ElementsStep, PTL DEF ElementsSpec, EditsFollowTheirElement
=============================================================================
