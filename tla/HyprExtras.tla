----------------------------- MODULE HyprExtras -----------------------------
(***************************************************************************)
(* What the shell knows of Hyprland's options and keyboards (HyprExtras,   *)
(* HyprDevices).  Each request has a socket of its own; a refresh closes   *)
(* the one before it.  The compositor answers requests as it stands at     *)
(* that moment, and its events ask for a refresh.  The first data read is  *)
(* taken for the answer, even if it is only a part of it.                  *)
(***************************************************************************)
EXTENDS Integers, Sequences, Functions

CONSTANTS
    Sockets,     \* numbers, bounds the requests in flight
    Keyboards,   \* addresses
    Keymaps,
    Nil,         \* no answer yet, no refresh under way
    MaxTime,     \* bound on changes in the compositor
    MaxEvents    \* bound on its unread events

ASSUME HyprExtrasAssumption ==
    /\ {1, 2} \subseteq Sockets /\ Sockets \subseteq Nat /\ Nil \notin Sockets \cup Keymaps
    /\ MaxTime \in Nat \ {0} /\ MaxEvents \in Nat

RefreshKinds == {"options", "devices"}
KeyboardStates == [main : BOOLEAN, caps : BOOLEAN, keymap : Keymaps]

VARIABLES
    comp,     \* the compositor: time, options (when they changed), keyboards
    changed,  \* how often each keyboard did
    events,   \* on the event socket
    sockets,  \* those open: what each asks for and the answer that has come
    current,  \* m_optionsRefresh, m_devicesRefresh
    options, keyboards,  \* m_options, m_keyboards
    age,      \* time of the answers these are from
    toasts,   \* how often a change of each keyboard was told
    lost      \* refreshes that no answer, or a part of one, came of
hyprVars == <<comp, changed, events, sockets, current, options, keyboards, age, toasts, lost>>
shell == <<current, options, keyboards, age, toasts, lost>>

Free == {s \in Sockets : s \notin DOMAIN sockets}
Drop(ss, s) == Restrict(ss, DOMAIN ss \ {s})
New(ss, kind) ==
    LET s == CHOOSE x \in Sockets : x \notin DOMAIN ss IN
    [x \in DOMAIN ss \cup {s} |-> IF x = s THEN [asks |-> kind, answer |-> Nil] ELSE ss[x]]

\* ------------------------------------------------------- the compositor

\* A change, announced by an event if the compositor has one for it
Change(new, event) ==
    /\ comp.time < MaxTime /\ Len(events) < MaxEvents
    /\ comp' = [new EXCEPT !.time = @ + 1]
    /\ events' = events \o event
    /\ UNCHANGED <<sockets, shell>>

ConfigReloaded ==
    /\ Change([comp EXCEPT !.options = comp.time + 1], <<"configreloaded">>)
    /\ UNCHANGED changed

\* The locks are bound to a refresh; the layout and a new keyboard are events.
KeyboardChanges(k, state) ==
    /\ k \in DOMAIN comp.keyboards => comp.keyboards[k] # state
    /\ Change([comp EXCEPT !.keyboards = [x \in DOMAIN @ \cup {k} |-> IF x = k THEN state ELSE @[x]]],
              <<"activelayout">>)
    /\ changed' = [changed EXCEPT ![k] = @ + 1]

Unplug(k) ==
    /\ k \in DOMAIN comp.keyboards
    /\ Change([comp EXCEPT !.keyboards = Drop(@, k)], <<>>)
    /\ changed' = [changed EXCEPT ![k] = @ + 1]

\* A request is answered; options that are set change then.
Respond(s) ==
    /\ s \in DOMAIN sockets /\ sockets[s].answer = Nil
    /\ comp' = IF sockets[s].asks = "apply" /\ comp.time < MaxTime
               THEN [comp EXCEPT !.time = @ + 1, !.options = comp.time + 1] ELSE comp
    /\ sockets' = [sockets EXCEPT ![s].answer =
                     [time |-> comp'.time, data |-> IF sockets[s].asks = "devices" THEN comp.keyboards
                                                    ELSE comp'.options]]
    /\ UNCHANGED <<changed, events, shell>>

\* ------------------------------------------------------------ requests

\* A refresh leaves the one before it open.
MutRefresh(ss, kind) ==
    /\ \E s \in Sockets : s \notin DOMAIN ss
    /\ sockets' = New(ss, kind)
    /\ current' = [current EXCEPT ![kind] = CHOOSE s \in DOMAIN sockets' : s \notin DOMAIN ss]
    /\ lost' = lost \ {kind}

\* refreshOptions, refreshDevices: the answer to the one before never comes.
StartRefresh(ss, kind) ==
    LET kept == Drop(ss, current[kind]) IN
    /\ \E s \in Sockets : s \notin DOMAIN kept
    /\ sockets' = New(kept, kind)
    /\ current' = [current EXCEPT ![kind] = CHOOSE s \in DOMAIN sockets' : s \notin DOMAIN kept]
    /\ lost' = lost \ {kind}

\* From QML: a key binding, the layout menu, a change of the Lua config.
UserRefresh(kind) ==
    StartRefresh(sockets, kind) /\ UNCHANGED <<comp, changed, events, options, keyboards, age, toasts>>

\* readEvent, handleEvent
ReadEvent ==
    /\ events # <<>> /\ events' = Tail(events)
    /\ StartRefresh(sockets, IF Head(events) = "configreloaded" THEN "options" ELSE "devices")
    /\ UNCHANGED <<comp, changed, options, keyboards, age, toasts>>

\* applyOptions
ApplyOptions ==
    /\ Free # {}
    /\ sockets' = New(sockets, "apply")
    /\ UNCHANGED <<comp, changed, events, shell>>

\* The lock is told of whenever it is on.
MutToasted(old, new) ==
    (IF new.main /\ old.keymap # new.keymap THEN 1 ELSE 0)
    + (IF new.main /\ new.caps THEN 1 ELSE 0)

\* HyprKeyboard::updateLastIpcObject: how many toasts
Toasted(old, new) ==
    (IF new.main /\ old.keymap # new.keymap THEN 1 ELSE 0)
    + (IF new.main /\ old.caps # new.caps THEN 1 ELSE 0)

\* HyprDevices::updateLastIpcObject
ShowKeyboards(new) ==
    /\ keyboards' = new
    /\ toasts' = [k \in Keyboards |->
                    IF k \notin DOMAIN new \cap DOMAIN keyboards THEN toasts[k]
                    ELSE toasts[k] + Toasted(keyboards[k], new[k])]

\* m_optionsRefresh.reset(), m_devicesRefresh.reset()
Done(kind) == current' = [current EXCEPT ![kind] = Nil]

\* readyRead: the whole answer, or what there is of it so far
Answer(s, whole) ==
    /\ s \in DOMAIN sockets /\ sockets[s].answer # Nil
    /\ UNCHANGED <<comp, changed, events>>
    /\ LET kind == sockets[s].asks
           answer == sockets[s].answer IN
       \/ /\ kind = "options"
          /\ sockets' = Drop(sockets, s) /\ Done(kind)
          /\ IF whole
             THEN options' = answer.data /\ age' = [age EXCEPT ![kind] = answer.time] /\ UNCHANGED lost
             ELSE lost' = lost \cup {kind} /\ UNCHANGED <<options, age>>
          /\ UNCHANGED <<keyboards, toasts>>
       \/ /\ kind = "devices"
          /\ sockets' = Drop(sockets, s) /\ Done(kind)
          /\ ShowKeyboards(IF whole THEN answer.data ELSE Restrict(answer.data, {}))
          /\ age' = [age EXCEPT ![kind] = IF whole THEN answer.time ELSE @]
          /\ lost' = IF whole THEN lost ELSE lost \cup {kind}
          /\ UNCHANGED options
       \/ /\ kind = "apply"
          /\ StartRefresh(Drop(sockets, s), "options")
          /\ UNCHANGED <<options, keyboards, age, toasts>>

\* errorOccurred
Fail(s) ==
    /\ s \in DOMAIN sockets
    /\ sockets' = Drop(sockets, s)
    /\ LET kind == sockets[s].asks IN
       IF kind = "apply" THEN lost' = lost \cup {"options"} /\ UNCHANGED current
                         ELSE lost' = lost \cup {kind} /\ Done(kind)
    /\ UNCHANGED <<comp, changed, events, options, keyboards, age, toasts>>

\* The constructor has asked for both.
HyprInit ==
    /\ \E ks \in SUBSET Keyboards : \E st \in [ks -> KeyboardStates] :
         comp = [time |-> 1, options |-> 1, keyboards |-> st]
    /\ changed = [k \in Keyboards |-> 0] /\ events = <<>>
    /\ sockets = [s \in {1, 2} |-> [asks |-> IF s = 1 THEN "options" ELSE "devices", answer |-> Nil]]
    /\ current = [k \in RefreshKinds |-> IF k = "options" THEN 1 ELSE 2]
    /\ options = 0 /\ keyboards = Restrict(comp.keyboards, {})
    /\ age = [k \in RefreshKinds |-> 0] /\ toasts = [k \in Keyboards |-> 0] /\ lost = {}

UserRefreshes == \E kind \in RefreshKinds : UserRefresh(kind)

HyprNext ==
    \/ ConfigReloaded
    \/ \E k \in Keyboards : Unplug(k) \/ \E st \in KeyboardStates : KeyboardChanges(k, st)
    \/ \E s \in Sockets : Respond(s) \/ Fail(s) \/ \E whole \in BOOLEAN : Answer(s, whole)
    \/ UserRefreshes
    \/ ReadEvent
    \/ ApplyOptions

HyprSpec == HyprInit /\ [][HyprNext]_hyprVars

\* The compositor answers, sockets are read, and so are events.
HyprFairness ==
    /\ WF_hyprVars(ReadEvent)
    /\ \A s \in Sockets : WF_hyprVars(Respond(s)) /\ WF_hyprVars(Answer(s, TRUE) \/ Answer(s, FALSE))
HyprFairSpec == HyprSpec /\ HyprFairness

\* --------------------------------------------------------- properties

\* The refresh under way of each kind is an open socket that asks for it.
HyprTypeOK ==
    /\ DOMAIN sockets \subseteq Sockets /\ DOMAIN keyboards \subseteq Keyboards
    /\ \A kind \in RefreshKinds : current[kind] # Nil =>
         current[kind] \in DOMAIN sockets /\ sockets[current[kind]].asks = kind
    /\ options \in 0..MaxTime /\ age \in [RefreshKinds -> 0..MaxTime] /\ lost \subseteq RefreshKinds

\* What is shown never goes back to what the compositor was before: an
\* answer that is overtaken by a newer refresh is not taken (refreshOptions,
\* refreshDevices close it).
NotOlder == \A kind \in RefreshKinds : age'[kind] >= age[kind]
NeverOlder == [][NotOlder]_hyprVars

\* A change of a keyboard is told once: not again because two answers tell
\* of it, because the list was empty for a while or because it stays on
\* (updateLastIpcObject, toastCapsLock).  A change can be of both the layout
\* and the lock.
ToldOnce == \A k \in Keyboards : toasts[k] <= 2 * changed[k]

\* What holds of the shell's view of the compositor at any time, together.
CompositorIsFollowed == HyprTypeOK /\ ToldOnce

\* Unless the answer was lost or only a part of it was read, the options and
\* the keyboards that are shown become those of the compositor, whatever
\* overtakes what: a reload, options being set, keys pressed.
OptionsAreShown == options = comp.options \/ "options" \in lost
KeyboardsAreShown ==
    \/ "devices" \in lost
    \/ \A k \in DOMAIN comp.keyboards : k \in DOMAIN keyboards /\ keyboards[k] = comp.keyboards[k]
Asks == UserRefreshes \/ ApplyOptions
ComesToBeShown == <>[][~Asks]_hyprVars => <>[](OptionsAreShown /\ KeyboardsAreShown)
=============================================================================
