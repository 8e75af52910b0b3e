------------------------------ MODULE Toaster ------------------------------
(***************************************************************************)
(* Toasts (Toaster, Toast) and the wrappers that show them on each screen  *)
(* (Toasts.qml).  A toast that closes, by its timer or a click, stays in   *)
(* the list while a wrapper has it locked; a wrapper unlocks it when its   *)
(* animation is over or when it is destroyed.  A screen has wrappers for   *)
(* one open toast more than it has room for, and, over a fullscreen        *)
(* window, for all, for important ones or for none, as the settings say.   *)
(***************************************************************************)
EXTENDS Integers, SequencesExt

CONSTANTS
    Toasts,      \* toasts ever made
    Important,   \* warnings and errors
    ToastScreens,    \* where they are shown
    MaxToasts,   \* utilities.maxToasts
    ScreenModes  \* what a screen may show: all, the important ones, none

ASSUME ToasterAssumption ==
    /\ Important \subseteq Toasts /\ MaxToasts \in Nat \ {0}
    /\ "all" \in ScreenModes /\ ScreenModes \subseteq {"all", "important", "none"}

Wrappers == ToastScreens \X Toasts

VARIABLES
    toasts,      \* m_toasts, newest first
    new,         \* toasts to come
    closed,      \* toasts with m_closed
    timers,      \* toasts whose timer has not fired
    locks,       \* m_locks of each toast: wrappers of it, those gone too
    fullscreen,  \* what each screen shows: all, or, over a fullscreen window,
                 \* what utilities.toasts.fullscreen says
    wrappers,    \* delegates of the repeaters
    leaving,     \* those of them that have been removed and not destroyed
    animated     \* wrappers whose closing animation is over
toasterVars == <<toasts, new, closed, timers, locks, fullscreen, wrappers, leaving, animated>>

\* shouldShowToast
ShouldShow(mode, t) == mode = "all" \/ (mode = "important" /\ t \in Important)

\* ScriptModel.values: up to the first open one there is no room for, which is
\* made and not seen
ModelValues(s, ts, cs, fs) ==
    LET Before(i) == {j \in 1..(i - 1) : ShouldShow(fs[s], ts[j]) /\ ts[j] \notin cs} IN
    {ts[i] : i \in {j \in 1..Len(ts) :
                       ShouldShow(fs[s], ts[j]) /\ Cardinality(Before(j)) <= MaxToasts}}

\* The repeaters follow a change: a wrapper that is made locks its toast, one
\* that is no longer wanted will be destroyed, before another like it is made.
Show(ts, cs, fs, ls, gone) ==
    LET now == UNION {{s} \X ModelValues(s, ts, cs, fs) : s \in ToastScreens} IN
    /\ (now \ wrappers) \cap (leaving \ gone) = {}
    /\ toasts' = ts /\ closed' = cs /\ fullscreen' = fs
    /\ locks' = [t \in Toasts |-> ls[t] \cup {w \in now \ wrappers : w[2] = t}]
    /\ wrappers' = now /\ leaving' = (leaving \ gone) \cup (wrappers \ now)

\* removeOne, if the toast is in the list
Without(t) ==
    IF Contains(toasts, t) THEN RemoveAt(toasts, CHOOSE i \in DOMAIN toasts : toasts[i] = t)
    ELSE toasts

\* It is finished whether or not it is locked.
MutOver(t, cs, ls) == t \in cs

\* Whether Toast::close emits finishedClose
Over(t, cs, ls) == t \in cs /\ ls[t] = {}

\* Toast::close, and the list that loses a toast that is over
Finish(t, cs, ls, gone) ==
    Show(IF Over(t, cs, ls) THEN Without(t) ELSE toasts, cs, fullscreen, ls, gone)

\* An unlocked toast is not closed again.
MutUnlock(w, gone) ==
    Show(toasts, closed, fullscreen, [locks EXCEPT ![w[2]] = @ \ {w}], gone)

\* Toast::unlock
Unlock(w, gone) ==
    LET ls == [locks EXCEPT ![w[2]] = @ \ {w}] IN
    IF w \in locks[w[2]] /\ w[2] \in closed THEN Finish(w[2], closed, ls, gone)
    ELSE Show(toasts, closed, fullscreen, ls, gone)

\* A wrapper that is made has its animation before it.
Remade == animated' = animated \ (wrappers' \ wrappers)

\* ------------------------------------------------------------ actions

\* Toaster::toast
Toast(t) ==
    /\ t \in new /\ new' = new \ {t}
    /\ timers' = timers \cup {t}
    /\ Show(<<t>> \o toasts, closed, fullscreen, locks, {}) /\ Remade

\* Toast::close, by a click on a wrapper that can still be clicked
Click(w) ==
    /\ w \in wrappers
    /\ Finish(w[2], closed \cup {w[2]}, locks, {}) /\ Remade
    /\ UNCHANGED <<new, timers>>

\* QTimer::singleShot; the timer goes with its toast.
Timeout(t) ==
    /\ t \in timers /\ Contains(toasts, t) /\ timers' = timers \ {t}
    /\ Finish(t, closed \cup {t}, locks, {}) /\ Remade
    /\ UNCHANGED new

\* The closing animation of a wrapper ends.
Animated(w) ==
    /\ w \in wrappers \ animated /\ w[2] \in closed
    /\ Unlock(w, {})
    /\ animated' = (animated \cup {w}) \ (wrappers' \ wrappers)
    /\ UNCHANGED <<new, timers>>

\* QObject::destroyed, of a removed wrapper
Destroyed(w) ==
    /\ w \in leaving
    /\ Unlock(w, {w}) /\ Remade
    /\ UNCHANGED <<new, timers>>

\* Some window comes to be fullscreen, or none is any more, or the setting of
\* a screen changes; each screen follows by itself.
ChangeFullscreen(s, mode) ==
    /\ mode # fullscreen[s]
    /\ Show(toasts, closed, [fullscreen EXCEPT ![s] = mode], locks, {}) /\ Remade
    /\ UNCHANGED <<new, timers>>

ToasterInit ==
    /\ toasts = <<>> /\ new = Toasts /\ closed = {} /\ timers = {}
    /\ locks = [t \in Toasts |-> {}] /\ fullscreen = [s \in ToastScreens |-> "all"]
    /\ wrappers = {} /\ leaving = {} /\ animated = {}

Changes == \E s \in ToastScreens, mode \in ScreenModes : ChangeFullscreen(s, mode)

ToasterNext ==
    \/ \E t \in Toasts : Toast(t) \/ Timeout(t)
    \/ \E w \in Wrappers : Click(w) \/ Animated(w) \/ Destroyed(w)
    \/ Changes

ToasterSpec == ToasterInit /\ [][ToasterNext]_toasterVars

\* Timers fire, animations end and what is removed is destroyed.
ToasterFairness ==
    /\ \A t \in Toasts : WF_toasterVars(Timeout(t))
    /\ \A w \in Wrappers : WF_toasterVars(Animated(w)) /\ WF_toasterVars(Destroyed(w))
ToasterFairSpec == ToasterSpec /\ ToasterFairness

\* --------------------------------------------------------- properties

\* A toast is locked by the wrappers that show it and have not finished with
\* it, and by those on their way out, and by nothing else (lock, unlock).
ToasterTypeOK ==
    /\ toasts \in Seq(Toasts \ new) /\ IsInjective(toasts)
    /\ closed \subseteq Toasts /\ timers \subseteq Toasts
    /\ locks \in [Toasts -> SUBSET Wrappers]
    /\ \A t \in ToSet(toasts) :
         /\ locks[t] \subseteq {w \in wrappers \cup leaving : w[2] = t}
         /\ {w \in wrappers \ animated : w[2] = t} \subseteq locks[t]
    /\ wrappers \cap leaving = {}

\* No toast leaves the list, and takes its wrapper with it, before the
\* closing animation is over on every screen that shows it (close,
\* finishedClose).
GoesAnimated ==
    \A w \in wrappers : Contains(toasts, w[2]) /\ ~Contains(toasts', w[2]) => w \in animated'
GoesWhenAnimated == [][GoesAnimated]_toasterVars

\* A toast that has closed is no longer in the list once nothing shows it:
\* the last lock takes it away, whether its holder finished or was destroyed.
NoneLeftOver == \A t \in ToSet(toasts) : t \in closed => locks[t] # {}

\* A toast is locked by what shows it, and goes with its last lock.
ToastsAreRight == ToasterTypeOK /\ NoneLeftOver

\* Every toast goes in the end, those that found no room included.
ToastsGo ==
    <>[][~Changes]_toasterVars => \A t \in Toasts : []<>~Contains(toasts, t)
=============================================================================
