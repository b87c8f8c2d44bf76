------------------------------ MODULE Toasts ------------------------------
(* The clock of a window's animations and the notifications that live by it:  *)
(* Timeline (animations, timers, calls put off to the end of a tick), a value *)
(* that springs to its target (Animatable), and ToastHost with its ToastViews, *)
(* which take themselves out of the tree when they have faded.                 *)
EXTENDS Integers, SequencesExt, FiniteSetsExt

CONSTANTS
    MaxToasts,     \* bound: toasts shown
    MaxVisible,    \* ToastHost::kMaxVisible
    Duration       \* of a toast; 0 is one that stays

Toasts == 1..MaxToasts
MinRemaining == 1    \* kMinRemainingSec

VARIABLE d    \* the host, its toasts and their timeline

Init == d = [kids |-> <<>>,                                  \* children, oldest first
             life |-> [t \in Toasts |-> "none"],             \* then "shown", "leaving", "gone"
             lasts |-> [t \in Toasts |-> 0],                 \* spec_.durationSec
             armed |-> [t \in Toasts |-> FALSE],             \* timer_
             remaining |-> [t \in Toasts |-> 0],
             anim |-> [t \in Toasts |-> "none"],             \* opacity_: "in", "out" calls back
             timers |-> {}, deferred |-> <<>>,
             reduced |-> FALSE, paused |-> FALSE, hover |-> 0,
             stray |-> FALSE]                                \* a call into a toast that is gone

-----------------------------------------------------------------------------
(* Timeline and Animatable.                                                   *)

(* A timer of a toast, and the time left to it.                               *)
Cancelled(s, t) ==
    [s EXCEPT !.timers = {x \in @ : ~s.armed[t] \/ x.toast # t}, !.armed[t] = FALSE]
Armed(s, t, time) ==
    IF time = 0 \/ s.life[t] = "leaving" THEN s
    ELSE [Cancelled(s, t) EXCEPT !.timers = @ \union {[toast |-> t, left |-> time]}, !.armed[t] = TRUE]

LeftOf(s, t) == (CHOOSE x \in s.timers : x.toast = t).left

(* ToastHost::remove: the view's destructor takes its timer and its           *)
(* animations with it.                                                        *)
Removed(s, t) ==
    [Cancelled(s, t) EXCEPT !.kids = SelectSeq(@, LAMBDA k : k # t), !.life[t] = "gone",
              !.lasts[t] = 0, !.remaining[t] = 0, !.hover = IF @ = t THEN 0 ELSE @,
              !.anim[t] = "none"]

(* animateTo: a spring of the timeline, but a jump and the call at once when  *)
(* the user wants no motion.                                                  *)
AnimateTo(s, t, target) ==
    IF ~s.reduced THEN [s EXCEPT !.anim[t] = target]
    ELSE IF target = "out" THEN Removed(s, t) ELSE [s EXCEPT !.anim[t] = "none"]

-----------------------------------------------------------------------------
(* ToastView.                                                                 *)

Dismissed(s, t) ==
    IF s.life[t] # "shown" THEN s
    ELSE AnimateTo([Cancelled(s, t) EXCEPT !.life[t] = "leaving"], t, "out")

Presented(s, t) == Armed(AnimateTo(s, t, "in"), t, s.lasts[t])

(* The pointer stops the time of the toast it is on.                          *)
Entered(s, t) ==
    IF ~s.armed[t] THEN [s EXCEPT !.hover = t]
    ELSE [Cancelled(s, t) EXCEPT !.hover = t, !.remaining[t] = Max({MinRemaining, LeftOf(s, t)})]

BugLeft(s, t) == IF s.life[t] = "leaving" \/ s.lasts[t] = 0 THEN [s EXCEPT !.hover = 0]
                 ELSE Armed([s EXCEPT !.hover = 0], t, s.remaining[t] - 1)
Left(s, t) ==
    IF s.life[t] = "leaving" \/ s.lasts[t] = 0 THEN [s EXCEPT !.hover = 0]
    ELSE Armed([s EXCEPT !.hover = 0], t, IF s.remaining[t] > 0 THEN s.remaining[t] ELSE s.lasts[t])

-----------------------------------------------------------------------------
(* ToastHost.                                                                 *)

Shown(s) == SelectSeq(s.kids, LAMBDA t : s.life[t] = "shown")

(* The oldest goes when there is no room for one more.  The loop that looks   *)
(* for it goes over the children themselves, and may take one out of them; it *)
(* is left with the first, as ToastsGo leaves it no second one to find.       *)
Showing(s, lasts) ==
    LET t == Min({x \in Toasts : s.life[x] = "none"})
        r == IF Len(Shown(s)) < MaxVisible THEN s ELSE Dismissed(s, Head(Shown(s)))
    IN Presented([r EXCEPT !.kids = Append(@, t), !.life[t] = "shown", !.lasts[t] = lasts], t)

MoreToShow == \E t \in Toasts : d.life[t] = "none"
Show(lasts) == MoreToShow /\ d' = Showing(d, lasts)

(* Escape dismisses the newest, the close button its own.                     *)
DismissTop == Shown(d) # <<>> /\ d' = Dismissed(d, Last(Shown(d)))
Click(t) == d.life[t] = "shown" /\ d' = Dismissed(d, t)

(* The action runs its handler first, the move to the bin, which shows a toast *)
(* of its own, and then dismisses the toast it stands on, which may be gone.  *)
Acts(t, lasts) ==
    /\ d.life[t] = "shown" /\ MoreToShow
    /\ LET s == Showing(d, lasts)
       IN d' = IF s.life[t] = "gone" THEN [s EXCEPT !.stray = TRUE] ELSE Dismissed(s, t)

PointerTo(t) ==
    /\ t # d.hover /\ t \in ToSet(d.kids) \union {0}
    /\ LET s == IF d.hover = 0 THEN d ELSE Left(d, d.hover)
       IN d' = IF t = 0 THEN s ELSE Entered(s, t)

-----------------------------------------------------------------------------
(* Timeline::tick: every animation is sampled, and one that has come to rest  *)
(* puts its call off; then the timers that are due; then what was put off.    *)
Sampled(s, rested) ==
    LET Sample(x, t) == [x EXCEPT !.anim[t] = "none",
                                  !.deferred = IF x.anim[t] = "out" THEN Append(@, t) ELSE @]
    IN FoldLeft(Sample, s, SelectSeq(s.kids, LAMBDA t : t \in rested))
Fired(s, x) ==
    Dismissed([s EXCEPT !.timers = @ \ {x}, !.armed[x.toast] = FALSE], x.toast)
Settled(s) == [FoldLeft(Removed, s, s.deferred) EXCEPT !.deferred = <<>>]

Tick(rested) ==
    /\ ~d.paused /\ rested \subseteq {t \in Toasts : d.anim[t] # "none"}
    /\ LET s == Sampled(d, rested)
       IN d' = Settled(FoldSet(LAMBDA x, acc : Fired(acc, x), s, {x \in s.timers : x.left = 0}))
    /\ d' # d

(* Time stands still while the window is hidden.                              *)
Elapses ==
    /\ ~d.paused /\ \E x \in d.timers : x.left > 0
    /\ d' = [d EXCEPT !.timers = {[x EXCEPT !.left = Max({0, @ - 1})] : x \in d.timers}]
Pauses == d' = [d EXCEPT !.paused = ~@]
MotionChanges == d' = [d EXCEPT !.reduced = ~@]

(* What happens after a call into a toast that is gone is not modelled.       *)
Next ==
    /\ ~d.stray
    /\ \/ \E lasts \in {0, Duration} : Show(lasts)
       \/ DismissTop
       \/ \E t \in Toasts : Click(t)
       \/ \E t \in Toasts, lasts \in {0, Duration} : Acts(t, lasts)
       \/ \E t \in Toasts \union {0} : PointerTo(t)
       \/ \E rested \in SUBSET Toasts : Tick(rested)
       \/ Elapses \/ Pauses \/ MotionChanges

Spec == Init /\ [][Next]_d

-----------------------------------------------------------------------------
(* A toast that is to go by itself has a running timer unless the pointer is  *)
(* on it, one that was dismissed is on its way out, and never more than three *)
(* are there to be read (Toast.cpp:212-226, 362-437, 451-477).                *)
ToastsGo ==
    /\ \A t \in Toasts :
         /\ d.life[t] = "shown" /\ d.lasts[t] > 0 /\ d.hover # t =>
               \E x \in d.timers : x.toast = t /\ x.left <= d.lasts[t]
         /\ d.life[t] = "leaving" => d.anim[t] = "out"
    /\ Len(Shown(d)) <= MaxVisible

(* No timer and no animation calls back into a view that was destroyed,       *)
(* whether toasts fade or go at once (Toast.cpp:183-185, Timeline.cpp:138-217, *)
(* Animatable.cpp:51-58, 106-160).  The handler of an action does return to a *)
(* view that is gone (159-165), but only where the user wants no motion and   *)
(* the list was full.                                                         *)
CallbacksAreLive ==
    /\ d.stray => d.reduced /\ Len(Shown(d)) = MaxVisible
    /\ \A x \in d.timers : x.toast \in ToSet(d.kids) /\ d.armed[x.toast]
    /\ \A t \in Toasts : d.anim[t] # "none" => t \in ToSet(d.kids)
=============================================================================
