------------------------------- MODULE Scroll -------------------------------
(* A ScrollView: an offset that the wheel, the touchpad, the thumb and the    *)
(* program move by springs, by hand or by inertia, in a range that changes    *)
(* with the content under it; and the bar that fades after a while.  Offsets  *)
(* are in steps; what a spring or a gesture passes on its way is any of them. *)
EXTENDS Integers

CONSTANTS
    MaxRange,    \* bound: the largest maxOffset_
    Page         \* frame_.h: how far a gesture may pull beyond an end
ASSUME ScrollAssumption == MaxRange \in Nat /\ Page \in Nat

VARIABLE scroll    \* the view

ScrollInit ==
    scroll = [max |-> 0,                              \* maxOffset_
              off |-> 0, to |-> 0, anim |-> FALSE,    \* offset_: value, target, animating
              velocity |-> 0,                         \* its sign
              inertia |-> FALSE, over |-> FALSE,      \* overscrolling_
              since |-> "long",                       \* lastPreciseAt_: less than 80 ms ago is
                                                      \* "live", less than 500 ms "latched"
              ticks |-> FALSE,                        \* the view asks for frames
              drag |-> FALSE,                         \* draggingThumb_
              bar |-> "hidden",                       \* barOpacity_'s target: then "full", "rest"
              timer |-> FALSE, hover |-> FALSE,       \* barTimer_, barHover_
              reduced |-> FALSE,                      \* the timeline's reduced motion
              pulled |-> FALSE]                       \* ghost: it was let go out of range, the
                                                      \* thumb or the fingers at no speed

Clamp(v, lo, hi) == IF v < lo THEN lo ELSE IF v > hi THEN hi ELSE v
InRange(v) == v.off \in 0 .. v.max

(* Animatable: set; and animateTo, which jumps when motion is reduced.        *)
At(v, o) == [v EXCEPT !.off = o, !.to = o, !.anim = FALSE]
To(v, o) == IF v.reduced THEN At(v, o) ELSE [v EXCEPT !.to = o, !.anim = TRUE]
Calm(v) == [v EXCEPT !.inertia = FALSE, !.over = FALSE, !.velocity = 0]
ShowBar(v) == [v EXCEPT !.bar = "full", !.timer = TRUE]

(* Back into the range, unless a drag or inertia is at work: a spring is sent *)
(* elsewhere when its end is out of range, a view that stands out of range    *)
(* springs to the edge, and has settled when it is there.                     *)
Settling(v, o) == [To(v, o) EXCEPT !.over = ~v.reduced]
BugClampAndSettle(v) ==
    IF v.drag \/ v.inertia \/ v.anim THEN v
    ELSE IF InRange(v) THEN [v EXCEPT !.over = FALSE] ELSE Settling(v, Clamp(v.off, 0, v.max))
ClampAndSettle(v) ==
    CASE v.drag \/ v.inertia -> v
      [] ~(v.drag \/ v.inertia) /\ v.anim ->
            IF v.to \in 0 .. v.max THEN v
            ELSE [To(v, Clamp(v.to, 0, v.max)) EXCEPT !.over = v.over /\ ~v.reduced]
      [] OTHER -> IF InRange(v) THEN [v EXCEPT !.over = FALSE]
                  ELSE Settling(v, Clamp(v.off, 0, v.max))

-----------------------------------------------------------------------------
(* The program.                                                               *)

(* Content that has become scrollable shows the bar, one that fits hides it.  *)
Layout(m) ==
    LET v == ClampAndSettle([scroll EXCEPT !.max = m, !.pulled = FALSE])
    IN scroll' = CASE m > 0 /\ scroll.max = 0 -> ShowBar(v)
                   [] m = 0 /\ scroll.max > 0 -> [v EXCEPT !.bar = "hidden"]
                   [] OTHER -> v

ScrolledTo(v, y, animated) ==
    LET o == Clamp(y, 0, v.max)
        w == [Calm(v) EXCEPT !.pulled = FALSE]
    IN ShowBar(IF animated THEN To(w, o) ELSE At(w, o))
ScrollTo(y, animated) == scroll' = ScrolledTo(scroll, y, animated)

(* scrollBy starts from where a spring ends, so that calls add up; into view  *)
(* nothing moves when the widget is there already.                            *)
Heads(v) == IF v.anim THEN v.to ELSE v.off
ScrollBy(dy, animated) == scroll' = ScrolledTo(scroll, Heads(scroll) + dy, animated)
ScrollIntoView(y) ==
    /\ y # (IF scroll.anim THEN scroll.to ELSE Clamp(scroll.off, 0, scroll.max))
    /\ scroll' = ScrolledTo(scroll, y, TRUE)
SetContent == scroll' = [At(Calm(scroll), 0) EXCEPT !.pulled = FALSE]

-----------------------------------------------------------------------------
(* The wheel: a view that fits and stands still leaves it to its parent; a    *)
(* notch springs on, a precise delta moves the content at once and the speed  *)
(* of the fingers is kept, smoothed; soon after it every delta is precise.    *)
TakesWheel == scroll.max > 0 \/ scroll.over \/ scroll.off # 0

Notch(by) ==
    /\ TakesWheel /\ scroll.since = "long"
    /\ LET v == scroll
           base == IF v.anim THEN v.to ELSE Clamp(v.off, 0, v.max)
       IN scroll' = ShowBar([To(Calm(v), Clamp(base + by, 0, v.max)) EXCEPT !.pulled = FALSE])

(* The smoothed speed may come to nothing between two ways.                   *)
Precise(by, speed) ==
    /\ TakesWheel /\ speed \in {by, scroll.velocity, 0}
    /\ LET v == scroll
           o == Clamp(v.off + by, -Page, v.max + Page)
       IN scroll' = ShowBar([At(v, o) EXCEPT
                               !.velocity = speed, !.inertia = FALSE, !.over = FALSE,
                               !.since = "live", !.ticks = TRUE,
                               !.pulled = speed = 0 /\ o \notin 0 .. v.max])
TimePasses ==
    /\ scroll.since # "long"
    /\ scroll' = [scroll EXCEPT !.since = IF @ = "live" THEN "latched" ELSE "long"]

(* The thumb, which is there while there is something to scroll.              *)
Grab ==
    /\ scroll.max > 0 /\ ~scroll.drag
    /\ scroll' = ShowBar([At(Calm(scroll), Clamp(scroll.off, 0, scroll.max)) EXCEPT
                            !.drag = TRUE, !.pulled = FALSE])
Drag(o) ==
    /\ scroll.drag /\ o \in 0 .. scroll.max
    /\ scroll' = ShowBar([At(scroll, o) EXCEPT !.pulled = FALSE])
TrackClick(o) == /\ scroll.max > 0 /\ ~scroll.drag /\ o \in 0 .. scroll.max
                 /\ scroll' = ScrolledTo(scroll, o, TRUE)
Release ==
    /\ scroll.drag
    /\ scroll' = ShowBar([scroll EXCEPT !.drag = FALSE,
                                        !.pulled = ~InRange(scroll) \/ scroll.to > scroll.max])

(* The pointer over the bar's zone, off it, and off the view.                 *)
MouseMove(over) ==
    /\ ~scroll.drag /\ over # scroll.hover /\ (over => scroll.max > 0)
    /\ scroll' = IF over THEN ShowBar([scroll EXCEPT !.hover = TRUE])
                 ELSE [scroll EXCEPT !.hover = FALSE]
MouseLeave ==
    /\ scroll.hover
    /\ scroll' = IF scroll.bar # "hidden" THEN ShowBar([scroll EXCEPT !.hover = FALSE])
                 ELSE [scroll EXCEPT !.hover = FALSE]
BarTimer ==
    /\ scroll.timer
    /\ scroll' = [scroll EXCEPT !.timer = FALSE,
                     !.bar = IF scroll.hover \/ scroll.drag THEN @
                             ELSE IF scroll.max > 0 THEN "rest" ELSE "hidden"]

-----------------------------------------------------------------------------
(* A sample of the spring, which may pass its end before it comes to rest.    *)
Spring(o) ==
    /\ scroll.anim
    /\ scroll' = [scroll EXCEPT !.off = o]
SpringEnds ==
    /\ scroll.anim
    /\ scroll' = [At(scroll, scroll.to) EXCEPT !.over = FALSE]
MotionChanges == scroll' = [scroll EXCEPT !.reduced = ~@]

(* onFrame: when the fingers have gone the speed becomes inertia, or nothing, *)
(* and the view settles; inertia moves on and dies down; the ticks end when   *)
(* nothing moves and the bar (fading) does not.                               *)
HandedOver(v, fast) ==
    CASE v.since = "live" \/ v.inertia \/ v.velocity = 0 -> v
      [] ~(v.since = "live" \/ v.inertia \/ v.velocity = 0) /\ fast /\ ~v.drag ->
            [v EXCEPT !.inertia = TRUE]
      [] OTHER -> ClampAndSettle([v EXCEPT !.velocity = 0])
Coasted(v, moves, dies) ==
    IF ~v.inertia THEN v
    ELSE LET w == At(v, Clamp(v.off + (IF moves THEN v.velocity ELSE 0), -Page, v.max + Page))
         IN IF dies THEN ClampAndSettle([w EXCEPT !.velocity = 0, !.inertia = FALSE]) ELSE w
Frame(fast, moves, dies, fading) ==
    /\ scroll.ticks
    /\ LET v == Coasted(HandedOver(scroll, fast), moves, dies)
       IN scroll' = [v EXCEPT !.ticks = v.since = "live" \/ v.inertia \/ v.drag \/ v.over
                                        \/ v.anim \/ fading]

Steps == -1 .. 1
Input ==
    \/ \E by \in Steps \ {0} : Notch(by) \/ \E speed \in Steps : Precise(by, speed)
    \/ TimePasses
    \/ Grab \/ Release \/ \E o \in 0 .. MaxRange : Drag(o) \/ TrackClick(o)
    \/ \E over \in BOOLEAN : MouseMove(over)
    \/ MouseLeave
Program ==
    \/ \E m \in 0 .. MaxRange : Layout(m)
    \/ \E y \in 0 .. MaxRange, animated \in BOOLEAN : ScrollTo(y, animated)
    \/ \E dy \in Steps, animated \in BOOLEAN : ScrollBy(dy, animated)
    \/ \E y \in 0 .. MaxRange : ScrollIntoView(y)
    \/ SetContent
Clock ==
    \/ BarTimer \/ SpringEnds \/ MotionChanges
    \/ \E o \in -Page .. (MaxRange + Page) : Spring(o)
    \/ \E fast, moves, dies, fading \in BOOLEAN : Frame(fast, moves, dies, fading)
ScrollNext == Input \/ Program \/ Clock

ScrollSpec == ScrollInit /\ [][ScrollNext]_scroll

-----------------------------------------------------------------------------
(* A view that nothing moves any more shows its content: whatever gesture,    *)
(* spring and change of the content met, it comes to rest inside its range;   *)
(* but a thumb let go where the content has been, or fingers that leave when  *)
(* their smoothed speed is exactly nothing (621), leave it out there until    *)
(* the next input or layout (ScrollView.cpp:542-550, 612-661, 746-779).       *)
ScrollRests ==
    (~scroll.anim /\ ~scroll.drag /\ ~scroll.ticks /\ ~scroll.pulled) => InRange(scroll)
=============================================================================
