------------------------------- MODULE Ui --------------------------------
(* The widget toolkit of one window: Widget's tree with its flags, RootView's *)
(* pointers into it (hovered, captured, pressed, focused, tooltip, tickers),  *)
(* and WindowHost's messages.  The engine, a timer or a handler may take any  *)
(* widget out of the tree, hide it or disable it while it is pointed at.      *)
EXTENDS Naturals, FiniteSets

(* Two screens, one at a time: a queue with a card and its button, and        *)
(* settings with a text field.  Nothing of it is at the spot "out".           *)
Widgets == {"queue", "card", "button", "settings", "field"}
Parent == [w \in Widgets |-> CASE w = "button" -> "card" [] w = "card" -> "queue"
                               [] w = "field" -> "settings" [] OTHER -> "root"]
Interactive == {"card", "button", "field"}
Focusable == {"button", "field"}
Over == [on |-> Widgets, by |-> Widgets \ {"button", "field"}, out |-> {}]

VARIABLE u    \* the tree and the root's pointers

Init == u = [here |-> Widgets, shown |-> Widgets \ {"settings"}, able |-> Widgets,
             hov |-> {}, prs |-> {}, wants |-> {},        \* flags kept by the widgets
             hovered |-> "none", captured |-> "none", pressed |-> "none",
             focused |-> "none", tip |-> "none", tickers |-> {},
             tipShown |-> FALSE, inside |-> FALSE, spot |-> "out",
             os |-> FALSE,                                \* the window holds the capture
             active |-> TRUE, popup |-> FALSE]

(* The widget and its ancestors below the root; and its subtree.             *)
Ancestors == [w \in Widgets \cup {"none"} |->
                {a \in Widgets : \/ a = w
                                 \/ w # "none" /\ a = Parent[w]
                                 \/ w = "button" /\ a = "queue"}]
Subtree == [w \in Widgets |-> {x \in Widgets : w \in Ancestors[x]}]
Up(w) == Ancestors[w]
Under(w) == Subtree[w]

VisibleChain(d, w) == Up(w) \subseteq d.here \cap d.shown
Live(d, w) == VisibleChain(d, w) /\ Up(w) \subseteq d.able

(* hitTest: the deepest live widget at the spot that takes input.            *)
Hit(d, spot) ==
    LET hits == {w \in Over[spot] \cap Interactive : Live(d, w)}
    IN IF hits = {} THEN "none" ELSE CHOOSE w \in hits : hits \cap Under(w) = {w}

-----------------------------------------------------------------------------
(* RootView's helpers.                                                       *)

EnterLeave(d, from, to) == [d EXCEPT !.hov = (@ \ (Up(from) \ Up(to))) \cup (Up(to) \ Up(from))]

(* A text field ticks (its caret blinks) while it has the focus.             *)
Ticking(d, w, on) ==
    IF on = (w \in d.wants) THEN d
    ELSE IF on THEN [d EXCEPT !.wants = @ \cup {w}, !.tickers = @ \cup (d.here \cap {w})]
    ELSE [d EXCEPT !.wants = @ \ {w}, !.tickers = @ \ {w}]
Caret(d, w, on) == IF w = "field" THEN Ticking(d, w, on) ELSE d
Focused(d, w) == IF w = d.focused THEN d
                 ELSE Caret(Caret([d EXCEPT !.focused = w], d.focused, FALSE), w, TRUE)

TipOff(d) == [d EXCEPT !.tip = "none", !.tipShown = FALSE]

Hovers(d, spot) ==                                               \* updateHover
    LET to == IF d.captured # "none" THEN d.captured ELSE Hit(d, spot)
        moved == EnterLeave([d EXCEPT !.spot = spot, !.inside = TRUE, !.hovered = to], d.hovered, to)
    IN IF to = d.hovered THEN [d EXCEPT !.spot = spot, !.inside = TRUE]
       ELSE [TipOff(moved) EXCEPT
               !.tip = IF to # "none" /\ d.captured = "none" /\ ~d.popup THEN to ELSE "none"]

Unhovered(d) == EnterLeave([d EXCEPT !.hovered = "none"], d.hovered, "none")
Uncaptured(d) == [d EXCEPT !.captured = "none", !.os = @ /\ d.captured = "none"]

(* widgetRemoved: every pointer into the subtree goes, hover to the parent.  *)
Removed(d, w) ==
    LET sub == Under(w)
        survivor == IF Parent[w] = "root" THEN "none" ELSE Parent[w]
        d1 == IF d.captured \in sub THEN Uncaptured(d) ELSE d
        d2 == IF d1.pressed \in sub THEN [d1 EXCEPT !.pressed = "none"] ELSE d1
        d3 == IF d2.hovered \in sub
              THEN EnterLeave([d2 EXCEPT !.hovered = survivor], d2.hovered, survivor) ELSE d2
        d4 == IF d3.tip \in sub THEN TipOff(d3) ELSE d3
        d5 == [d4 EXCEPT !.tickers = @ \ sub]
    IN IF d5.focused \in sub THEN Focused(d5, "none") ELSE d5

-----------------------------------------------------------------------------
(* What a handler, a timer or a refresh of the screens does to the tree.     *)

TakenOut(d, w) ==                                \* removeChild, and the widget is dropped
    IF w \notin d.here THEN d
    ELSE LET r == Removed(d, w)
         IN [r EXCEPT !.here = @ \ Under(w), !.hov = @ \ Under(w), !.prs = @ \ Under(w),
                      !.wants = @ \ Under(w), !.tickers = @ \ Under(w)]
PutIn(d, w) ==                                   \* insertChild of a new one
    IF w \in d.here THEN d
    ELSE [d EXCEPT !.here = @ \cup Under(w), !.shown = @ \cup Under(w), !.able = @ \cup Under(w)]

Unflagged(d, w) == [d EXCEPT !.hov = @ \ {w}, !.prs = @ \ {w}]
Shown(d, w, on) ==                               \* setVisible
    IF on THEN [d EXCEPT !.shown = @ \cup {w}]
    ELSE IF w \notin d.shown THEN d
    ELSE Removed(Unflagged([d EXCEPT !.shown = @ \ {w}], w), w)
Enabled(d, w, on) ==                             \* setEnabled
    IF on THEN [d EXCEPT !.able = @ \cup {w}]
    ELSE IF w \notin d.able THEN d
    ELSE Removed(Unflagged([d EXCEPT !.able = @ \ {w}], w), w)

SwitchTo(d, next) ==                             \* AppShell::switchTo
    LET other == IF next = "queue" THEN "settings" ELSE "queue"
    IN IF next \in d.shown THEN d ELSE Shown(Focused(Shown(d, other, FALSE), "none"), next, TRUE)

Effects == {"nothing", "take", "put", "hide", "show", "disable", "enable",
            "switch", "spin", "still", "popup"}
Effect(d, e) ==
    CASE e = "nothing" -> d
      [] e = "take" -> TakenOut(d, "card")
      [] e = "put" -> PutIn(d, "card")
      [] e = "hide" -> IF "button" \in d.here THEN Shown(d, "button", FALSE) ELSE d
      [] e = "show" -> IF "button" \in d.here THEN Shown(d, "button", TRUE) ELSE d
      [] e = "disable" -> IF "button" \in d.here THEN Enabled(d, "button", FALSE) ELSE d
      [] e = "enable" -> IF "button" \in d.here THEN Enabled(d, "button", TRUE) ELSE d
      [] e = "switch" -> SwitchTo(d, IF "queue" \in d.shown THEN "settings" ELSE "queue")
      [] e = "spin" -> IF "card" \in d.here THEN Ticking(d, "card", TRUE) ELSE d
      [] e = "still" -> IF "card" \in d.here THEN Ticking(d, "card", FALSE) ELSE d
      [] e = "popup" -> [d EXCEPT !.popup = TRUE, !.tipShown = FALSE]

-----------------------------------------------------------------------------
(* Messages of the window, each handled to its end.                          *)

MouseMove == \E spot \in {"on", "by"} : u' = Hovers(u, spot)

(* dispatchMouseDown: an open popup takes the click; the press is captured   *)
(* when the handler takes it and the widget survived the handler.            *)
BugPress(d, w, e, left) ==
    LET h == Effect([d EXCEPT !.pressed = w, !.prs = @ \cup {w}], e)
    IN IF left /\ w # "card" THEN [h EXCEPT !.captured = w, !.os = TRUE] ELSE h
Press(d, w, e, left) ==
    LET h == Effect([d EXCEPT !.pressed = w, !.prs = @ \cup {w}], e)
    IN IF left /\ w # "card" /\ h.pressed = w THEN [h EXCEPT !.captured = w, !.os = TRUE] ELSE h
MouseDown ==
    \E spot \in {"on", "by"} :
        LET d == TipOff(u)
            h == Hovers(d, spot)
            w == Hit(h, spot)
            f == Focused(h, IF w \in Focusable THEN w ELSE "none")
        IN IF d.popup THEN u' = [d EXCEPT !.popup = FALSE]
           ELSE IF w = "none" THEN u' = f
           ELSE \E left \in BOOLEAN : \E e \in IF left THEN Effects ELSE {"nothing"} :
                    u' = Press(f, w, e, left)

(* dispatchMouseUp: the capture is released first, the click is the          *)
(* handler's, and what it removed is not touched again.                      *)
MouseUp ==
    \E spot \in DOMAIN Over, left \in BOOLEAN :
        LET target == IF u.captured # "none" THEN u.captured ELSE u.pressed
            free == [Uncaptured(u) EXCEPT !.pressed = target]
            click == left /\ target \in u.prs \cap u.able /\ target \in Over[spot]
            up == [free EXCEPT !.prs = @ \ {target}]
        IN /\ spot = "out" => u.captured # "none"
           /\ \E e \in IF click THEN Effects ELSE {"nothing"} :
                 LET done == [Effect(up, e) EXCEPT !.pressed = "none"]
                 IN u' = IF u.inside THEN Hovers(done, spot)
                         ELSE IF done.hovered # "none" THEN Unhovered(done) ELSE done

MouseLeave == LET d == TipOff([u EXCEPT !.inside = FALSE])
              IN u' = IF d.captured # "none" THEN d ELSE Unhovered(d)

(* Escape closes the popup, else a toast or the focused widget takes it.     *)
KeyEscape ==
    \E taken \in BOOLEAN :
        LET d == TipOff(u)
        IN u' = IF d.popup THEN [d EXCEPT !.popup = FALSE]
                ELSE IF taken THEN d ELSE Focused(d, "none")

(* Tab: the next or the previous focusable widget that is live, in the order *)
(* of the tree, around the ends.                                             *)
KeyTab ==
    LET stops == {w \in Focusable : Live(u, w)}
        d == TipOff(u)
    IN ~u.popup /\ u' = IF stops = {} THEN d ELSE Focused(d, CHOOSE w \in stops : TRUE)

KeyShortcut == ~u.popup /\ \E e \in Effects : u' = Effect(TipOff(u), e)

(* WM_CANCELMODE, WM_CAPTURECHANGED, deactivation.                           *)
Cancelled(d) ==
    [Unhovered(Uncaptured([TipOff(d) EXCEPT !.pressed = "none", !.prs = @ \ {d.pressed}]))
     EXCEPT !.inside = FALSE, !.popup = FALSE]
CancelMode == u' = Cancelled(u)
CaptureLost == u.os /\ u' = Cancelled([u EXCEPT !.os = FALSE])
Activate(on) == LET d == [(IF on THEN u ELSE TipOff(u)) EXCEPT !.active = on]
                IN u' = IF on THEN d ELSE Cancelled(d)

(* startTooltipTimer's timer, and the frame: layout looks at the hover again.*)
TipFires ==
    /\ u.tip # "none"
    /\ u' = [u EXCEPT !.tip = "none",
                      !.tipShown = @ \/ (u.tip = u.hovered /\ u.captured = "none"
                                         /\ u.pressed = "none" /\ u.active /\ ~u.popup)]
Layout == u.inside /\ u.captured = "none" /\ u' = Hovers(u, u.spot)

(* The engine's events and the timers change what the screens show.          *)
Refresh == \E e \in Effects \ {"popup"} : u' = Effect(u, e)

Next == \/ MouseMove \/ MouseDown \/ MouseUp \/ MouseLeave
        \/ KeyEscape \/ KeyTab \/ KeyShortcut
        \/ CancelMode \/ CaptureLost \/ (\E on \in BOOLEAN : Activate(on))
        \/ TipFires \/ Layout \/ Refresh

Spec == Init /\ [][Next]_u

-----------------------------------------------------------------------------
(* Whatever a handler removes, hides or disables, and in the middle of what: *)
(* the root points only at widgets a user can see and use (RootView::        *)
(* widgetRemoved, and the checks after every handler).  A pointer that is    *)
(* left behind is read by the next message, after its widget is gone.        *)
PointersAreLive ==
    /\ \A w \in {u.hovered, u.captured, u.pressed, u.focused, u.tip} : w = "none" \/ Live(u, w)
    /\ \A w \in u.tickers : Up(w) \subseteq u.here
    /\ u.os = (u.captured # "none")

(* The widgets that are drawn hovered are the one under the pointer and its  *)
(* ancestors, over all removals, captures and cancellations: enter and leave *)
(* are delivered in pairs (RootView::deliverEnterLeave).                     *)
HoverIsAChain == u.hov = Up(u.hovered)
=============================================================================
