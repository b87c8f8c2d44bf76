------------------------------ MODULE Docking ------------------------------
(* DockController and the window it moves: Media Encoder's frames open,     *)
(* close, move and exchange panels on their own, panels report through the  *)
(* engine, the user docks, undocks and picks, and WindowHost loses its      *)
(* window with the frame that owns it.  A handler is one action: it runs on *)
(* the UI thread between two messages.                                      *)
EXTENDS Naturals, FiniteSets

CONSTANTS Cefs,        \* panel connections, each with its renderer and CEF window
          MaxClosed    \* bound: frames that close

Roots == {"main", "float"}                 \* AME's frame, and the extension frame
Targets == Cefs \cup {"pane", "content"}   \* "pane" of main, "content" of float

VARIABLES
    roots,    \* frames that exist
    at,       \* the frame each CEF window is in, "none" before it is made
    covered,  \* the window docked to cannot be seen: background tab, minimised, occluded
    elevated, \* AME runs at another privilege level
    closed,   \* bound: frames closed so far
    dock         \* the controller and the window

envVars == <<roots, at, covered, elevated, closed>>
dockVars == <<envVars, dock>>

NoPanel == [win |-> "none", root |-> "none"]

DockInit ==
    /\ roots \in SUBSET Roots /\ ("float" \in roots => "main" \in roots)
    /\ at = [c \in Cefs |-> "none"] /\ covered = FALSE
    /\ elevated \in BOOLEAN /\ closed = 0
    /\ \E saved \in {"none", "rect"} :
        dock = [enabled |-> TRUE, sticky |-> FALSE, state |-> "Undocked",
             conn |-> "none", rpid |-> "none", panel |-> NoPanel,
             fallback |-> FALSE, picked |-> FALSE, saved |-> saved,
             seen |-> TRUE,                               \* jsBounds_.visible
             hooked |-> FALSE, pending |-> {}, flag |-> "no",  \* g_tickPosted: no, posted, lost
             dirty |-> FALSE, armed |-> "no",             \* the throttle timer: no, set, lost
             lastVisible |-> FALSE, behind |-> FALSE,     \* behind: lastRect_ is not the panel's
             hwnd |-> TRUE, mode |-> "Floating", owner |-> "none",
             tray |-> "added"]                            \* added, stale or none

RootOf(t) == IF t \in Cefs THEN at[t] ELSE IF t = "pane" THEN "main" ELSE "float"
Exists(t) == RootOf(t) \in roots

-----------------------------------------------------------------------------
(* WindowHost.  A new HWND leaves behind what was aimed at the old one: the *)
(* posted tick, the throttle timer, the tray icon and the engine's target.  *)

Remade(d) == [d EXCEPT !.flag = IF @ = "posted" THEN "lost" ELSE @,
                       !.armed = IF @ = "set" THEN "lost" ELSE @,
                       !.tray = IF @ = "added" THEN "stale" ELSE @]

(* setMode(Floating): ownership of a frame that is gone cannot be cleared,  *)
(* and the window is re-created instead.                                    *)
BugFloated(d) == IF ~d.hwnd \/ d.owner \notin roots THEN d
                 ELSE [d EXCEPT !.mode = "Floating", !.owner = "none"]
Floated(d) ==
    IF ~d.hwnd \/ d.mode = "Floating" THEN d
    ELSE LET f == [d EXCEPT !.mode = "Floating", !.owner = "none"]
         IN IF d.owner \in roots THEN f ELSE Remade(f)

(* setMode(Docked): refused for a frame that is not there.                  *)
Owned(d, root) == IF ~d.hwnd \/ root \notin roots THEN d
                  ELSE [d EXCEPT !.mode = "Docked", !.owner = root]

-----------------------------------------------------------------------------
(* DockController's helpers, in the order they call each other.             *)

Unhooked(d) == [d EXCEPT !.hooked = FALSE, !.pending = {}]       \* removeHooks
Hooked(d) == [Unhooked(d) EXCEPT !.hooked = TRUE]                \* installHooks

Gone(d, c) ==                                                    \* onPanelGone
    IF d.conn # "none" /\ c # "none" /\ c # d.conn THEN d
    ELSE [(IF d.state = "Docked" THEN Floated(Unhooked(d)) ELSE Unhooked(d))
          EXCEPT !.fallback = FALSE, !.picked = FALSE, !.panel = NoPanel, !.rpid = "none",
                 !.conn = "none", !.state = "Undocked"]

(* The last lines of applyGeometry: hide, or move and show.                 *)
Shown(d) == IF covered \/ ~d.seen THEN [d EXCEPT !.lastVisible = FALSE]
            ELSE [d EXCEPT !.behind = FALSE, !.lastVisible = TRUE]

Applied(d) ==                                              \* applyGeometry
    LET root == IF d.panel.win = "none" THEN d.panel.root ELSE RootOf(d.panel.win)
    IN IF d.state # "Docked" \/ d.panel = NoPanel THEN d
       ELSE IF root \notin roots THEN Gone(d, d.conn)
       ELSE IF root = d.panel.root THEN Shown(d)
       ELSE Shown(Owned(Hooked([d EXCEPT !.panel.root = root]), root))

(* What tryDock, dockToWindow and the fallback of tick end with.            *)
DockedTo(d, win, root) ==
    Applied([Owned(Hooked([d EXCEPT !.panel = [win |-> win, root |-> root]]), root)
           EXCEPT !.behind = FALSE, !.lastVisible = FALSE, !.state = "Docked"])

(* tryDock: where the renderer's window is decides, the search goes on      *)
(* without one, and another privilege level ends it.                        *)
Tried(d) ==
    IF ~d.enabled \/ d.sticky \/ (d.rpid # "none" /\ ~d.hwnd) THEN d
    ELSE IF d.rpid = "none" THEN [d EXCEPT !.state = "Undocked"]
    ELSE IF ~Exists(d.rpid) THEN [d EXCEPT !.state = "Searching"]
    ELSE IF elevated
    THEN [d EXCEPT !.panel = [win |-> d.rpid, root |-> RootOf(d.rpid)], !.state = "Undocked"]
    ELSE DockedTo([d EXCEPT !.fallback = FALSE], d.rpid, RootOf(d.rpid))

Searched(d) == Tried([d EXCEPT !.state = "Searching"])

CanDock(d, t) == Exists(t) /\ d.hwnd /\ ~elevated
Signature(t) == IF RootOf(t) = "float" THEN "extension" ELSE "rect"
Window(d, t) ==                                                  \* dockToWindow
    DockedTo([(IF d.state = "Docked" THEN Floated(Unhooked(d)) ELSE Unhooked(d))
              EXCEPT !.picked = TRUE, !.fallback = FALSE, !.seen = TRUE,
                     !.saved = Signature(t)],
             t, RootOf(t))

(* dockToDefaultTarget: the extension frame, then the saved panel.          *)
Default(d) == IF ~d.enabled \/ d.sticky \/ "main" \notin roots THEN "none"
              ELSE IF CanDock(d, "content") THEN "content"
              ELSE IF d.saved = "rect" /\ CanDock(d, "pane") THEN "pane" ELSE "none"
Defaulted(d) == IF Default(d) = "none" THEN d ELSE Window(d, Default(d))

(* A docked window floats before anything else is tried.                    *)
LetGo(d) == [Floated(Unhooked(d)) EXCEPT !.fallback = FALSE]

-----------------------------------------------------------------------------
(* Media Encoder and its frames.  winEventProc runs for what it does, notes *)
(* the kind and posts one tick.                                             *)

Hears(bit, moved) ==
    LET d == [dock EXCEPT !.behind = @ \/ moved]
    IN dock' = IF ~dock.hooked THEN d
            ELSE [d EXCEPT !.pending = @ \cup {bit},
                           !.flag = IF @ = "no" /\ dock.hwnd THEN "posted" ELSE @]

Opens(r) ==
    /\ r \notin roots /\ (r = "float" => "main" \in roots)
    /\ roots' = roots \cup {r} /\ elevated' \in (IF r = "main" THEN BOOLEAN ELSE {elevated})
    /\ Hears("geometry", FALSE) /\ UNCHANGED <<at, covered, closed>>

(* The frames that go; the main frame takes the others with it.             *)
Closing(r) == IF r = "main" THEN roots ELSE {r}
Closes(r) ==
    /\ r \in roots /\ closed < MaxClosed /\ closed' = closed + 1
    /\ roots' = roots \ Closing(r)
    /\ at' = [c \in Cefs |-> IF at[c] \in Closing(r) THEN "none" ELSE at[c]]
    /\ Hears(IF dock.panel.root \in Closing(r)
                \/ (dock.panel.win # "none" /\ RootOf(dock.panel.win) \in Closing(r)) THEN "gone" ELSE "geometry", FALSE)
    /\ UNCHANGED <<covered, elevated>>

(* The panel is made, torn off, or docked into the other frame.  The hooks  *)
(* cover DESTROY to LOCATIONCHANGE: a new parent (0x800F) is not heard of,  *)
(* only the place that may change with it.                                  *)
MovesTo(c, r, moved) ==
    /\ r \in roots /\ at[c] # r /\ at' = [at EXCEPT ![c] = r]
    /\ IF moved THEN Hears("geometry", dock.panel.win = c) ELSE dock' = dock
    /\ UNCHANGED <<roots, covered, elevated, closed>>

(* A CEF window is destroyed while its frame stays: of the windows destroyed *)
(* only the panel's own and its frame tell that the panel is gone.          *)
PanelCloses(c) ==
    /\ at[c] # "none" /\ at' = [at EXCEPT ![c] = "none"]
    /\ Hears(IF dock.panel.win = c THEN "gone" ELSE "geometry", FALSE)
    /\ UNCHANGED <<roots, covered, elevated, closed>>

Shifts == /\ roots # {} /\ dock.state = "Docked" /\ Hears("geometry", TRUE)
          /\ UNCHANGED envVars

Covers == /\ roots # {} /\ covered' = ~covered /\ Hears("geometry", FALSE)
          /\ UNCHANGED <<roots, at, elevated, closed>>

-----------------------------------------------------------------------------
(* What the panels send, through the engine: nothing, once its target is a  *)
(* window that has been replaced, and with it the tray icon's.              *)

Heard == dock.hwnd /\ dock.tray = "added"

Hello(c, pid) ==
    /\ Heard /\ "main" \in roots /\ UNCHANGED envVars
    /\ LET d == [(IF dock.state = "Docked" THEN [LetGo(dock) EXCEPT !.state = "Undocked"] ELSE dock)
                 EXCEPT !.conn = c, !.rpid = pid, !.panel = NoPanel]
       IN dock' = IF pid = "none" THEN [d EXCEPT !.state = "Undocked"]
               ELSE IF ~d.enabled \/ d.sticky THEN d ELSE Searched(d)

Bounds(c, seen) ==
    /\ Heard /\ (dock.conn = "none" \/ c = dock.conn)
    /\ dock' = Applied([dock EXCEPT !.seen = seen])
    /\ UNCHANGED envVars

Visibility(seen) ==
    /\ Heard /\ seen # dock.seen /\ dock' = Applied([dock EXCEPT !.seen = seen])
    /\ UNCHANGED envVars

(* extensionUnloaded, a closing panel, or the pipe that drops.              *)
PanelGone(c) ==
    /\ Heard /\ dock' = Gone(dock, c) /\ UNCHANGED envVars

BeforeQuit ==
    /\ Heard /\ dock' = Gone(dock, "none") /\ UNCHANGED envVars

WorkspaceChanged ==
    /\ Heard /\ dock.rpid # "none" /\ dock.enabled /\ ~dock.sticky
    /\ dock' = Searched(IF dock.state = "Docked" THEN [LetGo(dock) EXCEPT !.panel = NoPanel] ELSE dock)
    /\ UNCHANGED envVars

-----------------------------------------------------------------------------
(* The user.                                                                *)

Picking(d) == [Unhooked(d) EXCEPT !.state = "Picking"]             \* beginPick
Cancelled(d) == IF d.state = "Picking" THEN [d EXCEPT !.state = "Undocked"] ELSE d

UserDock ==
    /\ dock.hwnd /\ UNCHANGED envVars
    /\ LET d == [dock EXCEPT !.sticky = FALSE]
       IN dock' = IF ~d.enabled \/ d.state = "Picking" THEN d
               ELSE IF d.state = "Docked" /\ (d.rpid # "none" \/ d.picked) THEN Applied(d)
               ELSE IF d.rpid # "none" THEN Searched(d)
               ELSE IF Default(d) # "none" THEN Defaulted(d)
               ELSE IF roots = {} THEN d ELSE Picking(d)

UserUndock ==
    /\ dock.hwnd /\ UNCHANGED envVars
    /\ LET d == [Unhooked(dock) EXCEPT !.sticky = TRUE]
       IN dock' = IF d.state = "Docked" THEN [LetGo(d) EXCEPT !.picked = FALSE, !.state = "Undocked"]
               ELSE [d EXCEPT !.state = "Undocked"]

SetEnabled(on) ==
    /\ dock.hwnd /\ on # dock.enabled /\ UNCHANGED envVars
    /\ LET d == [dock EXCEPT !.enabled = on]
       IN dock' = IF ~on THEN IF d.state = "Docked" THEN [LetGo(d) EXCEPT !.state = "Undocked"]
                           ELSE [Unhooked(d) EXCEPT !.state = "Undocked"]
               ELSE IF d.sticky THEN d
               ELSE IF d.rpid # "none" THEN Tried(d) ELSE Defaulted(d)

(* pollPick: a click on a panel; Esc, the timeout or a click elsewhere.     *)
PollPick(t) ==
    /\ dock.state = "Picking" /\ UNCHANGED envVars
    /\ LET d == Cancelled(dock)
       IN dock' = IF t # "none" /\ CanDock(d, t) THEN Window(d, t) ELSE d

(* --dock-at x,y of a second instance.                                      *)
DockAt(t) ==
    /\ dock.hwnd /\ dock.enabled /\ Exists(t) /\ UNCHANGED envVars
    /\ LET d == [dock EXCEPT !.sticky = FALSE]
       IN dock' = IF CanDock(d, t) THEN Window(Cancelled(d), t) ELSE Cancelled(d)

-----------------------------------------------------------------------------
(* The message loop.                                                        *)

(* onDockTick; a pass soon after the last one is put off to a timer.        *)
Followed(d, soon) ==
    IF d.state # "Docked" THEN [d EXCEPT !.pending = {}]
    ELSE IF "gone" \in d.pending THEN Gone(d, d.conn)
    ELSE LET q == [d EXCEPT !.pending = {}]
         IN IF d.pending = {} /\ ~d.dirty THEN q
            ELSE IF soon THEN [q EXCEPT !.dirty = TRUE, !.armed = IF @ = "no" THEN "set" ELSE @]
            ELSE Applied([q EXCEPT !.dirty = FALSE])

(* The flag is cleared first, also when the timer calls, whatever it is.    *)
OnDockTick(d, soon) == Followed([d EXCEPT !.flag = "no"], soon)

DockTick(soon) ==
    /\ dock.hwnd /\ dock.flag = "posted" /\ UNCHANGED envVars
    /\ dock' = OnDockTick(dock, soon)

(* A pass may have been made since the timer was set: it is set again then. *)
ThrottleTimer(soon) ==
    /\ dock.hwnd /\ dock.armed = "set" /\ UNCHANGED envVars
    /\ dock' = IF ~dock.dirty THEN [dock EXCEPT !.armed = "no"]
            ELSE OnDockTick([dock EXCEPT !.armed = "no", !.pending = @ \cup {"geometry"}], soon)

(* tick, once a second; late: the search has gone on for a minute, valid:   *)
(* the panel has sent a rectangle.                                          *)
SearchEnds(d, valid) ==
    IF valid /\ "main" \in roots /\ ~elevated
    THEN DockedTo([d EXCEPT !.fallback = TRUE], "none", "main")
    ELSE [d EXCEPT !.state = "Undocked"]

EverySecond(late, valid) ==
    /\ dock.hwnd /\ dock.state # "Picking" /\ UNCHANGED envVars
    /\ dock' = CASE dock.state = "Undocked" /\ dock.rpid = "none" -> Defaulted(dock)
              [] dock.state = "Undocked" /\ dock.rpid # "none" -> dock
              [] dock.state = "Searching" /\ late -> SearchEnds(dock, valid)
              [] dock.state = "Searching" /\ ~late -> Tried(dock)
              [] dock.state = "Docked" ->
                   IF dock.fallback /\ dock.panel.root \in roots /\ dock.rpid # "none" /\ Exists(dock.rpid)
                   THEN LET root == RootOf(dock.rpid)
                            d == Hooked([dock EXCEPT !.panel = [win |-> dock.rpid, root |-> root],
                                                  !.fallback = FALSE])
                        IN Applied(IF root = dock.panel.root THEN d ELSE Owned(d, root))
                   ELSE IF dock.panel.root \notin roots THEN Gone(dock, dock.conn)
                   ELSE Applied(dock)

(* WM_DESTROY: the window went with its owner; what waited for it is lost.  *)
OwnerTakesWindow ==
    /\ dock.hwnd /\ dock.mode = "Docked" /\ dock.owner \notin roots /\ UNCHANGED envVars
    /\ dock' = [Remade(dock) EXCEPT !.hwnd = FALSE]

(* WM_HH_RECREATE: recreate(Floating), onWindowRecreated, and the tray icon *)
(* added again with the handle it has, which is dead.                       *)
WindowRecreated ==
    /\ ~dock.hwnd /\ UNCHANGED envVars
    /\ LET d == [Unhooked(dock) EXCEPT
                   !.hwnd = TRUE, !.mode = "Floating", !.owner = "none",
                   !.armed = "no", !.dirty = FALSE, !.fallback = FALSE, !.behind = FALSE,
                   !.lastVisible = FALSE, !.panel = NoPanel, !.picked = FALSE,
                   !.state = "Undocked", !.tray = "none"]
           on == d.enabled /\ ~d.sticky
       IN dock' = IF on /\ d.rpid # "none" /\ roots # {} THEN Searched(d)
               ELSE IF on /\ dock.picked /\ d.saved = "rect" /\ CanDock(d, "pane") THEN Window(d, "pane")
               ELSE d

DockNext ==
    \/ \E r \in Roots : Opens(r) \/ Closes(r) \/ \E c \in Cefs, b \in BOOLEAN : MovesTo(c, r, b)
    \/ Shifts \/ Covers \/ (\E c \in Cefs : PanelCloses(c)) \/ \E t \in Targets : DockAt(t)
    \/ (\E c \in Cefs : PanelGone(c)) \/ BeforeQuit \/ WorkspaceChanged
    \/ \E c \in Cefs : \E pid \in {c, "none"} : Hello(c, pid)
    \/ \E b \in BOOLEAN : Visibility(b) \/ \E c \in Cefs : Bounds(c, b)
    \/ UserDock \/ UserUndock \/ (\E on \in BOOLEAN : SetEnabled(on))
    \/ \E t \in Targets \cup {"none"} : PollPick(t)
    \/ \E b, valid \in BOOLEAN : DockTick(b) \/ ThrottleTimer(b) \/ EverySecond(b, valid)
    \/ OwnerTakesWindow \/ WindowRecreated

DockSpec == DockInit /\ [][DockNext]_dockVars

-----------------------------------------------------------------------------
(* The window is what the controller believes it is: docked, owned by the   *)
(* frame the controller knows the panel in, and a window of its own         *)
(* otherwise, whatever AME closes and whichever window that costs.  One     *)
(* left behind in the docked mode would vanish with AME.                    *)
ModeFollowsState ==
    dock.hwnd => IF dock.state = "Docked" THEN dock.mode = "Docked" /\ dock.owner = dock.panel.root
              ELSE dock.mode = "Floating"

(* Undock and the master switch hold: however panels, workspaces, frames    *)
(* and windows come and go, only the user docks again.                      *)
OffIsOff == dock.sticky \/ ~dock.enabled => dock.state = "Undocked"

(* "a deferred timer catches the last event of a burst so the window never  *)
(* lags behind AME's final layout" (DockController.cpp:757): with no tick   *)
(* and no timer on its way the window is where the panel is and as visible. *)
(* The code keeps this only until a posted tick dies with a window that is  *)
(* replaced: g_tickPosted stays set ("lost"), no tick is posted again, and  *)
(* the window lags until the next second. A timer that died counts as set   *)
(* until onWindowRecreated. Both are set aside here.                        *)
Settled == dock.hwnd /\ dock.state = "Docked" /\ dock.flag = "no" /\ dock.armed = "no" /\ dock.panel.win # "none"
Hides == covered \/ ~dock.seen
NeverLags == Settled => /\ dock.lastVisible = ~Hides
                        /\ ~Hides => ~dock.behind

(* Whatever order Media Encoder's windows, the user and the timer act in,   *)
(* the three hold together.                                                 *)
DockingIsSettled == ModeFollowsState /\ OffIsOff /\ NeverLags
=============================================================================
