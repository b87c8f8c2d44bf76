------------------------------ MODULE AppLife ------------------------------
(* The life of HdrHint.exe (main.cpp): launches that leave AME's job, run     *)
(* without a window, hand their arguments to the instance that runs or        *)
(* become it; and in that instance the window, the tray icon, the engine and  *)
(* the ways out.  A handler of the UI thread is one step; a message box pumps *)
(* the thread's messages while it waits.                                      *)
EXTENDS Naturals, FiniteSets

CONSTANTS
    Procs,        \* process ids
    MaxWindows    \* bound: main windows made in one process

None == "none"    \* no process
NoHwnd == 0

VARIABLES
    procs,        \* [Procs -> what a process is doing, and its command line]
    mutex,        \* owner of the named mutex
    app,          \* [Procs -> its App, from acquire() to the end of the process]
    quitWithAme,  \* the setting
    world         \* Explorer's tray and Media Encoder

lifeVars == <<procs, mutex, app, quitWithAme, world>>

(* Command lines: none (a file, or --from-panel, comes to the same), --tray,  *)
(* one for a headless run; and none with AME for a parent.                    *)
Commands == {"plain", "tray", "headless", "startup"}

(* bare: CreateMutexW failed, no mutex is held.  again, a history: the engine *)
(* was started by a window made again after the quit had stopped it.          *)
NoApp == [bare |-> FALSE, receives |-> FALSE, win |-> NoHwnd, made |-> 0, shown |-> FALSE,
          docked |-> FALSE, remake |-> FALSE, trayWin |-> NoHwnd, added |-> FALSE, icon |-> NoHwnd,
          engine |-> "off", mux |-> FALSE, asking |-> FALSE, quitting |-> FALSE, posted |-> FALSE,
          again |-> FALSE, ameSeen |-> FALSE, missing |-> 0]

Phase(p) == procs[p].phase
Runs(p) == Phase(p) = "running"
(* What a process was started with matters until it runs.                     *)
Idle(phase) == [phase |-> phase, cmd |-> "plain", job |-> FALSE, relaunched |-> FALSE]
Set(p, phase) ==
    procs' = [procs EXCEPT ![p] = IF phase \in {"running", "closing", "gone"} THEN Idle(phase)
                                  ELSE [procs[p] EXCEPT !.phase = phase]]

-----------------------------------------------------------------------------
(* Starting *)

Launch(p, cmd, job) ==
    /\ Phase(p) = "none"
    /\ procs' = [procs EXCEPT ![p] = [phase |-> "new", cmd |-> cmd, job |-> job, relaunched |-> FALSE]]
    /\ UNCHANGED <<mutex, app, quitWithAme, world>>

(* wWinMain: the process starts itself again outside the job, with one more   *)
(* argument; what its parent said of it is not among them.                    *)
Relaunch(p, job) ==
    /\ Phase(p) = "new" /\ procs[p].job /\ ~procs[p].relaunched
    /\ LET cmd == IF procs[p].cmd = "startup" THEN "plain" ELSE procs[p].cmd
       IN procs' = [procs EXCEPT ![p] = [phase |-> "new", cmd |-> cmd, job |-> job, relaunched |-> TRUE]]
    /\ UNCHANGED <<mutex, app, quitWithAme, world>>

Stays(p) == Phase(p) = "new" /\ (procs[p].job => procs[p].relaunched)

(* --process, --install-panel: before the single instance is asked for.       *)
Headless(p) ==
    /\ Stays(p) /\ procs[p].cmd = "headless" /\ Set(p, "gone")
    /\ UNCHANGED <<mutex, app, quitWithAme, world>>

\* Mutant: a mutex that exists already is one's own.
BugAcquire(p, fails) ==
    /\ Stays(p) /\ procs[p].cmd # "headless"
    /\ Set(p, "starting") /\ mutex' = p /\ app' = [app EXCEPT ![p] = NoApp]
    /\ UNCHANGED <<quitWithAme, world>>

(* CreateMutexW: the mutex is new, or it exists (or access to it is denied),  *)
(* or the call fails, and the process goes on as primary without one.         *)
Acquire(p, fails) ==
    /\ Stays(p) /\ procs[p].cmd # "headless"
    /\ \/ fails /\ Set(p, "starting") /\ app' = [app EXCEPT ![p].bare = TRUE] /\ UNCHANGED mutex
       \/ ~fails /\ mutex = None /\ Set(p, "starting") /\ mutex' = p /\ UNCHANGED app
       \/ ~fails /\ mutex # None /\ Set(p, "forwarding") /\ UNCHANGED <<mutex, app>>
    /\ UNCHANGED <<quitWithAme, world>>

(* The tray icon for a window: Shell_NotifyIcon needs Explorer and the window.*)
AddTo(a, w, shell) ==
    IF w = NoHwnd \/ w # a.win THEN [a EXCEPT !.added = FALSE]
    ELSE [a EXCEPT !.trayWin = w, !.added = shell, !.icon = IF shell THEN w ELSE @]
RemoveIcon(a) == [a EXCEPT !.added = FALSE, !.icon = IF a.added /\ a.trayWin = @ THEN NoHwnd ELSE @]

(* showWindow: a docked window is shown where it is.                          *)
Show(a) == IF a.win = NoHwnd THEN a ELSE [a EXCEPT !.shown = TRUE]

Quiet(cmd) == cmd \in {"tray", "startup"}
FromPanel(cmd) == cmd = "startup"
Shows(cmd, startMinimized, showOnAmeLaunch) ==
    ~startMinimized /\ (Quiet(cmd) => FromPanel(cmd) /\ showOnAmeLaunch)

(* run: the window, the tray icon, the receiver (nobody asks whether there is *)
(* one), the engine, which fails only without a window, and the window shown. *)
Begun(a, receives) ==
    AddTo([a EXCEPT !.receives = receives, !.win = 1, !.made = 1, !.trayWin = 1, !.engine = "on"],
          1, world.shell)
Starts(p, minimized, onLaunch, receives) ==
    /\ Phase(p) = "starting" /\ Set(p, "running")
    /\ LET begun == Begun(app[p], receives)
       IN app' = [app EXCEPT ![p] = IF Shows(procs[p].cmd, minimized, onLaunch) THEN Show(begun) ELSE begun]
    /\ UNCHANGED <<mutex, quitWithAme, world>>

Without(p) == IF mutex = p THEN None ELSE mutex

(* Without a device or a window the process ends.                             *)
Fails(p) ==
    /\ Phase(p) = "starting" /\ Set(p, "gone")
    /\ mutex' = Without(p) /\ app' = [app EXCEPT ![p] = NoApp]
    /\ UNCHANGED <<quitWithAme, world>>

-----------------------------------------------------------------------------
(* The ways out *)

(* requestQuit: a running mux is asked about unless the quit is forced; then  *)
(* the engine stops, the settings are saved, the icon goes, the loop is told. *)
Quits(a) == RemoveIcon([a EXCEPT !.quitting = TRUE, !.engine = "off", !.posted = TRUE, !.asking = FALSE])
RequestQuit(a, force) ==
    IF a.quitting THEN a
    ELSE IF ~force /\ a.mux THEN [a EXCEPT !.asking = TRUE]
    ELSE Quits(a)

(* A handler of p's loop, or of a message box of p, leaves its App as a; the  *)
(* muxer stops with the engine.                                               *)
Becomes(p, a) ==
    /\ Runs(p)
    /\ app' = [app EXCEPT ![p] = [a EXCEPT !.mux = @ /\ a.engine = "on"]]
    /\ UNCHANGED <<mutex, quitWithAme, world>>
Handles(p, a) == Becomes(p, a) /\ UNCHANGED procs

Answers(p, yes) ==
    /\ app[p].asking
    /\ Handles(p, IF yes /\ ~app[p].posted THEN Quits(app[p]) ELSE [app[p] EXCEPT !.asking = FALSE])

(* WM_CLOSE, and the close button of the shell.                               *)
CloseRequested(p, minimizeToTray) ==
    /\ app[p].win # NoHwnd /\ app[p].shown /\ ~app[p].asking
    /\ Handles(p, IF minimizeToTray /\ app[p].added THEN [app[p] EXCEPT !.shown = FALSE]
                  ELSE RequestQuit(app[p], FALSE))

(* The icon's messages go to the window it was added for.                     *)
TrayWorks(a) == world.shell /\ a.icon # NoHwnd /\ a.icon = a.win

TrayShow(p) == TrayWorks(app[p]) /\ Handles(p, Show(app[p]))

TrayQuit(p) == TrayWorks(app[p]) /\ ~app[p].asking /\ Handles(p, RequestQuit(app[p], FALSE))

\* Mutant: the time AME was missed at is set anew by every tick.
BugTicked(a) ==
    CASE world.ame -> [a EXCEPT !.ameSeen = TRUE, !.missing = 0]
      [] ~world.ame /\ a.ameSeen -> [a EXCEPT !.missing = 1]
      [] OTHER -> a

(* onTick: missing is 1 while AME is gone and 2 once that is five seconds ago.*)
Ticked(a) ==
    CASE world.ame -> [a EXCEPT !.ameSeen = TRUE, !.missing = 0]
      [] ~world.ame /\ a.ameSeen -> [a EXCEPT !.missing = IF @ < 2 THEN @ + 1 ELSE @]
      [] OTHER -> a

Tick(p) ==
    /\ app[p].win # NoHwnd
    /\ quitWithAme /\ ~app[p].quitting
    /\ LET a == Ticked(app[p])
       IN Handles(p, IF a.missing = 2 /\ ~a.mux THEN RequestQuit(a, TRUE) ELSE a)

(* What is left of an App whose loop has ended.                               *)
Remains(a, engine) == [NoApp EXCEPT !.bare = a.bare, !.receives = a.receives, !.engine = engine,
                                    !.mux = a.mux, !.again = a.again]

(* The loop finds WM_QUIT once nothing else is waiting.  What requestQuit did *)
(* is not done again, so an engine that was started since runs on; the window *)
(* and the tray icon go.                                                      *)
LoopEnds(p) ==
    /\ app[p].posted /\ ~app[p].remake
    /\ Becomes(p, Remains(app[p], IF app[p].quitting THEN app[p].engine ELSE "off"))
    /\ Set(p, "closing")

(* The members of App go in the reverse of their order: the receiver and the  *)
(* mutex first, then the engine, which stops if it still runs.                *)
Released(p) ==
    /\ Phase(p) = "closing"
    /\ \/ app[p].receives /\ app' = [app EXCEPT ![p].receives = FALSE] /\ UNCHANGED <<procs, mutex>>
       \/ ~app[p].receives /\ mutex = p /\ mutex' = None /\ UNCHANGED <<procs, app>>
       \/ /\ ~app[p].receives /\ mutex # p
          /\ Set(p, "gone") /\ app' = [app EXCEPT ![p] = NoApp] /\ UNCHANGED mutex
    /\ UNCHANGED <<quitWithAme, world>>

(* The process is killed, or the session ends.                                *)
Dies(p) ==
    /\ Phase(p) \in {"starting", "running", "closing"} /\ Set(p, "gone")
    /\ mutex' = Without(p) /\ app' = [app EXCEPT ![p] = NoApp]
    /\ UNCHANGED <<quitWithAme, world>>

-----------------------------------------------------------------------------
(* Second launches *)

(* forwardToPrimary and handleForwardedArgs: all but --tray show the window   *)
(* of the process whose receiver was found.                                   *)
Forwards(p, to) ==
    /\ Phase(p) = "forwarding" /\ app[to].receives
    /\ Becomes(to, IF procs[p].cmd = "tray" THEN app[to] ELSE Show(app[to]))
    /\ Set(p, "gone")

(* No receiver in two seconds, or none that answers in five.                  *)
GivesUp(p) ==
    /\ Phase(p) = "forwarding" /\ ~\E q \in Procs : Runs(q) /\ app[q].receives
    /\ Set(p, "gone")
    /\ UNCHANGED <<mutex, app, quitWithAme, world>>

-----------------------------------------------------------------------------
(* The window *)

Docks(p) ==
    /\ app[p].win # NoHwnd /\ world.ame /\ ~app[p].docked
    /\ Handles(p, [app[p] EXCEPT !.docked = TRUE, !.shown = TRUE])

(* setMode(Floating): in place, or with a new window where the owner is gone. *)
Undocks(p, again) ==
    /\ app[p].win # NoHwnd /\ app[p].docked
    /\ again => app[p].made < MaxWindows
    /\ LET w == IF again THEN app[p].made + 1 ELSE app[p].win
           m == IF again THEN app[p].made + 1 ELSE app[p].made
       IN Handles(p, [app[p] EXCEPT !.docked = FALSE, !.shown = TRUE, !.win = w, !.made = m])

(* AME takes the window it owns with it; WM_DESTROY posts WM_HH_RECREATE to   *)
(* the thread.                                                                *)
WindowDies(p) ==
    /\ app[p].docked /\ app[p].win # NoHwnd /\ app[p].made < MaxWindows
    /\ Handles(p, [app[p] EXCEPT !.win = NoHwnd, !.shown = FALSE, !.docked = FALSE, !.remake = TRUE])

(* A message of the thread is for no window: a message box's loop drops it.   *)
BoxTakesMessage(p) ==
    /\ app[p].asking /\ app[p].remake
    /\ Handles(p, [app[p] EXCEPT !.remake = FALSE])

(* recreate(Floating), and onDestroyedByOwner where that gave a window: the   *)
(* icon is added again for the handle it has, and the engine is started,      *)
(* which one that runs ignores and one that a quit has stopped does not.      *)
MadeAgain(a) == [a EXCEPT !.remake = FALSE, !.win = a.made + 1, !.made = a.made + 1, !.shown = TRUE,
                       !.engine = "on", !.again = a.quitting]
Recreated(p, made) ==
    /\ app[p].remake /\ ~app[p].asking
    /\ LET a == MadeAgain(app[p])
       IN Handles(p, IF ~made THEN [app[p] EXCEPT !.remake = FALSE]
                     ELSE IF a.added THEN AddTo(a, a.trayWin, world.shell) ELSE a)

(* Explorer ends, and its tray comes back with a TaskbarCreated for windows.  *)
ShellDies ==
    /\ world.shell /\ world' = [world EXCEPT !.shell = FALSE]
    /\ app' = [p \in Procs |-> [app[p] EXCEPT !.icon = NoHwnd]]
    /\ UNCHANGED <<procs, mutex, quitWithAme>>

ShellReturns ==
    /\ ~world.shell /\ world' = [world EXCEPT !.shell = TRUE]
    /\ app' = [p \in Procs |-> IF Runs(p) /\ app[p].win # NoHwnd /\ app[p].added
                               THEN AddTo(app[p], app[p].trayWin, TRUE) ELSE app[p]]
    /\ UNCHANGED <<procs, mutex, quitWithAme>>

-----------------------------------------------------------------------------
(* What happens by itself *)

AmeToggles ==
    /\ world.ame => \A p \in Procs : ~app[p].docked
    /\ world' = [world EXCEPT !.ame = ~@] /\ UNCHANGED <<procs, mutex, app, quitWithAme>>

MuxToggles(p) ==
    /\ app[p].engine = "on"
    /\ app' = [app EXCEPT ![p].mux = ~@] /\ UNCHANGED <<procs, mutex, quitWithAme, world>>

LifeInit ==
    /\ procs = [p \in Procs |-> Idle("none")]
    /\ mutex = None /\ app = [p \in Procs |-> NoApp]
    /\ quitWithAme \in BOOLEAN
    /\ world \in [shell : BOOLEAN, ame : {FALSE}]

LifeNext ==
    \/ \E p \in Procs : \/ \E cmd \in Commands, job \in BOOLEAN : Launch(p, cmd, job)
                        \/ \E job \in BOOLEAN : Relaunch(p, job)
                        \/ \E fails \in BOOLEAN : Acquire(p, fails)
                        \/ \E a, b, c \in BOOLEAN : Starts(p, a, b, c)
                        \/ Headless(p) \/ Fails(p) \/ Released(p) \/ Dies(p) \/ GivesUp(p)
                        \/ \E to \in Procs : Forwards(p, to)
                        \/ TrayShow(p) \/ TrayQuit(p) \/ Tick(p) \/ LoopEnds(p) \/ Docks(p)
                        \/ WindowDies(p) \/ BoxTakesMessage(p) \/ MuxToggles(p)
                        \/ \E b \in BOOLEAN : \/ Answers(p, b) \/ CloseRequested(p, b)
                                              \/ Undocks(p, b) \/ Recreated(p, b)
    \/ ShellDies
    \/ ShellReturns
    \/ AmeToggles

(* The loop goes on: timers fire, and posted messages are taken in the end.   *)
LifeSpec ==
    /\ LifeInit /\ [][LifeNext]_lifeVars
    /\ \A p \in Procs : /\ WF_lifeVars(Tick(p)) /\ WF_lifeVars(LoopEnds(p)) /\ WF_lifeVars(Released(p))
                        /\ WF_lifeVars(\E made \in BOOLEAN : Recreated(p, made))

-----------------------------------------------------------------------------
(* Of all the processes started, by whom and however often, two run engines   *)
(* at once in two cases only: CreateMutexW failed for one of them, or one is  *)
(* past its loop with an engine that a window made again had started after    *)
(* the quit.  And what answers second launches is the owner of the mutex, or  *)
(* one that goes without.                                                     *)
OneEngine ==
    /\ \A p, q \in Procs :
           p # q /\ app[p].engine = "on" /\ app[q].engine = "on"
               => \E r \in {p, q} : app[r].bare \/ (Phase(r) = "closing" /\ app[r].again)
    /\ \A p \in Procs : app[p].receives => mutex = p \/ app[p].bare

(* "HDR Hint quits when AME quits" (README.md:98): once AME was seen and is   *)
(* gone for good, and no mux runs, the instance ends, whatever boxes and      *)
(* windows come and go, as long as it has a window to be ticked in.           *)
LeavesWithAme ==
    \A p \in Procs :
        <>[](~world.ame /\ ~app[p].mux) /\ []<>(Runs(p) => app[p].win # NoHwnd)
            => ((quitWithAme /\ Runs(p) /\ app[p].ameSeen) ~> ~Runs(p))
=============================================================================
