---------------------------- MODULE DesktopProofs ----------------------------
(* The theorems about the program and its window, for any number of        *)
(* processes, windows, panels and lengths of a content: the life of the    *)
(* processes (AppLife), the window docked to Media Encoder (Docking) and a *)
(* view that scrolls (Scroll).  The parts share no variable.               *)
EXTENDS AppLife, Docking, Scroll, FiniteSetTheorems, TLAPS

-----------------------------------------------------------------------------
(* The processes.  Each is told by its phase, whether the mutex is its     *)
(* own, and its App, and what is Fine of the three is inductive: who       *)
(* starts or runs owns the mutex or goes without; who receives does too;   *)
(* and an engine that runs does so in a running process or, at the end of  *)
(* one, because it was started after the quit.  Good is what the handlers  *)
(* keep of the App.                                                        *)
Phases == {"none", "new", "starting", "forwarding", "running", "closing", "gone"}

Process == [phase : Phases, cmd : Commands, job : BOOLEAN, relaunched : BOOLEAN]
App == [bare : BOOLEAN, receives : BOOLEAN, win : Nat, made : Nat, shown : BOOLEAN,
        docked : BOOLEAN, remake : BOOLEAN, trayWin : Nat, added : BOOLEAN, icon : Nat,
        engine : {"off", "on"}, mux : BOOLEAN, asking : BOOLEAN, quitting : BOOLEAN,
        posted : BOOLEAN, again : BOOLEAN, ameSeen : BOOLEAN, missing : 0..2]
World == [shell : BOOLEAN, ame : BOOLEAN]

LifeTypeOK ==
    /\ procs \in [Procs -> Process]
    /\ mutex \in Procs \cup {None}
    /\ app \in [Procs -> App] /\ quitWithAme \in BOOLEAN /\ world \in World

Good(a) ==
    /\ a \in App
    /\ a.posted => a.quitting
    /\ a.quitting /\ a.engine = "on" => a.again

Fine(phase, owns, a) ==
    /\ Good(a)
    /\ phase \in {"starting", "running"} => owns \/ a.bare
    /\ phase \notin {"running", "closing"} => ~a.quitting
    /\ a.receives => phase \in {"running", "closing"} /\ (owns \/ a.bare)
    /\ a.engine = "on" => phase = "running" \/ (phase = "closing" /\ a.again)

LifeInv == LifeTypeOK /\ \A p \in Procs : Fine(Phase(p), mutex = p, app[p])

\* What a handler makes of an App.
Follows(a, b) == Good(b) /\ b.bare = a.bare /\ b.receives = a.receives

-----------------------------------------------------------------------------
(* What the helpers of AppLife return *)

LEMMA NoAppGood ==
  Good(NoApp) /\ NoApp.engine = "off" /\ ~NoApp.receives /\ ~NoApp.bare /\ ~NoApp.quitting
BY DEF NoApp, Good, App, NoHwnd

LEMMA AddToFollows ==
  ASSUME NEW a, Good(a), NEW w \in Nat, NEW shell \in BOOLEAN
  PROVE  Follows(a, AddTo(a, w, shell)) /\ AddTo(a, w, shell).engine = a.engine
BY DEF AddTo, Good, Follows, App, NoHwnd

LEMMA RemoveIconFollows ==
  ASSUME NEW a, Good(a)
  PROVE  Follows(a, RemoveIcon(a)) /\ RemoveIcon(a).engine = a.engine
BY DEF RemoveIcon, Good, Follows, App, NoHwnd

LEMMA ShowFollows ==
  ASSUME NEW a, Good(a)
  PROVE  Follows(a, Show(a))
<1>1. Follows(a, [a EXCEPT !.shown = TRUE])
  BY DEF Good, Follows, App
<1>2. Follows(a, a)
  BY DEF Follows
<1> QED
  BY <1>1, <1>2 DEF Show

LEMMA QuitsFollows ==
  ASSUME NEW a, Good(a)
  PROVE  Follows(a, Quits(a))
<1> DEFINE b == [a EXCEPT !.quitting = TRUE, !.engine = "off"]
           c == [b EXCEPT !.posted = TRUE, !.asking = FALSE]
<1>1. b \in App /\ b.quitting /\ b.engine = "off" /\ b.bare = a.bare /\ b.receives = a.receives
  BY DEF Good, App
<1>2. Quits(a) = RemoveIcon(c)
  BY DEF Quits, Good, App
<1> HIDE DEF b
<1>3. Good(c) /\ c.bare = a.bare /\ c.receives = a.receives
  BY <1>1 DEF Good, App
<1> HIDE DEF c
<1>4. Follows(c, RemoveIcon(c))
  BY <1>3, RemoveIconFollows
<1> QED
  BY <1>2, <1>3, <1>4 DEF Follows

LEMMA RequestQuitFollows ==
  ASSUME NEW a, Good(a), NEW force \in BOOLEAN
  PROVE  Follows(a, RequestQuit(a, force))
<1>1. Follows(a, [a EXCEPT !.asking = TRUE])
  BY DEF Good, Follows, App
<1>2. Follows(a, a)
  BY DEF Follows
<1> QED
  BY <1>1, <1>2, QuitsFollows DEF RequestQuit

LEMMA TickedFollows ==
  ASSUME NEW a, Good(a), world \in World
  PROVE  Follows(a, Ticked(a))
<1> DEFINE m == IF a.missing < 2 THEN a.missing + 1 ELSE a.missing
<1>1. m \in 0..2
  BY DEF Good, App
<1>2. Ticked(a) \in {[a EXCEPT !.ameSeen = TRUE, !.missing = 0], [a EXCEPT !.missing = m], a}
  BY DEF Ticked, World
<1> HIDE DEF m
<1>3. 0 \in 0..2
  OBVIOUS
<1>4. ASSUME NEW n \in 0..2, NEW seen \in BOOLEAN
      PROVE  Follows(a, [a EXCEPT !.ameSeen = seen, !.missing = n])
  BY DEF Good, Follows, App
<1>5. a.ameSeen \in BOOLEAN /\ [a EXCEPT !.missing = m] = [a EXCEPT !.ameSeen = a.ameSeen, !.missing = m]
  BY DEF Good, App
<1>6. Follows(a, a)
  BY DEF Follows
<1> QED
  BY <1>1, <1>2, <1>3, <1>4, <1>5, <1>6

LEMMA MadeAgainFollows ==
  ASSUME NEW a, Good(a)
  PROVE  Follows(a, MadeAgain(a))
<1> DEFINE w == a.made + 1
           b == [a EXCEPT !.remake = FALSE, !.win = w, !.made = w]
           c == [b EXCEPT !.shown = TRUE, !.engine = "on", !.again = a.quitting]
<1>1. w \in Nat
  BY DEF Good, App
<1>2. MadeAgain(a) = c
  BY DEF MadeAgain, Good, App
<1> HIDE DEF w
<1>3. /\ b \in App /\ b.posted = a.posted /\ b.quitting = a.quitting
      /\ b.bare = a.bare /\ b.receives = a.receives
  BY <1>1 DEF Good, App
<1> HIDE DEF b
<1>4. Good(c) /\ c.bare = a.bare /\ c.receives = a.receives
  BY <1>3 DEF Good, App
<1> HIDE DEF c
<1> QED
  BY <1>2, <1>4 DEF Follows

LEMMA BegunGood ==
  ASSUME NEW a, Good(a), ~a.quitting, NEW receives \in BOOLEAN, world \in World
  PROVE  Good(Begun(a, receives)) /\ Begun(a, receives).bare = a.bare
<1> DEFINE b == [a EXCEPT !.receives = receives, !.win = 1, !.made = 1]
           c == [b EXCEPT !.trayWin = 1, !.engine = "on"]
<1>1. b \in App /\ b.bare = a.bare /\ ~b.quitting /\ ~b.posted
  BY DEF Good, App
<1>2. Begun(a, receives) = AddTo(c, 1, world.shell)
  BY DEF Begun, Good, App
<1> HIDE DEF b
<1>3. Good(c) /\ c.bare = a.bare
  BY <1>1 DEF Good, App
<1> HIDE DEF c
<1>4. Follows(c, AddTo(c, 1, world.shell))
  BY <1>3, AddToFollows DEF World
<1> QED
  BY <1>2, <1>3, <1>4 DEF Follows

LEMMA RemainsGood ==
  ASSUME NEW a, Good(a), NEW engine \in {"off", "on"}, engine = "on" => a.again
  PROVE  Follows(a, Remains(a, engine)) /\ (Remains(a, engine).engine = "on" => Remains(a, engine).again)
<1> DEFINE b == [NoApp EXCEPT !.bare = a.bare, !.receives = a.receives]
           c == [b EXCEPT !.engine = engine, !.mux = a.mux, !.again = a.again]
<1>1. b \in App /\ ~b.posted /\ ~b.quitting /\ b.bare = a.bare /\ b.receives = a.receives
  <2>1. NoApp \in App /\ ~NoApp.posted /\ ~NoApp.quitting
    BY DEF NoApp, App, NoHwnd
  <2> QED
    BY <2>1 DEF Good, App
<1>2. Remains(a, engine) = c
  BY DEF Remains, NoApp
<1> HIDE DEF b
<1>3. Good(c) /\ c.bare = a.bare /\ c.receives = a.receives /\ c.engine = engine /\ c.again = a.again
  <2>1. a.mux \in BOOLEAN /\ a.again \in BOOLEAN
    BY DEF Good, App
  <2>2. /\ c \in App /\ c.bare = a.bare /\ c.receives = a.receives /\ c.engine = engine
        /\ c.again = a.again /\ ~c.quitting /\ ~c.posted
    BY <1>1, <2>1 DEF App
  <2> QED
    BY <2>2 DEF Good
<1> HIDE DEF c
<1> QED
  BY <1>2, <1>3 DEF Follows

-----------------------------------------------------------------------------
(* A step of one process.  The mutex is taken by it, given back by it or   *)
(* left alone, so nothing changes for the others.                          *)

LEMMA StepKeeps ==
  ASSUME LifeInv, None \notin Procs, NEW p \in Procs, NEW r \in Process, NEW a,
         procs' = [procs EXCEPT ![p] = r], app' = [app EXCEPT ![p] = a],
         \/ mutex' = mutex
         \/ mutex \in {None, p} /\ mutex' \in {None, p},
         Fine(r.phase, mutex' = p, a), UNCHANGED <<quitWithAme, world>>
  PROVE  LifeInv'
<1>1. /\ procs' \in [Procs -> Process] /\ procs'[p] = r
      /\ \A q \in Procs \ {p} : procs'[q] = procs[q]
  BY DEF LifeInv, LifeTypeOK
<1>2. /\ app' \in [Procs -> App] /\ app'[p] = a
      /\ \A q \in Procs \ {p} : app'[q] = app[q]
  BY DEF LifeInv, LifeTypeOK, Fine, Good
<1>3. LifeTypeOK'
  BY <1>1, <1>2 DEF LifeInv, LifeTypeOK
<1>4. Fine(Phase(p)', (mutex = p)', app'[p])
  BY <1>1, <1>2 DEF Phase
<1>5. ASSUME NEW q \in Procs \ {p} PROVE Fine(Phase(q)', (mutex = q)', app'[q])
  <2>1. Fine(Phase(q), mutex = q, app[q])
    BY DEF LifeInv
  <2>2. (mutex = q) <=> (mutex' = q)
    OBVIOUS
  <2>3. Phase(q)' = Phase(q) /\ app'[q] = app[q]
    BY <1>1, <1>2 DEF Phase
  <2> QED
    BY <2>1, <2>2, <2>3 DEF Fine
<1> QED
  BY <1>3, <1>4, <1>5 DEF LifeInv

LEMMA SetType ==
  ASSUME LifeTypeOK, NEW p \in Procs, NEW phase \in Phases, Set(p, phase)
  PROVE  \E r \in Process : r.phase = phase /\ procs' = [procs EXCEPT ![p] = r]
<1> DEFINE r == IF phase \in {"running", "closing", "gone"} THEN Idle(phase)
                ELSE [procs[p] EXCEPT !.phase = phase]
<1>1. r \in Process /\ r.phase = phase
  BY DEF LifeTypeOK, Idle, Process, Commands
<1>2. procs' = [procs EXCEPT ![p] = r]
  BY DEF Set
<1> HIDE DEF r
<1> QED
  BY <1>1, <1>2

\* The record a process has, and its App, where the step leaves them alone.
LEMMA SameAgain ==
  ASSUME LifeTypeOK, NEW p \in Procs
  PROVE  /\ procs[p] \in Process /\ procs = [procs EXCEPT ![p] = procs[p]]
         /\ app = [app EXCEPT ![p] = app[p]]
BY DEF LifeTypeOK

\* Whatever a handler makes of the App of a process that runs follows it.
LEMMA BecomesKeeps ==
  ASSUME LifeInv, None \notin Procs, NEW p \in Procs, NEW b, Follows(app[p], b), Becomes(p, b),
         \/ UNCHANGED procs
         \/ \E q \in Procs : q # p /\ Phase(q) = "forwarding" /\ Set(q, "gone")
  PROVE  LifeInv'
<1> DEFINE c == [b EXCEPT !.mux = b.mux /\ b.engine = "on"]
<1>1. /\ Good(c) /\ c.bare = b.bare /\ c.receives = b.receives
  BY DEF Follows, Good, App
<1>2. /\ app' = [app EXCEPT ![p] = c] /\ UNCHANGED <<mutex, quitWithAme, world>> /\ Phase(p) = "running"
  BY DEF Becomes, Runs, Follows, Good, App
<1> HIDE DEF c
<1>3. /\ app' \in [Procs -> App] /\ app'[p] = c
      /\ \A q \in Procs \ {p} : app'[q] = app[q]
  BY <1>1, <1>2 DEF LifeInv, LifeTypeOK, Good
<1>4. /\ procs' \in [Procs -> Process] /\ Phase(p)' = Phase(p)
      /\ \A q \in Procs : \/ Phase(q)' = Phase(q)
                          \/ Phase(q) = "forwarding" /\ Phase(q)' = "gone"
  <2>1. CASE UNCHANGED procs
    BY <2>1 DEF LifeInv, LifeTypeOK, Phase
  <2>2. CASE \E q \in Procs : q # p /\ Phase(q) = "forwarding" /\ Set(q, "gone")
    <3>1. PICK q \in Procs : q # p /\ Phase(q) = "forwarding" /\ Set(q, "gone")
      BY <2>2
    <3>2. PICK r \in Process : r.phase = "gone" /\ procs' = [procs EXCEPT ![q] = r]
      BY <3>1, SetType DEF LifeInv, Phases
    <3> QED
      BY <3>1, <3>2 DEF LifeInv, LifeTypeOK, Phase
  <2> QED
    BY <2>1, <2>2
<1>5. LifeTypeOK'
  BY <1>2, <1>3, <1>4 DEF LifeInv, LifeTypeOK
<1>6. Fine(Phase(p), mutex = p, app[p])
  BY DEF LifeInv
<1>7. Fine(Phase(p)', (mutex = p)', app'[p])
  BY <1>1, <1>2, <1>3, <1>4, <1>6 DEF Fine, Follows
<1>8. ASSUME NEW q \in Procs \ {p} PROVE Fine(Phase(q)', (mutex = q)', app'[q])
  <2>1. Fine(Phase(q), mutex = q, app[q])
    BY DEF LifeInv
  <2>2. app'[q] = app[q] /\ mutex' = mutex
    BY <1>2, <1>3
  <2> QED
    BY <1>4, <2>1, <2>2 DEF Fine
<1> QED
  BY <1>5, <1>7, <1>8 DEF LifeInv

LEMMA LoopSteps ==
  ASSUME LifeInv, None \notin Procs, NEW p \in Procs,
         \/ TrayShow(p) \/ TrayQuit(p) \/ Tick(p) \/ Docks(p)
         \/ WindowDies(p) \/ BoxTakesMessage(p)
         \/ \E b \in BOOLEAN : \/ Answers(p, b) \/ CloseRequested(p, b)
                               \/ Undocks(p, b) \/ Recreated(p, b)
  PROVE  LifeInv'
<1> DEFINE a == app[p]
<1>1. Good(a) /\ a \in App /\ world \in World /\ world.shell \in BOOLEAN
  BY DEF LifeInv, LifeTypeOK, Fine, Good, World
<1>2. SUFFICES \E b : Follows(a, b) /\ Handles(p, b)
  BY BecomesKeeps DEF Handles
<1>3. ASSUME NEW yes \in BOOLEAN, Answers(p, yes) PROVE \E b : Follows(a, b) /\ Handles(p, b)
  <2>1. Follows(a, [a EXCEPT !.asking = FALSE])
    BY <1>1 DEF App, Good, Follows
  <2> QED
    BY <1>1, <1>3, <2>1, QuitsFollows DEF Answers
<1>4. ASSUME NEW m \in BOOLEAN, CloseRequested(p, m) PROVE \E b : Follows(a, b) /\ Handles(p, b)
  <2>1. Follows(a, [a EXCEPT !.shown = FALSE])
    BY <1>1 DEF App, Good, Follows
  <2>2. Follows(a, RequestQuit(a, FALSE))
    BY <1>1, RequestQuitFollows
  <2> QED
    BY <1>4, <2>1, <2>2 DEF CloseRequested
<1>5. CASE TrayShow(p)
  BY <1>1, <1>5, ShowFollows DEF TrayShow
<1>6. CASE TrayQuit(p)
  BY <1>1, <1>6, RequestQuitFollows DEF TrayQuit
<1>7. CASE Tick(p)
  <2> DEFINE t == Ticked(a)
  <2>1. Follows(a, t)
    BY <1>1, TickedFollows
  <2>2. Handles(p, IF t.missing = 2 /\ ~t.mux THEN RequestQuit(t, TRUE) ELSE t)
    BY <1>7 DEF Tick
  <2> HIDE DEF t
  <2>3. Follows(t, RequestQuit(t, TRUE))
    BY <2>1, RequestQuitFollows DEF Follows
  <2>4. Follows(a, RequestQuit(t, TRUE))
    BY <2>1, <2>3 DEF Follows
  <2> QED
    BY <2>1, <2>2, <2>4
<1>8. CASE Docks(p)
  <2>1. Follows(a, [a EXCEPT !.docked = TRUE, !.shown = TRUE])
    BY <1>1 DEF App, Good, Follows
  <2> QED
    BY <1>8, <2>1 DEF Docks
<1>9. ASSUME NEW again \in BOOLEAN, Undocks(p, again) PROVE \E b : Follows(a, b) /\ Handles(p, b)
  <2> DEFINE w == IF again THEN a.made + 1 ELSE a.win
             m == IF again THEN a.made + 1 ELSE a.made
             c == [a EXCEPT !.docked = FALSE, !.shown = TRUE]
             b == [c EXCEPT !.win = w, !.made = m]
  <2>1. w \in Nat /\ m \in Nat
    BY <1>1 DEF App
  <2>2. Handles(p, [a EXCEPT !.docked = FALSE, !.shown = TRUE, !.win = w, !.made = m])
    BY <1>9 DEF Undocks
  <2> HIDE DEF w, m
  <2>3. [a EXCEPT !.docked = FALSE, !.shown = TRUE, !.win = w, !.made = m] = b
    BY <1>1 DEF App
  <2>4. Follows(a, c)
    BY <1>1 DEF App, Good, Follows
  <2> HIDE DEF c
  <2>5. Follows(a, b)
    BY <2>1, <2>4 DEF App, Good, Follows
  <2> QED
    BY <2>2, <2>3, <2>5
<1>10. CASE WindowDies(p)
  <2> DEFINE c == [a EXCEPT !.win = NoHwnd, !.shown = FALSE]
             b == [c EXCEPT !.docked = FALSE, !.remake = TRUE]
  <2>1. Handles(p, b)
    BY <1>1, <1>10 DEF WindowDies, App
  <2>2. Follows(a, c)
    BY <1>1 DEF App, Good, Follows, NoHwnd
  <2> HIDE DEF c
  <2>3. Follows(a, b)
    BY <2>2 DEF App, Good, Follows
  <2> QED
    BY <2>1, <2>3
<1>11. CASE BoxTakesMessage(p)
  <2>1. Follows(a, [a EXCEPT !.remake = FALSE])
    BY <1>1 DEF App, Good, Follows
  <2> QED
    BY <1>11, <2>1 DEF BoxTakesMessage
<1>12. ASSUME NEW made \in BOOLEAN, Recreated(p, made) PROVE \E b : Follows(a, b) /\ Handles(p, b)
  <2> DEFINE c == MadeAgain(a)
  <2>1. Follows(a, c)
    BY <1>1, MadeAgainFollows
  <2>2. Handles(p, IF ~made THEN [a EXCEPT !.remake = FALSE]
                   ELSE IF c.added THEN AddTo(c, c.trayWin, world.shell) ELSE c)
    BY <1>12 DEF Recreated
  <2>3. Follows(a, [a EXCEPT !.remake = FALSE])
    BY <1>1 DEF App, Good, Follows
  <2> HIDE DEF c
  <2>4. Follows(c, AddTo(c, c.trayWin, world.shell))
    BY <1>1, <2>1, AddToFollows DEF Follows, Good, App
  <2>5. Follows(a, AddTo(c, c.trayWin, world.shell))
    BY <2>1, <2>4 DEF Follows
  <2> QED
    BY <2>1, <2>2, <2>3, <2>5
<1> QED
  BY <1>3, <1>4, <1>5, <1>6, <1>7, <1>8, <1>9, <1>10, <1>11, <1>12

LEMMA ForwardsKeeps ==
  ASSUME LifeInv, None \notin Procs, NEW p \in Procs, NEW to \in Procs, Forwards(p, to)
  PROVE  LifeInv'
<1>1. Good(app[to]) /\ to # p
  BY DEF LifeInv, Fine, Forwards, Becomes, Runs
<1>2. Follows(app[to], app[to]) /\ Follows(app[to], Show(app[to]))
  BY <1>1, ShowFollows DEF Follows
<1>3. PICK b \in {app[to], Show(app[to])} : Becomes(to, b)
  BY DEF Forwards
<1>4. Follows(app[to], b)
  BY <1>2
<1> QED
  BY <1>1, <1>3, <1>4, BecomesKeeps DEF Forwards

\* Explorer and Media Encoder leave the engine, the receiver and the end as they are.
LEMMA OutsideSteps ==
  ASSUME LifeInv, ShellDies \/ ShellReturns \/ AmeToggles
  PROVE  LifeInv'
<1>1. UNCHANGED <<procs, mutex, quitWithAme>> /\ world' \in World
  BY DEF LifeInv, LifeTypeOK, World, ShellDies, ShellReturns, AmeToggles
<1>2. ASSUME NEW p \in Procs
      PROVE  /\ Follows(app[p], app'[p]) /\ app'[p].engine = app[p].engine
             /\ app'[p].again = app[p].again /\ app'[p].quitting = app[p].quitting
  <2> DEFINE a == app[p]
  <2>1. Good(a) /\ a \in App
    BY DEF LifeInv, LifeTypeOK, Fine
  <2>2. /\ Follows(a, [a EXCEPT !.icon = NoHwnd]) /\ [a EXCEPT !.icon = NoHwnd].engine = a.engine
        /\ [a EXCEPT !.icon = NoHwnd].again = a.again
        /\ [a EXCEPT !.icon = NoHwnd].quitting = a.quitting
    BY <2>1 DEF App, Good, Follows, NoHwnd
  <2>3. Follows(a, AddTo(a, a.trayWin, TRUE)) /\ AddTo(a, a.trayWin, TRUE).engine = a.engine
    BY <2>1, AddToFollows DEF App
  <2>4. /\ AddTo(a, a.trayWin, TRUE).again = a.again
        /\ AddTo(a, a.trayWin, TRUE).quitting = a.quitting
    BY <2>1 DEF AddTo, App
  <2>5. Follows(a, a)
    BY <2>1 DEF Follows
  <2>6. app'[p] \in {a, [a EXCEPT !.icon = NoHwnd], AddTo(a, a.trayWin, TRUE)}
    BY DEF ShellDies, ShellReturns, AmeToggles
  <2> QED
    BY <2>2, <2>3, <2>4, <2>5, <2>6
<1>3. app' \in [Procs -> App]
  <2>1. app' = [p \in Procs |-> app'[p]]
    BY DEF ShellDies, ShellReturns, AmeToggles, LifeInv, LifeTypeOK
  <2>2. \A p \in Procs : app'[p] \in App
    BY <1>2 DEF Follows, Good
  <2> QED
    BY <2>1, <2>2
<1>4. LifeTypeOK'
  BY <1>1, <1>3 DEF LifeInv, LifeTypeOK
<1>5. ASSUME NEW p \in Procs PROVE Fine(Phase(p)', (mutex = p)', app'[p])
  <2>1. Fine(Phase(p), mutex = p, app[p])
    BY DEF LifeInv
  <2>2. Phase(p)' = Phase(p) /\ mutex' = mutex
    BY <1>1 DEF Phase
  <2> QED
    BY <1>2, <2>1, <2>2 DEF Fine, Follows
<1> QED
  BY <1>4, <1>5 DEF LifeInv

-----------------------------------------------------------------------------
(* Steps in which a process comes or goes *)

\* Before the mutex is asked for.
LEMMA EarlySteps ==
  ASSUME LifeInv, None \notin Procs, NEW p \in Procs,
         \/ \E cmd \in Commands, job \in BOOLEAN : Launch(p, cmd, job)
         \/ \E job \in BOOLEAN : Relaunch(p, job)
         \/ Headless(p) \/ GivesUp(p)
  PROVE  LifeInv'
<1>1. /\ LifeTypeOK /\ procs[p] \in Process /\ app = [app EXCEPT ![p] = app[p]]
      /\ Fine(Phase(p), mutex = p, app[p])
  BY DEF LifeInv, LifeTypeOK
<1>2. UNCHANGED <<mutex, app, quitWithAme, world>> /\ Phase(p) \in {"none", "new", "forwarding"}
  BY DEF Launch, Relaunch, Headless, GivesUp, Stays
<1>3. SUFFICES \E r \in Process : r.phase \in {"new", "gone"} /\ procs' = [procs EXCEPT ![p] = r]
  <2>1. PICK r \in Process : r.phase \in {"new", "gone"} /\ procs' = [procs EXCEPT ![p] = r]
    BY <1>3
  <2>2. Fine(r.phase, mutex' = p, app[p])
    BY <1>1, <1>2, <2>1 DEF Fine
  <2> QED
    BY <1>1, <1>2, <2>1, <2>2, StepKeeps
<1>4. ASSUME NEW cmd \in Commands, NEW job \in BOOLEAN, Launch(p, cmd, job)
      PROVE  \E r \in Process : r.phase \in {"new", "gone"} /\ procs' = [procs EXCEPT ![p] = r]
  <2>1. [phase |-> "new", cmd |-> cmd, job |-> job, relaunched |-> FALSE] \in Process
    BY DEF Process, Phases
  <2> QED
    BY <1>4, <2>1 DEF Launch
<1>5. ASSUME NEW job \in BOOLEAN, Relaunch(p, job)
      PROVE  \E r \in Process : r.phase \in {"new", "gone"} /\ procs' = [procs EXCEPT ![p] = r]
  <2> DEFINE cmd == IF procs[p].cmd = "startup" THEN "plain" ELSE procs[p].cmd
             r == [phase |-> "new", cmd |-> cmd, job |-> job, relaunched |-> TRUE]
  <2>1. r \in Process /\ r.phase = "new"
    BY <1>1 DEF Process, Phases, Commands
  <2>2. procs' = [procs EXCEPT ![p] = r]
    BY <1>5 DEF Relaunch
  <2> HIDE DEF cmd, r
  <2> QED
    BY <2>1, <2>2
<1>6. CASE Headless(p) \/ GivesUp(p)
  BY <1>1, <1>6, SetType DEF Headless, GivesUp, Phases
<1> QED
  BY <1>4, <1>5, <1>6

\* The mutex goes to a process when nobody has it.
LEMMA AcquireKeeps ==
  ASSUME LifeInv, None \notin Procs, NEW p \in Procs, NEW fails \in BOOLEAN, Acquire(p, fails)
  PROVE  LifeInv'
<1>1. /\ LifeTypeOK /\ Phase(p) = "new" /\ Fine("new", mutex = p, app[p]) /\ app[p] \in App
      /\ app = [app EXCEPT ![p] = app[p]] /\ UNCHANGED <<quitWithAme, world>>
  BY DEF LifeInv, LifeTypeOK, Acquire, Stays
<1>2. CASE fails
  <2> DEFINE a == [app[p] EXCEPT !.bare = TRUE]
  <2>1. PICK r \in Process : r.phase = "starting" /\ procs' = [procs EXCEPT ![p] = r]
    BY <1>1, <1>2, SetType DEF Acquire, Phases
  <2>2. Fine("starting", mutex' = p, a)
    BY <1>1 DEF Fine, Good, App
  <2>3. app' = [app EXCEPT ![p] = a] /\ mutex' = mutex
    BY <1>1, <1>2 DEF Acquire
  <2> HIDE DEF a
  <2> QED
    BY <1>1, <2>1, <2>2, <2>3, StepKeeps
<1>3. CASE ~fails /\ mutex = None
  <2>1. PICK r \in Process : r.phase = "starting" /\ procs' = [procs EXCEPT ![p] = r]
    BY <1>1, <1>3, SetType DEF Acquire, Phases
  <2>2. mutex' = p /\ app' = [app EXCEPT ![p] = app[p]]
    BY <1>1, <1>3 DEF Acquire
  <2>3. Fine("starting", mutex' = p, app[p])
    BY <1>1, <2>2 DEF Fine
  <2> QED
    BY <1>1, <1>3, <2>1, <2>2, <2>3, StepKeeps
<1>4. CASE ~fails /\ mutex # None
  <2>1. PICK r \in Process : r.phase = "forwarding" /\ procs' = [procs EXCEPT ![p] = r]
    BY <1>1, <1>4, SetType DEF Acquire, Phases
  <2>2. mutex' = mutex /\ app' = [app EXCEPT ![p] = app[p]]
    BY <1>1, <1>4 DEF Acquire
  <2>3. Fine("forwarding", mutex' = p, app[p])
    BY <1>1, <2>2 DEF Fine
  <2> QED
    BY <1>1, <2>1, <2>2, <2>3, StepKeeps
<1> QED
  BY <1>2, <1>3, <1>4

LEMMA StartsKeeps ==
  ASSUME LifeInv, None \notin Procs, NEW p \in Procs, NEW minimized \in BOOLEAN,
         NEW onLaunch \in BOOLEAN, NEW receives \in BOOLEAN,
         Starts(p, minimized, onLaunch, receives)
  PROVE  LifeInv'
<1> DEFINE b == Begun(app[p], receives)
<1>1. /\ LifeTypeOK /\ Phase(p) = "starting" /\ Fine("starting", mutex = p, app[p])
      /\ world \in World /\ UNCHANGED <<mutex, quitWithAme, world>>
  BY DEF LifeInv, LifeTypeOK, Starts
<1>2. PICK r \in Process : r.phase = "running" /\ procs' = [procs EXCEPT ![p] = r]
  BY <1>1, SetType DEF Starts, Phases
<1>3. Good(b) /\ b.bare = app[p].bare
  BY <1>1, BegunGood DEF Fine
<1>4. PICK a \in {b, Show(b)} : app' = [app EXCEPT ![p] = a]
  BY DEF Starts
<1> HIDE DEF b
<1>5. Good(a) /\ a.bare = app[p].bare
  BY <1>3, ShowFollows DEF Follows
<1>6. Fine("running", mutex' = p, a)
  BY <1>1, <1>5 DEF Fine
<1> QED
  BY <1>1, <1>2, <1>4, <1>6, StepKeeps

LEMMA LoopEndsKeeps ==
  ASSUME LifeInv, None \notin Procs, NEW p \in Procs, LoopEnds(p)
  PROVE  LifeInv'
<1> DEFINE e == IF app[p].quitting THEN app[p].engine ELSE "off"
           b == Remains(app[p], e)
           c == [b EXCEPT !.mux = b.mux /\ b.engine = "on"]
<1>1. /\ LifeTypeOK /\ Phase(p) = "running" /\ Fine("running", mutex = p, app[p])
      /\ app[p] \in App /\ UNCHANGED <<mutex, quitWithAme, world>>
  BY DEF LifeInv, LifeTypeOK, LoopEnds, Becomes, Runs
<1>2. PICK r \in Process : r.phase = "closing" /\ procs' = [procs EXCEPT ![p] = r]
  BY <1>1, SetType DEF LoopEnds, Phases
<1>3. e \in {"off", "on"} /\ (e = "on" => app[p].again)
  BY <1>1 DEF Fine, Good, App
<1>4. app' = [app EXCEPT ![p] = [b EXCEPT !.mux = @ /\ b.engine = "on"]]
  BY DEF LoopEnds, Becomes
<1> HIDE DEF e
<1>5. Follows(app[p], b) /\ (b.engine = "on" => b.again)
  BY <1>1, <1>3, RemainsGood DEF Fine
<1> HIDE DEF b
<1>6. app' = [app EXCEPT ![p] = c] /\ Follows(app[p], c) /\ (c.engine = "on" => c.again)
  BY <1>4, <1>5 DEF Follows, Good, App
<1> HIDE DEF c
<1>7. Fine("closing", mutex' = p, c)
  BY <1>1, <1>6 DEF Fine, Follows
<1> QED
  BY <1>1, <1>2, <1>6, <1>7, StepKeeps

LEMMA MuxTogglesKeeps ==
  ASSUME LifeInv, None \notin Procs, NEW p \in Procs, MuxToggles(p)
  PROVE  LifeInv'
<1> DEFINE a == [app[p] EXCEPT !.mux = ~app[p].mux]
<1>1. /\ LifeTypeOK /\ procs[p] \in Process /\ procs' = [procs EXCEPT ![p] = procs[p]]
      /\ Fine(procs[p].phase, mutex = p, app[p]) /\ app[p] \in App
      /\ UNCHANGED <<mutex, quitWithAme, world>>
  BY DEF LifeInv, LifeTypeOK, MuxToggles, Phase
<1>2. app' = [app EXCEPT ![p] = a]
  BY DEF MuxToggles
<1>3. Fine(procs[p].phase, mutex' = p, a)
  BY <1>1 DEF Fine, Good, App
<1> HIDE DEF a
<1> QED
  BY <1>1, <1>2, <1>3, StepKeeps

\* The ways out of the mutex: nothing is left of the App, or only the receiver
\* went, or the mutex after it.
LEMMA LeavesKeeps ==
  ASSUME LifeInv, None \notin Procs, NEW p \in Procs, Fails(p) \/ Released(p) \/ Dies(p)
  PROVE  LifeInv'
<1>1. /\ LifeTypeOK /\ Fine(Phase(p), mutex = p, app[p]) /\ app[p] \in App
      /\ procs[p] \in Process /\ procs = [procs EXCEPT ![p] = procs[p]]
      /\ app = [app EXCEPT ![p] = app[p]] /\ UNCHANGED <<quitWithAme, world>>
  BY DEF LifeInv, LifeTypeOK, Fails, Released, Dies
<1>2. ASSUME Set(p, "gone"), app' = [app EXCEPT ![p] = NoApp],
             \/ mutex' = mutex
             \/ mutex \in {None, p} /\ mutex' \in {None, p}
      PROVE  LifeInv'
  <2>1. PICK r \in Process : r.phase = "gone" /\ procs' = [procs EXCEPT ![p] = r]
    BY <1>1, <1>2, SetType DEF Phases
  <2>2. Fine("gone", mutex' = p, NoApp)
    BY NoAppGood DEF Fine
  <2> QED
    BY <1>1, <1>2, <2>1, <2>2, StepKeeps
<1>3. CASE Fails(p) \/ Dies(p)
  BY <1>2, <1>3 DEF Fails, Dies, Without
<1>4. CASE Released(p)
  <2>1. CASE app[p].receives
    <3> DEFINE a == [app[p] EXCEPT !.receives = FALSE]
    <3>1. app' = [app EXCEPT ![p] = a] /\ UNCHANGED <<procs, mutex>>
      BY <1>4, <2>1 DEF Released
    <3>2. Fine(procs[p].phase, mutex' = p, a)
      BY <1>1, <3>1 DEF Fine, Good, App, Phase
    <3> HIDE DEF a
    <3> QED
      BY <1>1, <3>1, <3>2, StepKeeps
  <2>2. CASE ~app[p].receives /\ mutex = p
    <3>1. mutex' = None /\ UNCHANGED <<procs, app>> /\ Phase(p) = "closing"
      BY <1>4, <2>2 DEF Released
    <3>2. Fine(procs[p].phase, mutex' = p, app[p])
      BY <1>1, <2>2, <3>1 DEF Fine, Phase
    <3> QED
      BY <1>1, <2>2, <3>1, <3>2, StepKeeps
  <2>3. CASE ~app[p].receives /\ mutex # p
    BY <1>2, <1>4, <2>3 DEF Released
  <2> QED
    BY <2>1, <2>2, <2>3
<1> QED
  BY <1>3, <1>4

-----------------------------------------------------------------------------

LEMMA LifeInitInv == LifeInit => LifeInv
<1> SUFFICES ASSUME LifeInit PROVE LifeInv
  OBVIOUS
<1>1. Idle("none") \in Process /\ Idle("none").phase = "none"
  BY DEF Idle, Process, Phases, Commands
<1>2. LifeTypeOK
  BY <1>1, NoAppGood DEF LifeInit, LifeTypeOK, World, Good
<1>3. \A p \in Procs : Fine(Phase(p), mutex = p, app[p])
  BY <1>1, NoAppGood DEF LifeInit, Fine, Phase
<1> QED
  BY <1>2, <1>3 DEF LifeInv

LEMMA LifeNextInv == None \notin Procs /\ LifeInv /\ [LifeNext]_lifeVars => LifeInv'
<1> SUFFICES ASSUME None \notin Procs, LifeInv, [LifeNext]_lifeVars PROVE LifeInv'
  OBVIOUS
<1>1. CASE UNCHANGED lifeVars
  BY <1>1 DEF lifeVars, LifeInv, LifeTypeOK, Phase
<1>2. CASE \E p \in Procs : \E a, b, c \in BOOLEAN : Starts(p, a, b, c)
  BY <1>2, StartsKeeps
<1>3. CASE \E p \in Procs : LoopEnds(p) \/ MuxToggles(p) \/ \E to \in Procs : Forwards(p, to)
  BY <1>3, LoopEndsKeeps, MuxTogglesKeeps, ForwardsKeeps
<1>4. CASE \E p \in Procs : \E fails \in BOOLEAN : Acquire(p, fails)
  BY <1>4, AcquireKeeps
<1> QED
  BY <1>1, <1>2, <1>3, <1>4, LoopSteps, EarlySteps, LeavesKeeps, OutsideSteps DEF LifeNext

LEMMA InvOneEngine == LifeInv => OneEngine
<1> SUFFICES ASSUME LifeInv PROVE OneEngine
  OBVIOUS
<1>1. \A p \in Procs : Fine(Phase(p), mutex = p, app[p])
  BY DEF LifeInv
<1>2. ASSUME NEW p \in Procs, NEW q \in Procs, p # q, app[p].engine = "on", app[q].engine = "on"
      PROVE  \E r \in {p, q} : app[r].bare \/ (Phase(r) = "closing" /\ app[r].again)
  BY <1>1, <1>2 DEF Fine
<1>3. \A p \in Procs : app[p].receives => mutex = p \/ app[p].bare
  BY <1>1 DEF Fine
<1> QED
  BY <1>2, <1>3 DEF OneEngine

(* Of all the processes started, by whom and however often, two run        *)
(* engines at once only where CreateMutexW had failed for one of them, or  *)
(* where a window made again had started the engine of one after its quit; *)
(* and what forwarded commands reach is the owner of the mutex or goes     *)
(* without one (main.cpp, SingleInstance.cpp).  That no process is called  *)
(* "none" is all it assumes.                                               *)
THEOREM OneInstance ==
  ASSUME None \notin Procs
  PROVE  LifeSpec => []OneEngine
<1>1. LifeInit => LifeInv
  BY LifeInitInv
<1>2. LifeInv /\ [LifeNext]_lifeVars => LifeInv'
  BY LifeNextInv
<1>3. LifeInv => OneEngine
  BY InvOneEngine
<1> QED
  BY <1>1, <1>2, <1>3, PTL DEF LifeSpec

-----------------------------------------------------------------------------
View == [max : Nat, off : Int, to : Int, anim : BOOLEAN, velocity : Int,
         inertia : BOOLEAN, over : BOOLEAN, since : {"live", "latched", "long"},
         ticks : BOOLEAN, drag : BOOLEAN, bar : {"hidden", "rest", "full"},
         timer : BOOLEAN, hover : BOOLEAN, reduced : BOOLEAN, pulled : BOOLEAN]

(* The view.  ScrollRests speaks of a view nothing moves any more; what it *)
(* comes from is what a view may look like on the way: a spring never ends *)
(* before the content begins, and only a drag or a thumb let go out there  *)
(* sends it beyond its end; inertia has a speed and the frames to lose it; *)
(* and a view that stands out of range has the frames of a gesture's       *)
(* speed.                                                                  *)
Free(v) == ~v.drag /\ ~v.pulled
Resting(v) ==
    /\ v.anim => v.to >= 0
    /\ v.inertia => v.velocity # 0 /\ v.ticks /\ ~v.anim /\ ~v.drag
    /\ v.anim /\ Free(v) => v.to <= v.max
    /\ ~v.anim /\ Free(v) /\ ~InRange(v) => v.velocity # 0 /\ v.ticks

GoodView(v) == v \in View /\ Resting(v)

LEMMA ClampInRange ==
  ASSUME NEW lo \in Int, NEW hi \in Int, lo <= hi, NEW z \in Int
  PROVE  Clamp(z, lo, hi) \in lo .. hi
BY DEF Clamp

LEMMA ClampInView ==
  ASSUME NEW v \in View, NEW z \in Int
  PROVE  Clamp(z, 0, v.max) \in 0 .. v.max /\ Clamp(z, 0, v.max) \in Int
<1>1. v.max \in Nat
  BY DEF View
<1> QED
  BY <1>1 DEF Clamp

\* What a change of the offset leaves alone, and what GoodView depends on.
KeptView(v, w) == /\ w.max = v.max /\ w.velocity = v.velocity /\ w.inertia = v.inertia
              /\ w.ticks = v.ticks /\ w.drag = v.drag /\ w.pulled = v.pulled
Alike(v, w) == KeptView(v, w) /\ w.off = v.off /\ w.to = v.to /\ w.anim = v.anim

LEMMA AlikeGood ==
  ASSUME NEW v, GoodView(v), NEW w \in View, Alike(v, w)
  PROVE  GoodView(w)
BY DEF GoodView, Resting, Free, InRange, Alike, KeptView

LEMMA AtFields ==
  ASSUME NEW v \in View, NEW o \in Int
  PROVE  /\ At(v, o) \in View /\ KeptView(v, At(v, o))
         /\ At(v, o).off = o /\ At(v, o).to = o /\ At(v, o).anim = FALSE
BY DEF At, View, KeptView

LEMMA ToFields ==
  ASSUME NEW v \in View, NEW o \in Int
  PROVE  /\ To(v, o) \in View /\ KeptView(v, To(v, o))
         /\ To(v, o).to = o /\ To(v, o).anim = ~v.reduced
         /\ To(v, o).off = IF v.reduced THEN o ELSE v.off
<1>1. CASE v.reduced
  BY <1>1 DEF To, At, View, KeptView
<1>2. CASE ~v.reduced
  BY <1>2 DEF To, At, View, KeptView
<1> QED
  BY <1>1, <1>2

LEMMA CalmFields ==
  ASSUME NEW v \in View
  PROVE  Calm(v) \in View /\ Calm(v).max = v.max /\ Calm(v).inertia = FALSE /\ Calm(v).off = v.off
<1> DEFINE a == [v EXCEPT !.inertia = FALSE]
           b == [a EXCEPT !.over = FALSE]
           c == [b EXCEPT !.velocity = 0]
<1>1. a \in View /\ a.max = v.max /\ a.inertia = FALSE /\ a.off = v.off
  BY DEF View
<1> HIDE DEF a
<1>2. b \in View /\ b.max = v.max /\ b.inertia = FALSE /\ b.off = v.off
  BY <1>1 DEF View
<1> HIDE DEF b
<1>3. c \in View /\ c.max = v.max /\ c.inertia = FALSE /\ c.off = v.off
  BY <1>2 DEF View
<1>4. Calm(v) = c
  BY DEF Calm, a, b
<1> HIDE DEF c
<1> QED
  BY <1>3, <1>4

LEMMA PulledFields ==
  ASSUME NEW v \in View, NEW b \in BOOLEAN
  PROVE  LET w == [v EXCEPT !.pulled = b]
         IN  /\ w \in View /\ w.max = v.max /\ w.velocity = v.velocity /\ w.inertia = v.inertia
             /\ w.ticks = v.ticks /\ w.drag = v.drag /\ w.pulled = b
             /\ w.off = v.off /\ w.to = v.to /\ w.anim = v.anim
BY DEF View

LEMMA OverGood ==
  ASSUME NEW v, GoodView(v), NEW b \in BOOLEAN
  PROVE  LET w == [v EXCEPT !.over = b]
         IN  GoodView(w) /\ w.ticks = v.ticks /\ w.velocity = v.velocity
<1>1. [v EXCEPT !.over = b] \in View /\ Alike(v, [v EXCEPT !.over = b])
  BY DEF GoodView, View, Alike, KeptView
<1> QED
  BY <1>1, AlikeGood DEF Alike, KeptView

LEMMA ShowBarGood ==
  ASSUME NEW v, GoodView(v)
  PROVE  GoodView(ShowBar(v))
<1>1. ShowBar(v) \in View /\ Alike(v, ShowBar(v))
  BY DEF GoodView, ShowBar, View, Alike, KeptView
<1> QED
  BY <1>1, AlikeGood

\* To a place in the range, at once or by a spring.
LEMMA AtInRange ==
  ASSUME NEW v \in View, ~v.inertia, NEW c \in 0 .. v.max
  PROVE  GoodView(At(v, c))
<1>1. v.max \in Nat /\ c \in Int
  BY DEF View
<1> QED
  BY <1>1, AtFields DEF KeptView, GoodView, Resting, Free, InRange

LEMMA ToInRange ==
  ASSUME NEW v \in View, ~v.inertia, NEW c \in 0 .. v.max
  PROVE  GoodView(To(v, c))
<1>1. v.max \in Nat /\ c \in Int /\ c >= 0 /\ c <= v.max
  BY DEF View
<1>2. /\ To(v, c) \in View /\ KeptView(v, To(v, c)) /\ To(v, c).to = c
      /\ To(v, c).anim = ~v.reduced /\ To(v, c).off = IF v.reduced THEN c ELSE v.off
  BY <1>1, ToFields
<1> HIDE DEF To
<1> QED
  BY <1>1, <1>2 DEF KeptView, GoodView, Resting, Free, InRange

\* The same where it is also said that the thumb is let go no more.
LEMMA AtAndLetGo ==
  ASSUME NEW v \in View, ~v.inertia, NEW c \in 0 .. v.max
  PROVE  GoodView([At(v, c) EXCEPT !.pulled = FALSE])
<1> DEFINE a == At(v, c)
           w == [a EXCEPT !.pulled = FALSE]
<1>1. v.max \in Nat /\ c \in Int
  BY DEF View
<1>2. a \in View /\ KeptView(v, a) /\ a.off = c /\ ~a.anim
  BY <1>1, AtFields
<1> HIDE DEF a
<1>3. w \in View /\ w.max = v.max /\ w.inertia = v.inertia /\ w.off = c /\ ~w.anim
  BY <1>2, PulledFields DEF KeptView
<1> HIDE DEF w
<1>4. GoodView(w)
  BY <1>1, <1>3 DEF GoodView, Resting, Free, InRange
<1> QED
  BY <1>4 DEF w, a

LEMMA ToAndLetGo ==
  ASSUME NEW v \in View, ~v.inertia, NEW c \in 0 .. v.max
  PROVE  GoodView([To(v, c) EXCEPT !.pulled = FALSE])
<1> DEFINE a == To(v, c)
           w == [a EXCEPT !.pulled = FALSE]
<1>1. v.max \in Nat /\ c \in Int /\ c >= 0 /\ c <= v.max
  BY DEF View
<1>2. a \in View /\ KeptView(v, a) /\ a.to = c /\ (~a.anim => a.off = c)
  BY <1>1, ToFields
<1> HIDE DEF a
<1>3. w \in View /\ w.max = v.max /\ w.inertia = v.inertia /\ w.to = c /\ (~w.anim => w.off = c)
  BY <1>2, PulledFields, ZenonT(60) DEF KeptView
<1> HIDE DEF w
<1>4. GoodView(w)
  BY <1>1, <1>3 DEF GoodView, Resting, Free, InRange
<1> QED
  BY <1>4 DEF w, a

(* The settling makes good every view in which inertia has what it needs   *)
(* and no spring ends before the content.  It keeps the frames coming.     *)
LEMMA ClampAndSettleGood ==
  ASSUME NEW v \in View,
         v.inertia => v.velocity # 0 /\ v.ticks /\ ~v.anim /\ ~v.drag,
         v.anim => v.to >= 0
  PROVE  /\ GoodView(ClampAndSettle(v)) /\ ClampAndSettle(v).ticks = v.ticks
         /\ ClampAndSettle(v).velocity = v.velocity
<1> DEFINE c == Clamp(v.to, 0, v.max)
           e == Clamp(v.off, 0, v.max)
<1>0. v.max \in Nat /\ v.to \in Int /\ v.off \in Int
  BY DEF View
<1>1. c \in 0 .. v.max /\ e \in 0 .. v.max /\ c \in Int /\ e \in Int
  BY <1>0, ClampInView
<1> HIDE DEF c, e
<1>2. CASE v.drag \/ v.inertia
  BY <1>2, <1>0 DEF ClampAndSettle, GoodView, Resting, Free
<1>3. CASE ~(v.drag \/ v.inertia) /\ v.anim
  <2>1. CASE v.to \in 0 .. v.max
    <3>1. ClampAndSettle(v) = v
      BY <1>3, <2>1 DEF ClampAndSettle
    <3> QED
      BY <1>0, <1>3, <2>1, <3>1 DEF GoodView, Resting, Free
  <2>2. CASE v.to \notin 0 .. v.max
    <3>1. ClampAndSettle(v) = [To(v, c) EXCEPT !.over = v.over /\ ~v.reduced]
      BY <1>3, <2>2 DEF ClampAndSettle, c
    <3>2. GoodView(To(v, c)) /\ To(v, c).ticks = v.ticks /\ To(v, c).velocity = v.velocity
      BY <1>1, <1>3, ToInRange, ToFields DEF KeptView
    <3>3. (v.over /\ ~v.reduced) \in BOOLEAN
      OBVIOUS
    <3> QED
      BY <3>1, <3>2, <3>3, OverGood
  <2> QED
    BY <2>1, <2>2
<1>4. CASE ~(v.drag \/ v.inertia) /\ ~v.anim
  <2>1. CASE InRange(v)
    <3>1. ClampAndSettle(v) = [v EXCEPT !.over = FALSE]
      BY <1>4, <2>1 DEF ClampAndSettle
    <3>2. GoodView(v)
      BY <1>4, <2>1 DEF GoodView, Resting
    <3> QED
      BY <3>1, <3>2, OverGood
  <2>2. CASE ~InRange(v)
    <3>1. ClampAndSettle(v) = [To(v, e) EXCEPT !.over = ~v.reduced]
      BY <1>4, <2>2 DEF ClampAndSettle, Settling, e
    <3>2. GoodView(To(v, e)) /\ To(v, e).ticks = v.ticks /\ To(v, e).velocity = v.velocity
      BY <1>1, <1>4, ToInRange, ToFields DEF KeptView
    <3>3. (~v.reduced) \in BOOLEAN
      OBVIOUS
    <3> QED
      BY <3>1, <3>2, <3>3, OverGood
  <2> QED
    BY <2>1, <2>2
<1> QED
  BY <1>2, <1>3, <1>4

LEMMA ScrolledToGood ==
  ASSUME NEW v \in View, NEW y \in Int, NEW animated \in BOOLEAN
  PROVE  GoodView(ScrolledTo(v, y, animated))
<1> DEFINE o == Clamp(y, 0, v.max)
           w == [Calm(v) EXCEPT !.pulled = FALSE]
<1>1. w \in View /\ w.max = v.max /\ ~w.inertia
  BY CalmFields, PulledFields, ZenonT(60)
<1>2. o \in 0 .. v.max
  BY ClampInView
<1>3. ScrolledTo(v, y, animated) = ShowBar(IF animated THEN To(w, o) ELSE At(w, o))
  BY DEF ScrolledTo
<1> HIDE DEF o, w
<1>4. GoodView(To(w, o)) /\ GoodView(At(w, o))
  BY <1>1, <1>2, AtInRange, ToInRange
<1> QED
  BY <1>3, <1>4, ShowBarGood

LEMMA ScrollInitGood == ASSUME ScrollInit PROVE GoodView(scroll)
BY DEF ScrollInit, GoodView, Resting, Free, InRange, View

LEMMA LayoutGood ==
  ASSUME NEW m \in Nat, GoodView(scroll), Layout(m) PROVE GoodView(scroll')
<1> DEFINE w == [scroll EXCEPT !.max = m, !.pulled = FALSE]
           v == ClampAndSettle(w)
           x == [v EXCEPT !.bar = "hidden"]
<1>1. w \in View
  BY DEF GoodView, View
<1>2. /\ w.inertia = scroll.inertia /\ w.velocity = scroll.velocity /\ w.ticks = scroll.ticks
      /\ w.anim = scroll.anim /\ w.drag = scroll.drag /\ w.to = scroll.to
  BY DEF GoodView, View
<1>3. \/ scroll' = ShowBar(v) \/ scroll' = x \/ scroll' = v
  BY DEF Layout
<1> HIDE DEF w
<1>4. GoodView(v)
  BY <1>1, <1>2, ClampAndSettleGood DEF GoodView, Resting
<1> HIDE DEF v
<1>5. x \in View /\ Alike(v, x)
  BY <1>4 DEF GoodView, View, Alike, KeptView
<1>6. GoodView(x)
  BY <1>4, <1>5, AlikeGood
<1> QED
  BY <1>3, <1>4, <1>6, ShowBarGood

LEMMA ProgramGood ==
  ASSUME GoodView(scroll), Program PROVE GoodView(scroll')
<1>0. scroll \in View /\ 0 .. MaxRange \subseteq Nat
  BY ScrollAssumption DEF GoodView
<1>1. ASSUME NEW m \in 0 .. MaxRange, Layout(m) PROVE GoodView(scroll')
  BY <1>0, <1>1, LayoutGood
<1>2. ASSUME NEW y \in 0 .. MaxRange, NEW b \in BOOLEAN, ScrollTo(y, b) PROVE GoodView(scroll')
  BY <1>0, <1>2, ScrolledToGood DEF ScrollTo
<1>3. ASSUME NEW dy \in Steps, NEW b \in BOOLEAN, ScrollBy(dy, b) PROVE GoodView(scroll')
  <2>1. Heads(scroll) + dy \in Int
    BY <1>0 DEF Heads, View, Steps
  <2> QED
    BY <1>0, <1>3, <2>1, ScrolledToGood DEF ScrollBy
<1>4. ASSUME NEW y \in 0 .. MaxRange, ScrollIntoView(y) PROVE GoodView(scroll')
  <2>1. scroll' = ScrolledTo(scroll, y, TRUE) /\ y \in Int
    BY <1>4 DEF ScrollIntoView
  <2> QED
    BY <1>0, <2>1, ScrolledToGood
<1>5. ASSUME SetContent PROVE GoodView(scroll')
  <2> DEFINE c == Calm(scroll)
  <2>1. c \in View /\ c.inertia = FALSE /\ c.max = scroll.max
    BY <1>0, CalmFields
  <2>2. scroll' = [At(c, 0) EXCEPT !.pulled = FALSE]
    BY <1>5 DEF SetContent
  <2> HIDE DEF c
  <2>3. 0 \in 0 .. c.max
    BY <2>1 DEF View
  <2>4. GoodView([At(c, 0) EXCEPT !.pulled = FALSE])
    BY <2>1, <2>3, AtAndLetGo
  <2> QED
    BY <2>2, <2>4
<1> QED
  BY <1>1, <1>2, <1>3, <1>4, <1>5 DEF Program

LEMMA NotchGood ==
  ASSUME NEW by \in Steps, GoodView(scroll), Notch(by) PROVE GoodView(scroll')
<1> DEFINE v == scroll
           base == IF v.anim THEN v.to ELSE Clamp(v.off, 0, v.max)
           o == Clamp(base + by, 0, v.max)
<1>1. scroll' = ShowBar([To(Calm(scroll), o) EXCEPT !.pulled = FALSE])
  BY DEF Notch
<1>2. scroll \in View /\ scroll.off \in Int /\ scroll.to \in Int
  BY DEF GoodView, View
<1>3. Clamp(scroll.off, 0, scroll.max) \in Int
  BY <1>2, ClampInView
<1>4. base + by \in Int
  BY <1>2, <1>3 DEF Steps
<1> HIDE DEF base
<1>5. o \in 0 .. Calm(scroll).max
  BY <1>2, <1>4, ClampInView, CalmFields
<1> HIDE DEF o
<1> QED
  BY <1>1, <1>2, <1>5, CalmFields, ToAndLetGo, ShowBarGood

LEMMA PreciseGood ==
  ASSUME NEW by \in Steps, NEW speed \in Steps, GoodView(scroll), Precise(by, speed)
  PROVE  GoodView(scroll')
<1> DEFINE v == scroll
           o == Clamp(v.off + by, -Page, v.max + Page)
           a == At(v, o)
           b == speed = 0 /\ o \notin 0 .. v.max
           w == [a EXCEPT !.velocity = speed, !.inertia = FALSE, !.over = FALSE,
                          !.since = "live", !.ticks = TRUE, !.pulled = b]
<1>1. v \in View /\ v.off + by \in Int /\ speed \in Int
  BY DEF GoodView, View, Precise, Steps
<1>2. scroll' = ShowBar(w)
  BY DEF Precise
<1>3. o \in Int
  BY <1>1, ScrollAssumption DEF View, Clamp
<1> HIDE DEF o
<1>4. a \in View /\ ~a.anim /\ a.off = o /\ a.max = v.max
  BY <1>1, <1>3, AtFields DEF KeptView
<1> HIDE DEF a
<1>5. b \in BOOLEAN /\ (b \/ o \in 0 .. v.max \/ speed # 0)
  OBVIOUS
<1> HIDE DEF b
<1>6. w \in View
  BY <1>1, <1>4, <1>5 DEF View
<1>7. /\ w.velocity = speed /\ ~w.inertia /\ w.ticks /\ ~w.anim
      /\ w.off = o /\ w.max = v.max /\ w.pulled = b
  BY <1>1, <1>4 DEF View
<1> HIDE DEF w
<1>8. GoodView(w)
  BY <1>5, <1>6, <1>7 DEF GoodView, Resting, Free, InRange
<1> QED
  BY <1>2, <1>8, ShowBarGood

LEMMA GrabGood == ASSUME GoodView(scroll), Grab PROVE GoodView(scroll')
<1> DEFINE o == Clamp(scroll.off, 0, scroll.max)
           c == Calm(scroll)
           a == At(c, o)
           w == [a EXCEPT !.drag = TRUE, !.pulled = FALSE]
<1>1. scroll' = ShowBar(w)
  BY DEF Grab
<1>2. scroll \in View /\ scroll.off \in Int
  BY DEF GoodView, View
<1>3. o \in Int
  BY <1>2, ClampInView
<1>4. c \in View /\ ~c.inertia
  BY <1>2, CalmFields
<1> HIDE DEF o, c
<1>5. a \in View /\ ~a.anim /\ ~a.inertia
  BY <1>3, <1>4, AtFields DEF KeptView
<1> HIDE DEF a
<1>6. w \in View
  BY <1>5 DEF View
<1>7. ~w.inertia /\ w.drag /\ ~w.anim
  BY <1>5 DEF View
<1> HIDE DEF w
<1>8. GoodView(w)
  BY <1>6, <1>7 DEF GoodView, Resting, Free
<1> QED
  BY <1>1, <1>8, ShowBarGood

LEMMA DragGood == ASSUME NEW o \in 0 .. MaxRange, GoodView(scroll), Drag(o) PROVE GoodView(scroll')
<1>1. scroll \in View /\ ~scroll.inertia /\ o \in 0 .. scroll.max
  BY DEF GoodView, Resting, Drag
<1> QED
  BY <1>1, AtAndLetGo, ShowBarGood DEF Drag

LEMMA ReleaseGood == ASSUME GoodView(scroll), Release PROVE GoodView(scroll')
<1> DEFINE b == ~InRange(scroll) \/ scroll.to > scroll.max
           w == [scroll EXCEPT !.drag = FALSE, !.pulled = b]
<1>1. scroll' = ShowBar(w)
  BY DEF Release
<1>2. w \in View
  BY DEF GoodView, View
<1>3. /\ w.drag = FALSE /\ w.pulled = b /\ w.inertia = scroll.inertia /\ w.anim = scroll.anim
      /\ w.to = scroll.to /\ w.off = scroll.off /\ w.max = scroll.max
  BY DEF GoodView, View
<1>4. scroll.drag /\ scroll.to \in Int /\ scroll.max \in Int
  BY DEF Release, GoodView, View
<1> HIDE DEF w
<1>5. CASE b
  BY <1>1, <1>2, <1>3, <1>4, <1>5, ShowBarGood DEF GoodView, Resting, Free
<1>6. CASE ~b
  <2>1. InRange(scroll) /\ scroll.to <= scroll.max
    BY <1>4, <1>6
  <2>2. ~w.pulled /\ InRange(w) /\ w.to <= w.max
    BY <1>3, <1>6, <2>1 DEF InRange
  <2> QED
    BY <1>1, <1>2, <1>3, <1>4, <2>2, ShowBarGood DEF GoodView, Resting, Free
<1> QED
  BY <1>5, <1>6

LEMMA HoverGood ==
  ASSUME GoodView(scroll), NEW b \in BOOLEAN PROVE GoodView([scroll EXCEPT !.hover = b])
<1>1. [scroll EXCEPT !.hover = b] \in View /\ Alike(scroll, [scroll EXCEPT !.hover = b])
  BY DEF GoodView, View, Alike, KeptView
<1> QED
  BY <1>1, AlikeGood

LEMMA InputGood ==
  ASSUME GoodView(scroll), Input PROVE GoodView(scroll')
<1>1. ASSUME TimePasses PROVE GoodView(scroll')
  <2>1. scroll' \in View /\ Alike(scroll, scroll')
    BY <1>1 DEF TimePasses, GoodView, View, Alike, KeptView
  <2> QED
    BY <2>1, AlikeGood
<1>2. ASSUME NEW o \in 0 .. MaxRange, TrackClick(o) PROVE GoodView(scroll')
  <2>1. scroll' = ScrolledTo(scroll, o, TRUE) /\ o \in Int /\ scroll \in View
    BY <1>2 DEF TrackClick, GoodView
  <2> QED
    BY <2>1, ScrolledToGood
<1>3. ASSUME NEW over \in BOOLEAN, MouseMove(over) PROVE GoodView(scroll')
  BY <1>3, HoverGood, ShowBarGood DEF MouseMove
<1>4. ASSUME MouseLeave PROVE GoodView(scroll')
  BY <1>4, HoverGood, ShowBarGood DEF MouseLeave
<1> QED
  BY <1>1, <1>2, <1>3, <1>4, NotchGood, PreciseGood, GrabGood, DragGood, ReleaseGood DEF Input

-----------------------------------------------------------------------------
\* What inertia starts with: a spring may still be on its way, until the first
\* step of the same frame.
Lively(v) == v.since = "live" \/ v.inertia \/ v.velocity = 0
Gliding(v) == v \in View /\ v.inertia /\ v.velocity # 0 /\ ~v.drag

LEMMA HandedOverGood ==
  ASSUME NEW v, GoodView(v), v.ticks, NEW fast \in BOOLEAN
  PROVE  /\ HandedOver(v, fast).ticks /\ Lively(HandedOver(v, fast))
         /\ GoodView(HandedOver(v, fast)) \/ Gliding(HandedOver(v, fast))
<1> DEFINE x == [v EXCEPT !.velocity = 0]
           y == [v EXCEPT !.inertia = TRUE]
<1>1. CASE Lively(v)
  BY <1>1 DEF HandedOver, Lively
<1>2. CASE ~Lively(v) /\ fast /\ ~v.drag
  <2>1. HandedOver(v, fast) = y
    BY <1>2 DEF HandedOver, Lively
  <2>2. y \in View
    BY DEF GoodView, View
  <2>3. y.drag = v.drag /\ y.velocity = v.velocity /\ y.ticks = v.ticks /\ y.inertia
    BY DEF GoodView, View
  <2> HIDE DEF y
  <2> QED
    BY <1>2, <2>1, <2>2, <2>3 DEF Gliding, Lively
<1>3. CASE ~Lively(v) /\ ~(fast /\ ~v.drag)
  <2>1. HandedOver(v, fast) = ClampAndSettle(x)
    BY <1>3 DEF HandedOver, Lively
  <2>2. x \in View
    BY DEF GoodView, View
  <2>3. x.inertia = v.inertia /\ x.anim = v.anim /\ x.to = v.to /\ x.ticks = v.ticks /\ x.velocity = 0
    BY DEF GoodView, View
  <2> HIDE DEF x
  <2> QED
    BY <1>3, <2>1, <2>2, <2>3, ClampAndSettleGood DEF GoodView, Resting, Lively
<1> QED
  BY <1>1, <1>2, <1>3

LEMMA CoastedGood ==
  ASSUME NEW v, GoodView(v) \/ Gliding(v), Lively(v), v.ticks, NEW moves \in BOOLEAN, NEW dies \in BOOLEAN
  PROVE  GoodView(Coasted(v, moves, dies)) /\ Lively(Coasted(v, moves, dies))
<1> DEFINE o == Clamp(v.off + (IF moves THEN v.velocity ELSE 0), -Page, v.max + Page)
           w == At(v, o)
           y == [w EXCEPT !.velocity = 0]
           x == [y EXCEPT !.inertia = FALSE]
<1>1. CASE ~v.inertia
  BY <1>1 DEF Coasted, Gliding
<1>2. CASE v.inertia
  <2>1. v \in View /\ v.velocity # 0 /\ ~v.drag
    BY <1>2 DEF GoodView, Resting, Gliding
  <2>2. o \in Int
    BY <2>1, ScrollAssumption DEF Clamp, View
  <2>3. Coasted(v, moves, dies) = IF dies THEN ClampAndSettle(x) ELSE w
    BY <1>2 DEF Coasted
  <2> HIDE DEF o
  <2>4. w \in View /\ KeptView(v, w) /\ ~w.anim
    BY <2>1, <2>2, AtFields
  <2> HIDE DEF w
  <2>5. y \in View /\ y.anim = w.anim /\ y.velocity = 0
    BY <2>4 DEF View
  <2> HIDE DEF y
  <2>6. x \in View /\ x.inertia = FALSE /\ x.anim = y.anim /\ x.velocity = 0
    BY <2>5 DEF View
  <2> HIDE DEF x
  <2>7. GoodView(w)
    BY <1>2, <2>1, <2>4 DEF GoodView, Resting, KeptView
  <2> QED
    BY <1>2, <2>3, <2>4, <2>5, <2>6, <2>7, ClampAndSettleGood DEF KeptView, Lively
<1> QED
  BY <1>1, <1>2

\* The ticks end with the inertia, and not before the gesture is handed over.
LEMMA FrameGood ==
  ASSUME GoodView(scroll), NEW fast \in BOOLEAN, NEW moves \in BOOLEAN, NEW dies \in BOOLEAN,
         NEW fading \in BOOLEAN, Frame(fast, moves, dies, fading)
  PROVE  GoodView(scroll')
<1> DEFINE h == HandedOver(scroll, fast)
           v == Coasted(h, moves, dies)
           b == v.since = "live" \/ v.inertia \/ v.drag \/ v.over \/ v.anim \/ fading
           w == [v EXCEPT !.ticks = b]
<1>1. scroll' = w
  BY DEF Frame
<1>2. GoodView(h) \/ Gliding(h)
  BY HandedOverGood DEF Frame
<1>3. h.ticks /\ Lively(h)
  BY HandedOverGood DEF Frame
<1> HIDE DEF h
<1>4. GoodView(v) /\ Lively(v)
  BY <1>2, <1>3, CoastedGood
<1> HIDE DEF v
<1>5. b \in BOOLEAN /\ (~b => ~v.inertia /\ v.velocity = 0)
  BY <1>4 DEF GoodView, View, Lively
<1> HIDE DEF b
<1>6. w \in View
  BY <1>4, <1>5 DEF GoodView, View
<1>7. /\ w.ticks = b /\ w.inertia = v.inertia /\ w.velocity = v.velocity /\ w.anim = v.anim
      /\ w.drag = v.drag /\ w.pulled = v.pulled /\ w.to = v.to /\ w.off = v.off /\ w.max = v.max
  BY <1>4 DEF GoodView, View
<1> HIDE DEF w
<1>8. GoodView(w)
  BY <1>4, <1>5, <1>6, <1>7 DEF GoodView, Resting, Free, InRange
<1> QED
  BY <1>1, <1>8

LEMMA ClockGood ==
  ASSUME GoodView(scroll), Clock PROVE GoodView(scroll')
<1>1. ASSUME BarTimer PROVE GoodView(scroll')
  <2>1. scroll' \in View /\ Alike(scroll, scroll')
    BY <1>1 DEF BarTimer, GoodView, View, Alike, KeptView
  <2> QED
    BY <2>1, AlikeGood
<1>2. ASSUME SpringEnds PROVE GoodView(scroll')
  <2> DEFINE a == At(scroll, scroll.to)
  <2>1. scroll.to \in Int /\ scroll \in View /\ scroll.anim /\ scroll.max \in Nat /\ ~scroll.inertia
    BY <1>2 DEF SpringEnds, GoodView, Resting, View
  <2>2. a \in View /\ KeptView(scroll, a) /\ a.off = scroll.to /\ ~a.anim
    BY <2>1, AtFields
  <2> HIDE DEF a
  <2>3. GoodView(a)
    BY <2>1, <2>2 DEF GoodView, Resting, Free, InRange, KeptView
  <2>4. scroll' = [a EXCEPT !.over = FALSE]
    BY <1>2 DEF SpringEnds, a
  <2> QED
    BY <2>3, <2>4, OverGood
<1>3. ASSUME MotionChanges PROVE GoodView(scroll')
  <2>1. scroll' \in View /\ Alike(scroll, scroll')
    BY <1>3 DEF MotionChanges, GoodView, View, Alike, KeptView
  <2> QED
    BY <2>1, AlikeGood
<1>4. ASSUME NEW o \in -Page .. (MaxRange + Page), Spring(o) PROVE GoodView(scroll')
  <2>1. o \in Int /\ scroll.anim
    BY <1>4, ScrollAssumption DEF Spring
  <2>2. scroll' \in View /\ KeptView(scroll, scroll') /\ scroll'.to = scroll.to /\ scroll'.anim = scroll.anim
    BY <1>4, <2>1 DEF Spring, GoodView, View, KeptView
  <2> QED
    BY <2>1, <2>2 DEF GoodView, Resting, Free, InRange, KeptView
<1> QED
  BY <1>1, <1>2, <1>3, <1>4, FrameGood DEF Clock

(* However wheel, precise deltas, thumb, layout, programmed scrolls,       *)
(* springs and frames follow one another, a view that is left alone with   *)
(* no spring and no frame to come stands within its content, and inertia   *)
(* is never left without frames (ScrollView.cpp), for contents and pages   *)
(* of every length.                                                        *)
THEOREM ViewComesToRest == ScrollSpec => []ScrollRests
<1>1. ScrollInit => GoodView(scroll)
  BY ScrollInitGood
<1>2. GoodView(scroll) /\ [ScrollNext]_scroll => GoodView(scroll)'
  <2>1. CASE ScrollNext
    BY <2>1, ProgramGood, InputGood, ClockGood DEF ScrollNext
  <2>2. CASE UNCHANGED scroll
    BY <2>2
  <2> QED
    BY <2>1, <2>2
<1>3. GoodView(scroll) => ScrollRests
  BY DEF GoodView, Resting, Free, ScrollRests
<1> QED
  BY <1>1, <1>2, <1>3, PTL DEF ScrollSpec

-----------------------------------------------------------------------------
Ctl == [enabled : BOOLEAN, sticky : BOOLEAN,
        state : {"Undocked", "Searching", "Picking", "Docked"},
        conn : Cefs \cup {"none"}, rpid : Cefs \cup {"none"},
        panel : [win : Targets \cup {"none"}, root : Roots \cup {"none"}],
        fallback : BOOLEAN, picked : BOOLEAN, saved : {"none", "rect", "extension"},
        seen : BOOLEAN, hooked : BOOLEAN, pending : SUBSET {"geometry", "gone"},
        flag : {"no", "posted", "lost"}, dirty : BOOLEAN, armed : {"no", "set", "lost"},
        lastVisible : BOOLEAN, behind : BOOLEAN, hwnd : BOOLEAN,
        mode : {"Floating", "Docked"}, owner : Roots \cup {"none"},
        tray : {"added", "stale", "none"}]

Frames ==
    /\ roots \subseteq Roots /\ at \in [Cefs -> Roots \cup {"none"}]
    /\ covered \in BOOLEAN /\ elevated \in BOOLEAN

(* The controller.  NeverLags needs to know why a window that is not where *)
(* its panel is will get there: a posted tick has something to look at, a  *)
(* timer that is set has a pass it stands for, or the one or the other     *)
(* died with a window (OnItsWay).  A docked window has its hooks, and a    *)
(* panel to be docked to (Attached): without them nobody would hear that   *)
(* it moved.                                                               *)
Fresh(d) == LET hides == covered \/ ~d.seen
            IN  d.lastVisible = ~hides /\ (~hides => ~d.behind)
Off(d) == d.sticky \/ ~d.enabled => d.state = "Undocked"
Moded(d) == d.hwnd => IF d.state = "Docked" THEN d.mode = "Docked" /\ d.owner = d.panel.root
                      ELSE d.mode = "Floating"
Attached(d) == d.state = "Docked" => /\ d.hooked /\ d.panel # NoPanel
                                     /\ d.rpid # "none" \/ d.picked
Sought(d) == d.state = "Searching" => d.rpid # "none"
OnItsWay(d) == \/ d.flag = "lost" \/ d.armed = "lost"
               \/ d.flag = "posted" /\ d.pending # {}
               \/ d.armed = "set" /\ d.dirty
Watched(d) == d.hwnd /\ d.state = "Docked" /\ d.panel.win # "none" /\ ~Fresh(d) => OnItsWay(d)

Placed(d) == Off(d) /\ Moded(d) /\ Attached(d) /\ Sought(d)
GoodDock(d) == d \in Ctl /\ Placed(d) /\ Watched(d)

-----------------------------------------------------------------------------
(* What the controller's helpers change *)

SameDock(d, f) ==
    /\ f.enabled = d.enabled /\ f.sticky = d.sticky /\ f.state = d.state /\ f.rpid = d.rpid
    /\ f.panel = d.panel /\ f.picked = d.picked /\ f.seen = d.seen /\ f.dirty = d.dirty
    /\ f.lastVisible = d.lastVisible /\ f.behind = d.behind /\ f.hwnd = d.hwnd
    /\ f.conn = d.conn /\ f.saved = d.saved
Aim(d, f) == f.mode = d.mode /\ f.owner = d.owner
Ticks(d, f) == f.flag = d.flag /\ f.armed = d.armed
Hooks(d, f) == f.hooked = d.hooked /\ f.pending = d.pending

LEMMA UnhookedFields ==
  ASSUME NEW d \in Ctl
  PROVE  LET f == Unhooked(d)
         IN  /\ f \in Ctl /\ SameDock(d, f) /\ Aim(d, f) /\ Ticks(d, f)
             /\ f.hooked = FALSE /\ f.pending = {}
BY ZenonT(60) DEF Unhooked, Ctl, SameDock, Aim, Ticks

LEMMA HookedFields ==
  ASSUME NEW d \in Ctl
  PROVE  LET f == Hooked(d)
         IN  /\ f \in Ctl /\ SameDock(d, f) /\ Aim(d, f) /\ Ticks(d, f)
             /\ f.hooked = TRUE /\ f.pending = {}
<1> DEFINE g == Unhooked(d)
           f == [g EXCEPT !.hooked = TRUE]
<1>1. g \in Ctl /\ SameDock(d, g) /\ Aim(d, g) /\ Ticks(d, g) /\ g.pending = {}
  BY UnhookedFields
<1>2. Hooked(d) = f
  BY DEF Hooked
<1> HIDE DEF g
<1>3. f \in Ctl /\ SameDock(g, f) /\ Aim(g, f) /\ Ticks(g, f) /\ f.hooked = TRUE /\ f.pending = g.pending
  BY <1>1, ZenonT(60) DEF Ctl, SameDock, Aim, Ticks
<1> HIDE DEF f
<1> QED
  BY <1>1, <1>2, <1>3 DEF SameDock, Aim, Ticks

LEMMA RemadeFields ==
  ASSUME NEW d \in Ctl
  PROVE  LET f == Remade(d)
         IN  f \in Ctl /\ SameDock(d, f) /\ Aim(d, f) /\ Hooks(d, f)
<1> DEFINE flag == IF d.flag = "posted" THEN "lost" ELSE d.flag
           armed == IF d.armed = "set" THEN "lost" ELSE d.armed
           tray == IF d.tray = "added" THEN "stale" ELSE d.tray
           a == [d EXCEPT !.flag = flag]
           b == [a EXCEPT !.armed = armed]
           c == [b EXCEPT !.tray = tray]
<1>1. flag \in {"no", "posted", "lost"} /\ armed \in {"no", "set", "lost"}
      /\ tray \in {"added", "stale", "none"}
  BY DEF Ctl
<1>2. Remade(d) = [d EXCEPT !.flag = flag, !.armed = armed, !.tray = tray]
  BY DEF Remade, Ctl
<1>3. [d EXCEPT !.flag = flag, !.armed = armed, !.tray = tray] = c
  BY DEF Ctl
<1> HIDE DEF flag, armed, tray
<1>4. a \in Ctl /\ SameDock(d, a) /\ Aim(d, a) /\ Hooks(d, a)
  BY <1>1 DEF Ctl, SameDock, Aim, Hooks
<1> HIDE DEF a
<1>5. b \in Ctl /\ SameDock(a, b) /\ Aim(a, b) /\ Hooks(a, b)
  BY <1>1, <1>4 DEF Ctl, SameDock, Aim, Hooks
<1> HIDE DEF b
<1>6. c \in Ctl /\ SameDock(b, c) /\ Aim(b, c) /\ Hooks(b, c)
  BY <1>1, <1>5 DEF Ctl, SameDock, Aim, Hooks
<1> HIDE DEF c
<1> QED
  BY <1>2, <1>3, <1>4, <1>5, <1>6 DEF SameDock, Aim, Hooks

LEMMA FloatedFields ==
  ASSUME NEW d \in Ctl
  PROVE  LET f == Floated(d)
         IN  f \in Ctl /\ SameDock(d, f) /\ Hooks(d, f) /\ (d.hwnd => f.mode = "Floating")
<1> DEFINE g == [d EXCEPT !.mode = "Floating", !.owner = "none"]
<1>1. g \in Ctl /\ SameDock(d, g) /\ Hooks(d, g) /\ g.mode = "Floating"
  BY ZenonT(60) DEF Ctl, SameDock, Hooks
<1>2. Floated(d) = IF ~d.hwnd \/ d.mode = "Floating" THEN d
                   ELSE IF d.owner \in roots THEN g ELSE Remade(g)
  BY DEF Floated
<1> HIDE DEF g
<1>3. LET f == Remade(g) IN f \in Ctl /\ SameDock(d, f) /\ Hooks(d, f) /\ f.mode = "Floating"
  BY <1>1, RemadeFields DEF SameDock, Aim, Hooks
<1>4. SameDock(d, d) /\ Hooks(d, d)
  BY DEF SameDock, Hooks
<1> QED
  BY <1>1, <1>2, <1>3, <1>4

LEMMA OwnedFields ==
  ASSUME Frames, NEW d \in Ctl, NEW root \in Roots \cup {"none"}
  PROVE  LET f == Owned(d, root)
         IN  /\ f \in Ctl /\ SameDock(d, f) /\ Hooks(d, f) /\ Ticks(d, f)
             /\ d.hwnd /\ root \in roots => f.mode = "Docked" /\ f.owner = root
<1> DEFINE g == [d EXCEPT !.mode = "Docked", !.owner = root]
<1>1. g \in Ctl /\ SameDock(d, g) /\ Hooks(d, g) /\ Ticks(d, g) /\ g.mode = "Docked" /\ g.owner = root
  BY ZenonT(60) DEF Ctl, SameDock, Hooks, Ticks
<1>2. Owned(d, root) = IF ~d.hwnd \/ root \notin roots THEN d ELSE g
  BY DEF Owned
<1>3. SameDock(d, d) /\ Hooks(d, d) /\ Ticks(d, d)
  BY DEF SameDock, Hooks, Ticks
<1> HIDE DEF g
<1> QED
  BY <1>1, <1>2, <1>3

LEMMA RootType ==
  ASSUME Frames, NEW t \in Targets \cup {"none"} PROVE RootOf(t) \in Roots \cup {"none"}
BY DEF Frames, RootOf, Roots, Targets

\* The place where a geometry is applied leaves the window fresh.
LEMMA ShownGood ==
  ASSUME NEW d \in Ctl, Placed(d), d.state = "Docked"
  PROVE  GoodDock(Shown(d)) /\ Shown(d).hwnd = d.hwnd /\ Fresh(Shown(d))
<1> DEFINE hides == covered \/ ~d.seen
           f == [d EXCEPT !.lastVisible = FALSE]
           g == [d EXCEPT !.behind = FALSE, !.lastVisible = TRUE]
           Rest(x) == /\ x.enabled = d.enabled /\ x.sticky = d.sticky /\ x.state = d.state
                      /\ x.rpid = d.rpid /\ x.panel = d.panel /\ x.picked = d.picked
                      /\ x.seen = d.seen /\ x.hwnd = d.hwnd /\ x.mode = d.mode
                      /\ x.owner = d.owner /\ x.hooked = d.hooked
<1>1. f \in Ctl /\ Rest(f) /\ f.lastVisible = FALSE
  BY ZenonT(60) DEF Ctl
<1>2. g \in Ctl /\ Rest(g) /\ g.lastVisible = TRUE /\ g.behind = FALSE
  BY ZenonT(60) DEF Ctl
<1>3. Shown(d) = IF hides THEN f ELSE g
  BY DEF Shown
<1>4. Frames => covered \in BOOLEAN
  BY DEF Frames
<1> HIDE DEF f, g
<1>5. CASE hides
  BY <1>1, <1>3, <1>5 DEF GoodDock, Placed, Off, Moded, Attached, Sought, Watched, Fresh
<1>6. CASE ~hides
  BY <1>2, <1>3, <1>6 DEF GoodDock, Placed, Off, Moded, Attached, Sought, Watched, Fresh
<1> QED
  BY <1>5, <1>6

LEMMA NobodyType ==
  ASSUME NEW a \in Ctl
  PROVE  [a EXCEPT !.rpid = "none", !.conn = "none", !.state = "Undocked"] \in Ctl
BY ZenonT(60) DEF Ctl

LEMMA ForgetFields ==
  ASSUME NEW g \in Ctl
  PROVE  LET h == [g EXCEPT !.fallback = FALSE, !.picked = FALSE, !.panel = NoPanel,
                            !.rpid = "none", !.conn = "none", !.state = "Undocked"]
         IN  h \in Ctl /\ h.state = "Undocked" /\ h.hwnd = g.hwnd /\ h.mode = g.mode
<1> DEFINE h == [g EXCEPT !.fallback = FALSE, !.picked = FALSE, !.panel = NoPanel,
                          !.rpid = "none", !.conn = "none", !.state = "Undocked"]
<1>1. NoPanel \in [win : Targets \cup {"none"}, root : Roots \cup {"none"}]
  BY DEF NoPanel
<1>2. h \in Ctl
  <2> DEFINE a == [g EXCEPT !.fallback = FALSE, !.picked = FALSE, !.panel = NoPanel]
  <2>1. a \in Ctl
    BY <1>1, ZenonT(60) DEF Ctl
  <2>2. h = [a EXCEPT !.rpid = "none", !.conn = "none", !.state = "Undocked"]
    OBVIOUS
  <2> HIDE DEF a, h
  <2>3. [a EXCEPT !.rpid = "none", !.conn = "none", !.state = "Undocked"] \in Ctl
    BY <2>1, NobodyType
  <2> QED
    BY <2>2, <2>3
<1>3. h.state = "Undocked" /\ h.hwnd = g.hwnd /\ h.mode = g.mode
  BY DEF Ctl
<1> QED
  BY <1>2, <1>3

LEMMA GoneFields ==
  ASSUME NEW d \in Ctl, Placed(d), NEW c \in Cefs \cup {"none"}
  PROVE  LET f == Gone(d, c)
         IN  \/ f = d /\ c # d.conn
             \/ /\ f \in Ctl /\ f.state = "Undocked" /\ f.hwnd = d.hwnd
                /\ f.hwnd => f.mode = "Floating"
<1> DEFINE u == Unhooked(d)
           g == IF d.state = "Docked" THEN Floated(u) ELSE u
           h == [g EXCEPT !.fallback = FALSE, !.picked = FALSE, !.panel = NoPanel,
                          !.rpid = "none", !.conn = "none", !.state = "Undocked"]
<1>1. u \in Ctl /\ SameDock(d, u) /\ Aim(d, u)
  BY UnhookedFields
<1>2. Gone(d, c) = IF d.conn # "none" /\ c # "none" /\ c # d.conn THEN d ELSE h
  BY DEF Gone
<1> HIDE DEF u
<1>3. g \in Ctl /\ g.hwnd = d.hwnd /\ (g.hwnd => g.mode = "Floating")
  <2>1. CASE d.state = "Docked"
    BY <1>1, <2>1, FloatedFields DEF SameDock
  <2>2. CASE d.state # "Docked"
    BY <1>1, <2>2 DEF SameDock, Aim, Placed, Moded
  <2> QED
    BY <2>1, <2>2
<1> HIDE DEF g
<1>4. h \in Ctl /\ h.state = "Undocked" /\ h.hwnd = g.hwnd /\ h.mode = g.mode
  BY <1>3, ForgetFields
<1> HIDE DEF h
<1> QED
  BY <1>2, <1>3, <1>4

LEMMA UndockedGood ==
  ASSUME NEW d \in Ctl, d.state = "Undocked", d.hwnd => d.mode = "Floating"
  PROVE  GoodDock(d)
BY DEF GoodDock, Placed, Off, Moded, Attached, Sought, Watched

LEMMA AppliedGood ==
  ASSUME Frames, NEW d \in Ctl, Placed(d)
  PROVE  /\ GoodDock(Applied(d)) /\ Applied(d).hwnd = d.hwnd
         /\ d.state = "Docked" => Fresh(Applied(d)) \/ Applied(d).state = "Undocked"
<1> DEFINE root == IF d.panel.win = "none" THEN d.panel.root ELSE RootOf(d.panel.win)
           p == [d EXCEPT !.panel.root = root]
           h == Hooked(p)
           o == Owned(h, root)
<1>1. root \in Roots \cup {"none"}
  BY RootType DEF Ctl
<1>2. Applied(d) = IF d.state # "Docked" \/ d.panel = NoPanel THEN d
                   ELSE IF root \notin roots THEN Gone(d, d.conn)
                   ELSE IF root = d.panel.root THEN Shown(d) ELSE Shown(o)
  BY DEF Applied
<1>3. CASE d.state # "Docked"
  BY <1>2, <1>3 DEF GoodDock, Watched
<1>4. CASE d.state = "Docked" /\ root \notin roots
  <2>1. Applied(d) = Gone(d, d.conn) /\ d.conn \in Cefs \cup {"none"}
    BY <1>2, <1>4 DEF Placed, Attached, Ctl
  <2> QED
    BY <2>1, GoneFields, UndockedGood
<1>5. CASE d.state = "Docked" /\ root \in roots /\ root = d.panel.root
  <2>1. Applied(d) = Shown(d)
    BY <1>2, <1>5 DEF Placed, Attached
  <2> QED
    BY <1>5, <2>1, ShownGood
<1>6. CASE d.state = "Docked" /\ root \in roots /\ root # d.panel.root
  <2>1. Applied(d) = Shown(o)
    BY <1>2, <1>6 DEF Placed, Attached
  <2> HIDE DEF root
  <2>2. d.panel \in [win : Targets \cup {"none"}, root : Roots \cup {"none"}]
    BY DEF Ctl
  <2>3. p = [d EXCEPT !.panel = [d.panel EXCEPT !.root = root]]
    OBVIOUS
  <2>4. /\ [d.panel EXCEPT !.root = root] \in [win : Targets \cup {"none"}, root : Roots \cup {"none"}]
        /\ [d.panel EXCEPT !.root = root].root = root
    BY <1>1, <2>2
  <2> DEFINE q == [d.panel EXCEPT !.root = root]
  <2> HIDE DEF q
  <2>5. p \in Ctl
    BY <2>3, <2>4 DEF Ctl, q
  <2>6. /\ p.enabled = d.enabled /\ p.sticky = d.sticky /\ p.state = d.state /\ p.rpid = d.rpid
        /\ p.picked = d.picked /\ p.hwnd = d.hwnd /\ p.panel.root = root
    BY <2>3, <2>4 DEF Ctl, q
  <2> HIDE DEF p
  <2>7. h \in Ctl /\ SameDock(p, h) /\ h.hooked = TRUE
    BY <2>5, HookedFields
  <2> HIDE DEF h
  <2>8. o \in Ctl /\ SameDock(h, o) /\ Hooks(h, o) /\ (h.hwnd => o.mode = "Docked" /\ o.owner = root)
    BY <1>1, <1>6, <2>7, OwnedFields
  <2> HIDE DEF o
  <2>9. o.panel # NoPanel
    BY <1>6, <2>6, <2>7, <2>8 DEF SameDock, NoPanel, Frames, Roots
  <2>10. Placed(o) /\ o.state = "Docked" /\ o.hwnd = d.hwnd
    BY <1>6, <2>6, <2>7, <2>8, <2>9 DEF SameDock, Hooks, Placed, Off, Moded, Attached, Sought
  <2> QED
    BY <2>1, <2>8, <2>10, ShownGood
<1> QED
  BY <1>3, <1>4, <1>5, <1>6

LEMMA DockedFields ==
  ASSUME NEW o \in Ctl
  PROVE  LET f == [o EXCEPT !.behind = FALSE, !.lastVisible = FALSE, !.state = "Docked"]
         IN  /\ f \in Ctl /\ f.state = "Docked"
             /\ f.enabled = o.enabled /\ f.sticky = o.sticky /\ f.rpid = o.rpid
             /\ f.picked = o.picked /\ f.hwnd = o.hwnd /\ f.panel = o.panel
             /\ f.mode = o.mode /\ f.owner = o.owner /\ f.hooked = o.hooked
BY ZenonT(60) DEF Ctl

LEMMA DockedToGood ==
  ASSUME Frames, NEW d \in Ctl, d.hwnd, d.enabled, ~d.sticky,
         NEW win \in Targets \cup {"none"}, NEW root \in roots,
         win = "none" \/ RootOf(win) = root, d.rpid # "none" \/ d.picked
  PROVE  GoodDock(DockedTo(d, win, root)) /\ DockedTo(d, win, root).hwnd
<1> DEFINE p == [d EXCEPT !.panel = [win |-> win, root |-> root]]
           h == Hooked(p)
           o == Owned(h, root)
           f == [o EXCEPT !.behind = FALSE, !.lastVisible = FALSE, !.state = "Docked"]
<1>1. root \in Roots
  BY DEF Frames
<1>2. [win |-> win, root |-> root] \in [win : Targets \cup {"none"}, root : Roots \cup {"none"}]
  BY <1>1
<1>3. p \in Ctl
  BY <1>2 DEF Ctl
<1>4. /\ p.enabled = d.enabled /\ p.sticky = d.sticky /\ p.rpid = d.rpid
      /\ p.picked = d.picked /\ p.hwnd = d.hwnd /\ p.panel = [win |-> win, root |-> root]
  BY ZenonT(60) DEF Ctl
<1>5. DockedTo(d, win, root) = Applied(f)
  BY DEF DockedTo
<1> HIDE DEF p
<1>6. h \in Ctl /\ SameDock(p, h) /\ h.hooked = TRUE
  BY <1>3, HookedFields
<1> HIDE DEF h
<1>7. o \in Ctl /\ SameDock(h, o) /\ Hooks(h, o) /\ (h.hwnd => o.mode = "Docked" /\ o.owner = root)
  BY <1>1, <1>6, OwnedFields
<1> HIDE DEF o
<1>8. f \in Ctl /\ f.state = "Docked"
  BY <1>7, DockedFields
<1>9. /\ f.enabled = o.enabled /\ f.sticky = o.sticky /\ f.rpid = o.rpid
      /\ f.picked = o.picked /\ f.hwnd = o.hwnd /\ f.panel = o.panel
      /\ f.mode = o.mode /\ f.owner = o.owner /\ f.hooked = o.hooked
  BY <1>7, DockedFields
<1> HIDE DEF f
<1>10. f.hwnd /\ f.enabled /\ ~f.sticky /\ f.hooked /\ f.mode = "Docked" /\ f.owner = f.panel.root
  BY <1>4, <1>6, <1>7, <1>9 DEF SameDock, Hooks
<1>11. f.panel = [win |-> win, root |-> root] /\ (f.rpid # "none" \/ f.picked)
  BY <1>4, <1>6, <1>7, <1>9 DEF SameDock
<1>12. f.panel # NoPanel
  BY <1>1, <1>11 DEF NoPanel, Roots
<1>13. Placed(f)
  BY <1>8, <1>10, <1>11, <1>12 DEF Placed, Off, Moded, Attached, Sought
<1> QED
  BY <1>5, <1>8, <1>10, <1>13, AppliedGood

LEMMA TriedGood ==
  ASSUME Frames, NEW d \in Ctl, Off(d), d.hwnd, d.mode = "Floating", d.state # "Docked"
  PROVE  GoodDock(Tried(d)) /\ Tried(d).hwnd
<1>1. CASE ~d.enabled \/ d.sticky
  BY <1>1, UndockedGood DEF Tried, Off
<1>2. CASE d.enabled /\ ~d.sticky /\ d.rpid = "none"
  <2> DEFINE f == [d EXCEPT !.state = "Undocked"]
  <2>1. Tried(d) = f
    BY <1>2 DEF Tried
  <2>2. f \in Ctl /\ f.state = "Undocked" /\ f.hwnd = d.hwnd /\ f.mode = d.mode
    BY ZenonT(60) DEF Ctl
  <2> HIDE DEF f
  <2> QED
    BY <2>1, <2>2, UndockedGood
<1>3. CASE d.enabled /\ ~d.sticky /\ d.rpid # "none" /\ ~Exists(d.rpid)
  <2> DEFINE f == [d EXCEPT !.state = "Searching"]
  <2>1. Tried(d) = f
    BY <1>3 DEF Tried
  <2>2. f \in Ctl /\ f.state = "Searching" /\ f.hwnd = d.hwnd /\ f.mode = d.mode
        /\ f.enabled = d.enabled /\ f.sticky = d.sticky /\ f.rpid = d.rpid
    BY ZenonT(60) DEF Ctl
  <2> HIDE DEF f
  <2> QED
    BY <1>3, <2>1, <2>2 DEF GoodDock, Placed, Off, Moded, Attached, Sought, Watched
<1>4. CASE d.enabled /\ ~d.sticky /\ d.rpid # "none" /\ Exists(d.rpid) /\ elevated
  <2> DEFINE p == [win |-> d.rpid, root |-> RootOf(d.rpid)]
             f == [d EXCEPT !.panel = p, !.state = "Undocked"]
  <2>1. Tried(d) = f
    BY <1>4 DEF Tried
  <2>2. p \in [win : Targets \cup {"none"}, root : Roots \cup {"none"}]
    BY RootType DEF Ctl, Targets
  <2> HIDE DEF p
  <2>3. f \in Ctl /\ f.state = "Undocked" /\ f.hwnd = d.hwnd /\ f.mode = d.mode
    BY <2>2, ZenonT(60) DEF Ctl
  <2> HIDE DEF f
  <2> QED
    BY <2>1, <2>3, UndockedGood
<1>5. CASE d.enabled /\ ~d.sticky /\ d.rpid # "none" /\ Exists(d.rpid) /\ ~elevated
  <2> DEFINE f == [d EXCEPT !.fallback = FALSE]
  <2>1. Tried(d) = DockedTo(f, d.rpid, RootOf(d.rpid))
    BY <1>5 DEF Tried
  <2>2. f \in Ctl /\ f.hwnd /\ f.enabled /\ ~f.sticky /\ f.rpid = d.rpid
    BY <1>5, ZenonT(60) DEF Ctl
  <2>3. d.rpid \in Targets \cup {"none"} /\ RootOf(d.rpid) \in roots
    BY <1>5 DEF Ctl, Targets, Exists
  <2> HIDE DEF f
  <2> QED
    BY <1>5, <2>1, <2>2, <2>3, DockedToGood
<1>6. d.enabled \in BOOLEAN /\ d.sticky \in BOOLEAN
  BY DEF Ctl
<1> QED
  BY <1>1, <1>2, <1>3, <1>4, <1>5

LEMMA SearchedGood ==
  ASSUME Frames, NEW d \in Ctl, d.hwnd, d.mode = "Floating", d.enabled, ~d.sticky
  PROVE  GoodDock(Searched(d)) /\ Searched(d).hwnd
<1> DEFINE f == [d EXCEPT !.state = "Searching"]
<1>1. Searched(d) = Tried(f)
  BY DEF Searched
<1>2. /\ f \in Ctl /\ f.state = "Searching" /\ f.hwnd = d.hwnd /\ f.mode = d.mode
      /\ f.enabled = d.enabled /\ f.sticky = d.sticky
  BY ZenonT(60) DEF Ctl
<1> HIDE DEF f
<1>3. Off(f)
  BY <1>2 DEF Off
<1> QED
  BY <1>1, <1>2, <1>3, TriedGood

LEMMA PickedFields ==
  ASSUME NEW g \in Ctl, NEW x \in {"none", "rect", "extension"}
  PROVE  LET f == [g EXCEPT !.picked = TRUE, !.fallback = FALSE, !.seen = TRUE, !.saved = x]
         IN  /\ f \in Ctl /\ f.hwnd = g.hwnd /\ f.enabled = g.enabled
             /\ f.sticky = g.sticky /\ f.picked
<1> DEFINE f == [g EXCEPT !.picked = TRUE, !.fallback = FALSE, !.seen = TRUE, !.saved = x]
<1>1. f \in Ctl
  BY ZenonT(60) DEF Ctl
<1>2. f.hwnd = g.hwnd /\ f.enabled = g.enabled /\ f.sticky = g.sticky /\ f.picked
  BY DEF Ctl
<1> QED
  BY <1>1, <1>2

LEMMA WindowGood ==
  ASSUME Frames, NEW d \in Ctl, d.hwnd, d.enabled, ~d.sticky, NEW t \in Targets, CanDock(d, t)
  PROVE  GoodDock(Window(d, t)) /\ Window(d, t).hwnd
<1> DEFINE u == Unhooked(d)
           g == IF d.state = "Docked" THEN Floated(u) ELSE u
           f == [g EXCEPT !.picked = TRUE, !.fallback = FALSE, !.seen = TRUE, !.saved = Signature(t)]
<1>1. u \in Ctl /\ SameDock(d, u)
  BY UnhookedFields
<1>2. Window(d, t) = DockedTo(f, t, RootOf(t))
  BY DEF Window
<1> HIDE DEF u
<1>3. g \in Ctl /\ g.hwnd = d.hwnd /\ g.enabled = d.enabled /\ g.sticky = d.sticky
  BY <1>1, FloatedFields DEF SameDock
<1> HIDE DEF g
<1>4. Signature(t) \in {"none", "rect", "extension"}
  BY DEF Signature
<1>5. f \in Ctl /\ f.hwnd = g.hwnd /\ f.enabled = g.enabled /\ f.sticky = g.sticky /\ f.picked
  BY <1>3, <1>4, PickedFields
<1> HIDE DEF f
<1>7. RootOf(t) \in roots
  BY DEF CanDock, Exists
<1> QED
  BY <1>2, <1>3, <1>5, <1>7, DockedToGood

LEMMA DefaultedGood ==
  ASSUME Frames, NEW d, GoodDock(d)
  PROVE  GoodDock(Defaulted(d)) /\ Defaulted(d).hwnd = d.hwnd
<1>1. CASE Default(d) = "none"
  BY <1>1 DEF Defaulted
<1>2. CASE Default(d) # "none"
  <2>1. d \in Ctl /\ d.enabled /\ ~d.sticky /\ Default(d) \in {"content", "pane"} /\ CanDock(d, Default(d))
    BY <1>2 DEF Default, GoodDock
  <2>2. d.hwnd /\ Default(d) \in Targets
    BY <2>1 DEF CanDock, Targets
  <2> QED
    BY <1>2, <2>1, <2>2, WindowGood DEF Defaulted
<1> QED
  BY <1>1, <1>2

LEMMA FallbackFields ==
  ASSUME NEW g \in Ctl
  PROVE  LET f == [g EXCEPT !.fallback = FALSE] IN f \in Ctl /\ SameDock(g, f) /\ f.mode = g.mode
BY ZenonT(60) DEF Ctl, SameDock

LEMMA LetGoFields ==
  ASSUME NEW d \in Ctl
  PROVE  LET f == LetGo(d)
         IN  f \in Ctl /\ SameDock(d, f) /\ (d.hwnd => f.mode = "Floating")
<1> DEFINE u == Unhooked(d)
           g == Floated(u)
           f == [g EXCEPT !.fallback = FALSE]
<1>1. u \in Ctl /\ SameDock(d, u)
  BY UnhookedFields
<1> HIDE DEF u
<1>2. g \in Ctl /\ SameDock(u, g) /\ (u.hwnd => g.mode = "Floating")
  BY <1>1, FloatedFields
<1> HIDE DEF g
<1>3. f \in Ctl /\ SameDock(g, f) /\ f.mode = g.mode
  BY <1>2, FallbackFields
<1>4. LetGo(d) = f
  BY DEF LetGo, g, u
<1> HIDE DEF f
<1> QED
  BY <1>1, <1>2, <1>3, <1>4 DEF SameDock

-----------------------------------------------------------------------------
(* The handlers of the controller *)

LEMMA StateFields ==
  ASSUME NEW d \in Ctl, NEW x \in {"Undocked", "Searching", "Picking", "Docked"}
  PROVE  LET f == [d EXCEPT !.state = x]
         IN  /\ f \in Ctl /\ f.state = x /\ f.enabled = d.enabled /\ f.sticky = d.sticky
             /\ f.hwnd = d.hwnd /\ f.mode = d.mode /\ f.rpid = d.rpid
BY DEF Ctl

Met(d, c, pid) == [d EXCEPT !.conn = c, !.rpid = pid, !.panel = NoPanel]
LEMMA PanelFields ==
  ASSUME NEW d \in Ctl, NEW c \in Cefs \cup {"none"}, NEW pid \in Cefs \cup {"none"}
  PROVE  LET f == Met(d, c, pid)
         IN  /\ f \in Ctl /\ f.state = d.state /\ f.enabled = d.enabled /\ f.sticky = d.sticky
             /\ f.hwnd = d.hwnd /\ f.mode = d.mode /\ f.rpid = pid
<1>1. NoPanel \in [win : Targets \cup {"none"}, root : Roots \cup {"none"}]
  BY DEF NoPanel
<1>2. Met(d, c, pid) \in Ctl
  BY <1>1, ZenonT(60) DEF Ctl, Met
<1> QED
  BY <1>2 DEF Ctl, Met

LEMMA LooseGood ==
  ASSUME NEW d \in Ctl, d.state # "Docked", d.hwnd => d.mode = "Floating", Off(d), Sought(d)
  PROVE  GoodDock(d)
BY DEF GoodDock, Placed, Moded, Attached, Watched

LEMMA HelloGood ==
  ASSUME Frames, GoodDock(dock), NEW c \in Cefs, NEW pid \in {c, "none"}, Hello(c, pid)
  PROVE  GoodDock(dock')
<1> DEFINE l == LetGo(dock)
           r == [l EXCEPT !.state = "Undocked"]
           b == IF dock.state = "Docked" THEN r ELSE dock
           d == [b EXCEPT !.conn = c, !.rpid = pid, !.panel = NoPanel]
           u == [d EXCEPT !.state = "Undocked"]
<1>1. dock' = IF pid = "none" THEN u ELSE IF ~d.enabled \/ d.sticky THEN d ELSE Searched(d)
  BY DEF Hello
<1>2. dock \in Ctl /\ dock.hwnd /\ Off(dock) /\ (dock.state # "Docked" => dock.mode = "Floating")
  BY DEF GoodDock, Placed, Moded, Hello, Heard
<1>3. /\ b \in Ctl /\ b.hwnd /\ b.mode = "Floating" /\ b.state # "Docked"
      /\ b.enabled = dock.enabled /\ b.sticky = dock.sticky
      /\ b.state = "Undocked" \/ b.state = dock.state
  <2>1. l \in Ctl /\ l.hwnd /\ l.mode = "Floating" /\ l.enabled = dock.enabled /\ l.sticky = dock.sticky
    BY <1>2, LetGoFields DEF SameDock
  <2>0. r = [l EXCEPT !.state = "Undocked"]
    OBVIOUS
  <2> HIDE DEF l, r
  <2>2. /\ r \in Ctl /\ r.hwnd = l.hwnd /\ r.mode = l.mode /\ r.state = "Undocked"
        /\ r.enabled = l.enabled /\ r.sticky = l.sticky
    BY <2>0, <2>1, StateFields
  <2> QED
    BY <1>2, <2>1, <2>2
<1>3a. d = Met(b, c, pid) /\ c \in Cefs \cup {"none"} /\ pid \in Cefs \cup {"none"}
  BY DEF Met
<1>3b. u = [d EXCEPT !.state = "Undocked"]
  OBVIOUS
<1> HIDE DEF b, d, u
<1>4. /\ d \in Ctl /\ d.hwnd = b.hwnd /\ d.mode = b.mode /\ d.state = b.state
      /\ d.enabled = b.enabled /\ d.sticky = b.sticky /\ d.rpid = pid
  BY <1>3, <1>3a, PanelFields, ZenonT(60)
<1>5. u \in Ctl /\ u.hwnd = d.hwnd /\ u.mode = d.mode /\ u.state = "Undocked"
  BY <1>4, <1>3b, StateFields
<1>6. ASSUME pid # "none", ~d.enabled \/ d.sticky PROVE GoodDock(d)
  BY <1>2, <1>3, <1>4, <1>6, LooseGood DEF Off, Sought
<1>7. ASSUME d.enabled, ~d.sticky PROVE GoodDock(Searched(d))
  BY <1>3, <1>4, <1>7, SearchedGood
<1>8. GoodDock(u)
  BY <1>3, <1>4, <1>5, UndockedGood
<1>9. d.enabled \in BOOLEAN /\ d.sticky \in BOOLEAN
  BY <1>4 DEF Ctl
<1> QED
  BY <1>1, <1>6, <1>7, <1>8, <1>9

LEMMA SeenPlaced ==
  ASSUME GoodDock(dock), NEW seen \in BOOLEAN
  PROVE  [dock EXCEPT !.seen = seen] \in Ctl /\ Placed([dock EXCEPT !.seen = seen])
<1> DEFINE d == dock
           f == [d EXCEPT !.seen = seen]
<1>1. d \in Ctl /\ Placed(d)
  BY DEF GoodDock
<1> HIDE DEF d
<1>2. f \in Ctl
  BY <1>1 DEF Ctl
<1>3. /\ f.enabled = d.enabled /\ f.sticky = d.sticky /\ f.state = d.state /\ f.rpid = d.rpid
      /\ f.panel = d.panel /\ f.picked = d.picked /\ f.hwnd = d.hwnd /\ f.mode = d.mode
      /\ f.owner = d.owner /\ f.hooked = d.hooked
  BY <1>1 DEF Ctl
<1> HIDE DEF f
<1>4. Placed(f)
  BY <1>1, <1>3 DEF Placed, Off, Moded, Attached, Sought
<1> QED
  BY <1>2, <1>4 DEF f, d

LEMMA SeenGood ==
  ASSUME Frames, GoodDock(dock), NEW seen \in BOOLEAN,
         Visibility(seen) \/ \E c \in Cefs : Bounds(c, seen)
  PROVE  GoodDock(dock')
<1>1. dock' = Applied([dock EXCEPT !.seen = seen])
  BY DEF Visibility, Bounds
<1> QED
  BY <1>1, SeenPlaced, AppliedGood

LEMMA GoneGood ==
  ASSUME NEW d, GoodDock(d), NEW c \in Cefs \cup {"none"}
  PROVE  GoodDock(Gone(d, c))
BY GoneFields, UndockedGood DEF GoodDock

LEMMA WorkspaceGood ==
  ASSUME Frames, GoodDock(dock), WorkspaceChanged PROVE GoodDock(dock')
<1> DEFINE l == LetGo(dock)
           g == [l EXCEPT !.panel = NoPanel]
<1>1. dock' = Searched(IF dock.state = "Docked" THEN g ELSE dock)
  BY DEF WorkspaceChanged
<1>2. dock \in Ctl /\ dock.hwnd /\ dock.enabled /\ ~dock.sticky
      /\ (dock.state # "Docked" => dock.mode = "Floating")
  BY DEF GoodDock, Placed, Moded, WorkspaceChanged, Heard
<1>3. l \in Ctl /\ l.hwnd /\ l.mode = "Floating" /\ l.enabled = dock.enabled /\ l.sticky = dock.sticky
  BY <1>2, LetGoFields DEF SameDock
<1> HIDE DEF l
<1>4. NoPanel \in [win : Targets \cup {"none"}, root : Roots \cup {"none"}]
  BY DEF NoPanel
<1>5. g \in Ctl /\ g.hwnd /\ g.mode = "Floating" /\ g.enabled /\ ~g.sticky
  <2>1. ASSUME NEW x \in Ctl
        PROVE  LET f == [x EXCEPT !.panel = NoPanel]
               IN  /\ f \in Ctl /\ f.enabled = x.enabled /\ f.sticky = x.sticky
                   /\ f.hwnd = x.hwnd /\ f.mode = x.mode
    BY <1>4, <2>1 DEF Ctl
  <2> QED
    BY <1>2, <1>3, <2>1
<1> HIDE DEF g
<1> QED
  BY <1>1, <1>2, <1>5, SearchedGood

LEMMA StickyFields ==
  ASSUME NEW d \in Ctl, NEW b \in BOOLEAN
  PROVE  LET f == [d EXCEPT !.sticky = b]
         IN  /\ f \in Ctl /\ f.sticky = b /\ f.enabled = d.enabled /\ f.state = d.state
             /\ f.hwnd = d.hwnd /\ f.mode = d.mode /\ f.rpid = d.rpid /\ f.panel = d.panel
             /\ f.picked = d.picked /\ f.owner = d.owner /\ f.hooked = d.hooked
             /\ f.seen = d.seen /\ f.lastVisible = d.lastVisible /\ f.behind = d.behind
             /\ Ticks(d, f) /\ f.dirty = d.dirty /\ f.pending = d.pending
<1> DEFINE f == [d EXCEPT !.sticky = b]
<1>1. f \in Ctl
  BY DEF Ctl
<1>2. /\ f.sticky = b /\ f.enabled = d.enabled /\ f.state = d.state
      /\ f.hwnd = d.hwnd /\ f.mode = d.mode /\ f.rpid = d.rpid /\ f.panel = d.panel
      /\ f.picked = d.picked
  BY DEF Ctl
<1>3. /\ f.owner = d.owner /\ f.hooked = d.hooked
      /\ f.seen = d.seen /\ f.lastVisible = d.lastVisible /\ f.behind = d.behind
      /\ Ticks(d, f) /\ f.dirty = d.dirty /\ f.pending = d.pending
  BY DEF Ctl, Ticks
<1> QED
  BY <1>1, <1>2, <1>3

\* The user wants it docked: nothing else changes yet.
LEMMA UnstickGood ==
  ASSUME NEW d, GoodDock(d) PROVE GoodDock([d EXCEPT !.sticky = FALSE])
<1> DEFINE f == [d EXCEPT !.sticky = FALSE]
<1>1. d \in Ctl
  BY DEF GoodDock
<1>2. /\ f \in Ctl /\ f.sticky = FALSE /\ f.enabled = d.enabled /\ f.state = d.state
      /\ f.hwnd = d.hwnd /\ f.mode = d.mode /\ f.rpid = d.rpid /\ f.panel = d.panel
      /\ f.picked = d.picked /\ f.owner = d.owner /\ f.hooked = d.hooked
      /\ f.seen = d.seen /\ f.lastVisible = d.lastVisible /\ f.behind = d.behind
      /\ f.flag = d.flag /\ f.armed = d.armed /\ f.dirty = d.dirty /\ f.pending = d.pending
  BY <1>1, StickyFields DEF Ticks
<1> HIDE DEF f
<1>3. Placed(f)
  BY <1>2 DEF GoodDock, Placed, Off, Moded, Attached, Sought
<1>4. Watched(f)
  BY <1>2 DEF GoodDock, Watched, Fresh, OnItsWay
<1>5. GoodDock(f)
  BY <1>2, <1>3, <1>4 DEF GoodDock
<1> QED
  BY <1>5 DEF f

LEMMA UserDockGood ==
  ASSUME Frames, GoodDock(dock), UserDock PROVE GoodDock(dock')
<1> DEFINE d == [dock EXCEPT !.sticky = FALSE]
           p == [Unhooked(d) EXCEPT !.state = "Picking"]
<1>1. dock' = IF ~d.enabled \/ d.state = "Picking" THEN d
               ELSE IF d.state = "Docked" /\ (d.rpid # "none" \/ d.picked) THEN Applied(d)
               ELSE IF d.rpid # "none" THEN Searched(d)
               ELSE IF Default(d) # "none" THEN Defaulted(d)
               ELSE IF roots = {} THEN d ELSE p
  BY DEF UserDock, Picking
<1>2. GoodDock(d)
  BY UnstickGood
<1>3. d \in Ctl /\ ~d.sticky /\ d.hwnd
  BY StickyFields DEF UserDock, GoodDock
<1> HIDE DEF d
<1>4. ASSUME d.enabled, d.state # "Docked" PROVE GoodDock(p) /\ GoodDock(Searched(d))
  <2> DEFINE u == Unhooked(d)
  <2>1. u \in Ctl /\ SameDock(d, u) /\ Aim(d, u)
    BY <1>3, UnhookedFields
  <2>2. p = [u EXCEPT !.state = "Picking"]
    OBVIOUS
  <2> HIDE DEF u, p
  <2>3. /\ p \in Ctl /\ p.state = "Picking" /\ p.enabled = u.enabled /\ p.sticky = u.sticky
        /\ p.hwnd = u.hwnd /\ p.mode = u.mode
    BY <2>1, <2>2, StateFields
  <2>4. d.mode = "Floating"
    BY <1>2, <1>3, <1>4 DEF GoodDock, Placed, Moded
  <2>5. GoodDock(p)
    BY <1>3, <1>4, <2>1, <2>3, <2>4, LooseGood DEF SameDock, Aim, Off, Sought
  <2> QED
    BY <1>3, <1>4, <2>4, <2>5, SearchedGood
<1>5. GoodDock(Applied(d)) /\ GoodDock(Defaulted(d))
  BY <1>2, AppliedGood, DefaultedGood DEF GoodDock
<1>6. d.state = "Docked" => d.rpid # "none" \/ d.picked
  BY <1>2 DEF GoodDock, Placed, Attached
<1>7. d.enabled \in BOOLEAN
  BY <1>3 DEF Ctl
<1> HIDE DEF p
<1> QED
  BY <1>1, <1>2, <1>4, <1>5, <1>6, <1>7

LEMMA UserUndockGood ==
  ASSUME Frames, GoodDock(dock), UserUndock PROVE GoodDock(dock')
<1> DEFINE v == Unhooked(dock)
           d == [v EXCEPT !.sticky = TRUE]
           l == LetGo(d)
           f == [l EXCEPT !.picked = FALSE, !.state = "Undocked"]
           g == [d EXCEPT !.state = "Undocked"]
<1>1. dock' = IF d.state = "Docked" THEN f ELSE g
  BY DEF UserUndock
<1>2. dock \in Ctl /\ dock.hwnd /\ (dock.state # "Docked" => dock.mode = "Floating")
  BY DEF GoodDock, Placed, Moded, UserUndock
<1>3. v \in Ctl /\ SameDock(dock, v) /\ Aim(dock, v)
  BY <1>2, UnhookedFields
<1>a. d = [v EXCEPT !.sticky = TRUE] /\ l = LetGo(d) /\ g = [d EXCEPT !.state = "Undocked"]
      /\ f = [l EXCEPT !.picked = FALSE, !.state = "Undocked"]
  OBVIOUS
<1> HIDE DEF v, d, l, f, g
<1>4. d \in Ctl /\ d.hwnd = v.hwnd /\ d.mode = v.mode /\ d.state = v.state
  BY <1>3, <1>a, StickyFields
<1>5. l \in Ctl /\ (d.hwnd => l.mode = "Floating") /\ l.hwnd = d.hwnd
  BY <1>4, <1>a, LetGoFields DEF SameDock
<1>6. f \in Ctl /\ f.hwnd = l.hwnd /\ f.mode = l.mode /\ f.state = "Undocked"
  <2>1. ASSUME NEW x \in Ctl
        PROVE  LET y == [x EXCEPT !.picked = FALSE, !.state = "Undocked"]
               IN  y \in Ctl /\ y.hwnd = x.hwnd /\ y.mode = x.mode /\ y.state = "Undocked"
    BY <2>1, ZenonT(60) DEF Ctl
  <2> QED
    BY <1>5, <1>a, <2>1
<1>7. g \in Ctl /\ g.hwnd = d.hwnd /\ g.mode = d.mode /\ g.state = "Undocked"
  BY <1>4, <1>a, StateFields
<1>8. d.state = "Docked" => GoodDock(f)
  BY <1>2, <1>3, <1>4, <1>5, <1>6, UndockedGood DEF SameDock
<1>9. d.state # "Docked" => GoodDock(g)
  BY <1>2, <1>3, <1>4, <1>7, UndockedGood DEF SameDock, Aim
<1> QED
  BY <1>1, <1>8, <1>9

LEMMA EnabledFields ==
  ASSUME NEW d \in Ctl, NEW b \in BOOLEAN
  PROVE  LET f == [d EXCEPT !.enabled = b]
         IN  /\ f \in Ctl /\ f.enabled = b /\ f.sticky = d.sticky /\ f.state = d.state
             /\ f.hwnd = d.hwnd /\ f.mode = d.mode
BY DEF Ctl

LEMMA SetEnabledGood ==
  ASSUME Frames, GoodDock(dock), NEW on \in BOOLEAN, SetEnabled(on) PROVE GoodDock(dock')
<1> DEFINE d == [dock EXCEPT !.enabled = on]
           l == LetGo(d)
           f == [l EXCEPT !.state = "Undocked"]
           v == Unhooked(d)
           g == [v EXCEPT !.state = "Undocked"]
<1>1. dock' = IF ~on THEN IF d.state = "Docked" THEN f ELSE g
              ELSE IF d.sticky THEN d
              ELSE IF d.rpid # "none" THEN Tried(d) ELSE Defaulted(d)
  BY DEF SetEnabled
<1>2. dock \in Ctl /\ dock.hwnd /\ Off(dock) /\ on # dock.enabled
      /\ (dock.state # "Docked" => dock.mode = "Floating")
  BY DEF GoodDock, Placed, Moded, SetEnabled
<1>a. /\ d = [dock EXCEPT !.enabled = on] /\ l = LetGo(d) /\ f = [l EXCEPT !.state = "Undocked"]
      /\ v = Unhooked(d) /\ g = [v EXCEPT !.state = "Undocked"]
  OBVIOUS
<1> HIDE DEF d, l, f, v, g
<1>3. /\ d \in Ctl /\ d.enabled = on /\ d.sticky = dock.sticky /\ d.state = dock.state
      /\ d.hwnd = dock.hwnd /\ d.mode = dock.mode
  BY <1>2, <1>a, EnabledFields
<1>4. l \in Ctl /\ l.mode = "Floating"
  BY <1>2, <1>3, <1>a, LetGoFields
<1>5. f \in Ctl /\ f.state = "Undocked" /\ f.mode = l.mode
  BY <1>4, <1>a, StateFields
<1>6. v \in Ctl /\ Aim(d, v)
  BY <1>3, <1>a, UnhookedFields
<1>7. g \in Ctl /\ g.state = "Undocked" /\ g.mode = v.mode
  BY <1>6, <1>a, StateFields
<1>8. ASSUME ~on PROVE GoodDock(dock')
  <2>1. GoodDock(f)
    BY <1>4, <1>5, UndockedGood
  <2>2. d.state # "Docked" => GoodDock(g)
    BY <1>2, <1>3, <1>6, <1>7, UndockedGood DEF Aim
  <2> QED
    BY <1>1, <1>8, <2>1, <2>2
<1>9. ASSUME on PROVE GoodDock(dock')
  <2>1. d.state = "Undocked" /\ d.mode = "Floating"
    BY <1>2, <1>3, <1>9, ZenonT(60) DEF Off, Ctl
  <2>2. GoodDock(d)
    BY <1>3, <2>1, UndockedGood
  <2>3. GoodDock(Defaulted(d)) /\ GoodDock(Tried(d))
    BY <1>2, <1>3, <2>1, <2>2, DefaultedGood, TriedGood DEF GoodDock, Placed
  <2> QED
    BY <1>1, <1>9, <2>2, <2>3
<1> QED
  BY <1>8, <1>9

\* A pick that ends leaves it undocked; what it was used for needs it to go on.
LEMMA CancelledGood ==
  ASSUME NEW d, GoodDock(d)
  PROVE  /\ GoodDock(Cancelled(d)) /\ Cancelled(d).hwnd = d.hwnd
         /\ Cancelled(d).enabled = d.enabled /\ Cancelled(d).sticky = d.sticky
<1> DEFINE f == [d EXCEPT !.state = "Undocked"]
<1>1. Cancelled(d) = IF d.state = "Picking" THEN f ELSE d
  BY DEF Cancelled
<1>2. d \in Ctl /\ f = [d EXCEPT !.state = "Undocked"]
  BY DEF GoodDock
<1> HIDE DEF f
<1>3. /\ f \in Ctl /\ f.state = "Undocked" /\ f.enabled = d.enabled /\ f.sticky = d.sticky
      /\ f.hwnd = d.hwnd /\ f.mode = d.mode
  BY <1>2, StateFields
<1>4. d.state = "Picking" => GoodDock(f)
  BY <1>3, UndockedGood DEF GoodDock, Placed, Moded
<1> QED
  BY <1>1, <1>3, <1>4

LEMMA PollPickGood ==
  ASSUME Frames, GoodDock(dock), NEW t \in Targets \cup {"none"}, PollPick(t) PROVE GoodDock(dock')
<1> DEFINE d == Cancelled(dock)
<1>1. dock' = IF t # "none" /\ CanDock(d, t) THEN Window(d, t) ELSE d
  BY DEF PollPick
<1>2. GoodDock(d) /\ d.enabled = dock.enabled /\ d.sticky = dock.sticky
  BY CancelledGood
<1> HIDE DEF d
<1>3. d.enabled /\ ~d.sticky
  BY <1>2 DEF PollPick, GoodDock, Placed, Off, Ctl
<1>4. ASSUME t # "none", CanDock(d, t) PROVE GoodDock(Window(d, t))
  <2>1. t \in Targets /\ d.hwnd /\ d \in Ctl
    BY <1>2, <1>4 DEF CanDock, GoodDock
  <2> QED
    BY <1>3, <1>4, <2>1, WindowGood
<1> QED
  BY <1>1, <1>2, <1>4

LEMMA DockAtGood ==
  ASSUME Frames, GoodDock(dock), NEW t \in Targets, DockAt(t) PROVE GoodDock(dock')
<1> DEFINE d == [dock EXCEPT !.sticky = FALSE]
           e == Cancelled(d)
<1>1. dock' = IF CanDock(d, t) THEN Window(e, t) ELSE e
  BY DEF DockAt
<1>2. GoodDock(d) /\ d.enabled /\ ~d.sticky /\ d.hwnd
  BY UnstickGood, StickyFields DEF DockAt, GoodDock
<1> HIDE DEF d
<1>3. GoodDock(e) /\ e.enabled /\ ~e.sticky /\ e.hwnd
  BY <1>2, CancelledGood
<1> HIDE DEF e
<1>4. ASSUME CanDock(d, t) PROVE GoodDock(Window(e, t))
  <2>1. CanDock(e, t) /\ e \in Ctl
    BY <1>3, <1>4 DEF CanDock, GoodDock
  <2> QED
    BY <1>3, <2>1, WindowGood
<1> QED
  BY <1>1, <1>3, <1>4

Noted(d, x, b, fl, ar) == [d EXCEPT !.pending = x, !.dirty = b, !.flag = fl, !.armed = ar]
LEMMA TickFields ==
  ASSUME NEW d \in Ctl, NEW x \in SUBSET {"geometry", "gone"}, NEW b \in BOOLEAN,
         NEW fl \in {"no", "posted", "lost"}, NEW ar \in {"no", "set", "lost"}
  PROVE  LET f == Noted(d, x, b, fl, ar)
         IN  /\ f \in Ctl /\ Aim(d, f) /\ f.hooked = d.hooked
             /\ f.enabled = d.enabled /\ f.sticky = d.sticky /\ f.state = d.state
             /\ f.rpid = d.rpid /\ f.panel = d.panel /\ f.picked = d.picked
             /\ f.seen = d.seen /\ f.lastVisible = d.lastVisible /\ f.behind = d.behind
             /\ f.hwnd = d.hwnd /\ f.conn = d.conn
             /\ f.pending = x /\ f.dirty = b /\ f.flag = fl /\ f.armed = ar
<1> DEFINE f == Noted(d, x, b, fl, ar)
<1>1. f \in Ctl
  BY ZenonT(60) DEF Ctl, Noted
<1>2. /\ Aim(d, f) /\ f.hooked = d.hooked
      /\ f.enabled = d.enabled /\ f.sticky = d.sticky /\ f.state = d.state
      /\ f.rpid = d.rpid /\ f.panel = d.panel
  BY DEF Ctl, Noted, Aim
<1>3. /\ f.picked = d.picked
      /\ f.seen = d.seen /\ f.lastVisible = d.lastVisible /\ f.behind = d.behind
      /\ f.hwnd = d.hwnd /\ f.conn = d.conn
      /\ f.pending = x /\ f.dirty = b /\ f.flag = fl /\ f.armed = ar
  BY DEF Ctl, Noted
<1> QED
  BY <1>1, <1>2, <1>3

\* onDockTick: what was noted is applied, or put off to the timer.
LEMMA FollowedGood ==
  ASSUME Frames, NEW d \in Ctl, Placed(d), NEW soon \in BOOLEAN,
         ~(d.pending = {} /\ ~d.dirty) \/ Watched([d EXCEPT !.pending = {}])
  PROVE  GoodDock(Followed(d, soon))
<1> DEFINE q == [d EXCEPT !.pending = {}]
           w == [q EXCEPT !.dirty = TRUE, !.armed = IF @ = "no" THEN "set" ELSE @]
           n == [q EXCEPT !.dirty = FALSE]
           ar == IF d.armed = "no" THEN "set" ELSE d.armed
<1>1. Followed(d, soon) =
        IF d.state # "Docked" THEN q
        ELSE IF "gone" \in d.pending THEN Gone(d, d.conn)
        ELSE IF d.pending = {} /\ ~d.dirty THEN q
        ELSE IF soon THEN w ELSE Applied(n)
  BY DEF Followed
<1>2. ar \in {"no", "set", "lost"} /\ ar # "no"
  BY DEF Ctl
<1>3. /\ q = Noted(d, {}, d.dirty, d.flag, d.armed)
      /\ w = Noted(d, {}, TRUE, d.flag, ar)
      /\ n = Noted(d, {}, FALSE, d.flag, d.armed)
  BY ZenonT(60) DEF Ctl, Noted
<1> DEFINE Rest(f) == /\ f \in Ctl /\ Aim(d, f) /\ f.hooked = d.hooked
                      /\ f.enabled = d.enabled /\ f.sticky = d.sticky /\ f.state = d.state
                      /\ f.rpid = d.rpid /\ f.panel = d.panel /\ f.picked = d.picked
                      /\ f.hwnd = d.hwnd
<1>4. Rest(q) /\ Rest(w) /\ Rest(n)
  <2>0. {} \in SUBSET {"geometry", "gone"} /\ TRUE \in BOOLEAN /\ FALSE \in BOOLEAN
    OBVIOUS
  <2>1. d.dirty \in BOOLEAN /\ d.flag \in {"no", "posted", "lost"} /\ d.armed \in {"no", "set", "lost"}
    BY DEF Ctl
  <2> HIDE DEF q, w, n, ar
  <2>2. Rest(q)
    BY <1>2, <1>3, <2>0, <2>1, TickFields
  <2>3. Rest(w)
    <3>1. \A b \in BOOLEAN : Rest(Noted(d, {}, b, d.flag, ar))
      BY <1>2, <2>0, <2>1, TickFields
    <3> QED
      BY <1>3, <2>0, <3>1
  <2>4. Rest(n)
    <3>1. \A b \in BOOLEAN : Rest(Noted(d, {}, b, d.flag, d.armed))
      BY <2>0, <2>1, TickFields
    <3> QED
      BY <1>3, <2>0, <3>1
  <2> QED
    BY <2>2, <2>3, <2>4
<1>5. w.dirty = TRUE /\ w.armed = ar
  <2>0. {} \in SUBSET {"geometry", "gone"} /\ TRUE \in BOOLEAN
    OBVIOUS
  <2>1. d.flag \in {"no", "posted", "lost"}
    BY DEF Ctl
  <2> HIDE DEF w, ar
  <2>2. \A b \in BOOLEAN : LET f == Noted(d, {}, b, d.flag, ar) IN f.dirty = b /\ f.armed = ar
    BY <1>2, <2>0, <2>1, TickFields
  <2> QED
    BY <1>3, <2>0, <2>2
<1> HIDE DEF q, w, n, ar
<1>6. \A f : Rest(f) => Placed(f)
  BY DEF Placed, Off, Moded, Attached, Sought, Aim
<1>7. CASE d.state # "Docked"
  <2>1. GoodDock(q)
    BY <1>4, <1>6, <1>7 DEF GoodDock, Watched
  <2> QED
    BY <1>1, <1>7, <2>1
<1>8. CASE d.state = "Docked" /\ "gone" \in d.pending
  <2>1. d.conn \in Cefs \cup {"none"}
    BY DEF Ctl
  <2>2. /\ Gone(d, d.conn) \in Ctl /\ Gone(d, d.conn).state = "Undocked"
        /\ Gone(d, d.conn).hwnd => Gone(d, d.conn).mode = "Floating"
    BY <2>1, GoneFields
  <2> QED
    BY <1>1, <1>8, <2>2, UndockedGood
<1>9. CASE d.state = "Docked" /\ "gone" \notin d.pending /\ d.pending = {} /\ ~d.dirty
  <2>1. GoodDock(q)
    BY <1>3, <1>4, <1>6, <1>9 DEF GoodDock, q
  <2> QED
    BY <1>1, <1>9, <2>1
<1>10. CASE d.state = "Docked" /\ "gone" \notin d.pending /\ ~(d.pending = {} /\ ~d.dirty) /\ soon
  <2>1. OnItsWay(w)
    BY <1>2, <1>5 DEF OnItsWay, Ctl, ar
  <2>2. GoodDock(w)
    BY <1>4, <1>6, <2>1 DEF GoodDock, Watched
  <2> QED
    BY <1>1, <1>10, <2>2
<1>11. CASE d.state = "Docked" /\ "gone" \notin d.pending /\ ~(d.pending = {} /\ ~d.dirty) /\ ~soon
  <2>1. GoodDock(Applied(n))
    BY <1>4, <1>6, <1>11, AppliedGood
  <2> QED
    BY <1>1, <1>11, <2>1
<1> QED
  BY <1>7, <1>8, <1>9, <1>10, <1>11

LEMMA DockTickGood ==
  ASSUME Frames, GoodDock(dock), NEW soon \in BOOLEAN, DockTick(soon) PROVE GoodDock(dock')
<1> DEFINE d == [dock EXCEPT !.flag = "no"]
           q == [d EXCEPT !.pending = {}]
<1>1. dock' = Followed(d, soon)
  BY DEF DockTick, OnDockTick
<1>2. dock \in Ctl /\ dock.flag = "posted" /\ Placed(dock)
  BY DEF GoodDock, DockTick
<1>3. /\ d = Noted(dock, dock.pending, dock.dirty, "no", dock.armed)
      /\ q = Noted(dock, {}, dock.dirty, "no", dock.armed)
  BY <1>2, ZenonT(60) DEF Ctl, Noted
<1>4. /\ dock.pending \in SUBSET {"geometry", "gone"} /\ {} \in SUBSET {"geometry", "gone"}
      /\ dock.dirty \in BOOLEAN /\ dock.armed \in {"no", "set", "lost"}
      /\ "no" \in {"no", "posted", "lost"}
  BY <1>2 DEF Ctl
<1> DEFINE Rest(f) == /\ f \in Ctl /\ Aim(dock, f) /\ f.hooked = dock.hooked
                      /\ f.enabled = dock.enabled /\ f.sticky = dock.sticky
                      /\ f.state = dock.state /\ f.rpid = dock.rpid /\ f.panel = dock.panel
                      /\ f.picked = dock.picked /\ f.hwnd = dock.hwnd
                      /\ f.seen = dock.seen /\ f.lastVisible = dock.lastVisible
                      /\ f.behind = dock.behind /\ f.dirty = dock.dirty
                      /\ f.armed = dock.armed /\ f.flag = "no"
<1>q. q = [d EXCEPT !.pending = {}]
  OBVIOUS
<1> HIDE DEF d, q
<1>5. Rest(d) /\ d.pending = dock.pending
  BY <1>2, <1>3, <1>4, TickFields
<1>6. Rest(q)
  BY <1>2, <1>3, <1>4, TickFields
<1>7. Placed(d)
  BY <1>2, <1>5 DEF Placed, Off, Moded, Attached, Sought, Aim
<1>8. d.pending = {} /\ ~d.dirty => Watched(q)
  <2> SUFFICES ASSUME d.pending = {}, ~d.dirty, q.hwnd, q.state = "Docked", q.panel.win # "none",
                      ~Fresh(q)
               PROVE  OnItsWay(q)
    BY DEF Watched
  <2>1. OnItsWay(dock)
    BY <1>6 DEF GoodDock, Watched, Fresh
  <2> QED
    BY <1>2, <1>5, <1>6, <2>1 DEF OnItsWay
<1> QED
  BY <1>1, <1>5, <1>7, <1>8, <1>q, FollowedGood

LEMMA ThrottleTimerGood ==
  ASSUME Frames, GoodDock(dock), NEW soon \in BOOLEAN, ThrottleTimer(soon) PROVE GoodDock(dock')
<1> DEFINE a == [dock EXCEPT !.armed = "no"]
           e == [[dock EXCEPT !.armed = "no", !.pending = @ \cup {"geometry"}] EXCEPT !.flag = "no"]
           more == dock.pending \cup {"geometry"}
<1>1. dock' = IF ~dock.dirty THEN a ELSE Followed(e, soon)
  BY DEF ThrottleTimer, OnDockTick
<1>2. dock \in Ctl /\ dock.armed = "set" /\ Placed(dock) /\ Watched(dock)
  BY DEF GoodDock, ThrottleTimer
<1>3. /\ a = Noted(dock, dock.pending, dock.dirty, dock.flag, "no")
      /\ e = Noted(dock, more, dock.dirty, "no", "no")
  BY <1>2, ZenonT(60) DEF Ctl, Noted
<1>4. /\ dock.pending \in SUBSET {"geometry", "gone"} /\ more \in SUBSET {"geometry", "gone"}
      /\ dock.dirty \in BOOLEAN /\ dock.flag \in {"no", "posted", "lost"}
      /\ "no" \in {"no", "set", "lost"} /\ "no" \in {"no", "posted", "lost"}
      /\ more # {}
  BY <1>2 DEF Ctl
<1> DEFINE Rest(x) == /\ x \in Ctl /\ Aim(dock, x) /\ x.hooked = dock.hooked
                      /\ x.enabled = dock.enabled /\ x.sticky = dock.sticky
                      /\ x.state = dock.state /\ x.rpid = dock.rpid /\ x.panel = dock.panel
                      /\ x.picked = dock.picked /\ x.hwnd = dock.hwnd
                      /\ x.seen = dock.seen /\ x.lastVisible = dock.lastVisible
                      /\ x.behind = dock.behind /\ x.dirty = dock.dirty /\ x.armed = "no"
<1> HIDE DEF a, e, more
<1>5. Rest(a) /\ a.pending = dock.pending /\ a.flag = dock.flag
  BY <1>2, <1>3, <1>4, TickFields
<1>6. Rest(e) /\ e.pending = more
  BY <1>2, <1>3, <1>4, TickFields
<1>7. Placed(a) /\ Placed(e)
  BY <1>2, <1>5, <1>6 DEF Placed, Off, Moded, Attached, Sought, Aim
<1>8. CASE ~dock.dirty
  <2>1. Watched(a)
    <3> SUFFICES ASSUME a.hwnd, a.state = "Docked", a.panel.win # "none", ~Fresh(a)
                 PROVE  OnItsWay(a)
      BY DEF Watched
    <3>1. OnItsWay(dock)
      BY <1>2, <1>5 DEF Watched, Fresh
    <3> QED
      BY <1>2, <1>5, <1>8, <3>1 DEF OnItsWay
  <2> QED
    BY <1>1, <1>5, <1>7, <1>8, <2>1 DEF GoodDock
<1>9. CASE dock.dirty
  <2>1. GoodDock(Followed(e, soon))
    BY <1>4, <1>6, <1>7, FollowedGood
  <2> QED
    BY <1>1, <1>9, <2>1
<1> QED
  BY <1>2, <1>8, <1>9 DEF Ctl

LEMMA EverySecondGood ==
  ASSUME Frames, GoodDock(dock), NEW late \in BOOLEAN, NEW valid \in BOOLEAN, EverySecond(late, valid)
  PROVE  GoodDock(dock')
<1>1. dock \in Ctl /\ Placed(dock) /\ dock.hwnd /\ dock.state # "Picking"
  BY DEF GoodDock, EverySecond
<1>2. CASE dock.state = "Undocked"
  BY <1>2, DefaultedGood DEF EverySecond
<1>3. CASE dock.state = "Searching" /\ ~late
  BY <1>1, <1>3, TriedGood DEF EverySecond, Placed, Moded
<1>4. CASE dock.state = "Searching" /\ late
  <2> DEFINE f == [dock EXCEPT !.fallback = TRUE]
             u == [dock EXCEPT !.state = "Undocked"]
  <2>1. dock' = IF valid /\ "main" \in roots /\ ~elevated THEN DockedTo(f, "none", "main") ELSE u
    BY <1>4 DEF EverySecond, SearchEnds
  <2>u. u = [dock EXCEPT !.state = "Undocked"]
    OBVIOUS
  <2>2. /\ f \in Ctl /\ f.hwnd = dock.hwnd /\ f.enabled = dock.enabled /\ f.sticky = dock.sticky
        /\ f.rpid = dock.rpid
    BY <1>1, ZenonT(60) DEF Ctl
  <2> HIDE DEF f, u
  <2>3. u \in Ctl /\ u.state = "Undocked" /\ u.mode = dock.mode
    BY <1>1, <2>u, StateFields
  <2>4. GoodDock(u)
    BY <1>1, <1>4, <2>3, UndockedGood DEF Placed, Moded
  <2>5. dock.enabled /\ ~dock.sticky /\ dock.rpid # "none"
    BY <1>1, <1>4 DEF Placed, Off, Sought, Ctl
  <2>6. "main" \in roots => GoodDock(DockedTo(f, "none", "main"))
    BY <1>1, <2>2, <2>5, DockedToGood
  <2> QED
    BY <2>1, <2>4, <2>6
<1>5. CASE dock.state = "Docked"
  <2> DEFINE Back == /\ dock.fallback /\ dock.panel.root \in roots /\ dock.rpid # "none"
                     /\ Exists(dock.rpid)
             root == RootOf(dock.rpid)
             p == [win |-> dock.rpid, root |-> root]
             a == [dock EXCEPT !.panel = p, !.fallback = FALSE]
             d == Hooked(a)
             o == Owned(d, root)
  <2>1. dock' = IF Back THEN Applied(IF root = dock.panel.root THEN d ELSE o)
                ELSE IF dock.panel.root \notin roots THEN Gone(dock, dock.conn) ELSE Applied(dock)
    BY <1>5 DEF EverySecond
  <2>2. CASE ~Back
    <3>1. dock.conn \in Cefs \cup {"none"}
      BY <1>1 DEF Ctl
    <3> QED
      BY <1>1, <2>1, <2>2, <3>1, AppliedGood, GoneGood
  <2>3. CASE Back
    <3>1. dock.rpid \in Targets \cup {"none"} /\ root \in roots /\ root \in Roots
      BY <1>1, <2>3 DEF Ctl, Targets, Exists, Frames
    <3> HIDE DEF root
    <3>2. p \in [win : Targets \cup {"none"}, root : Roots \cup {"none"}]
      BY <3>1
    <3>3. p # NoPanel /\ p.root = root
      BY <3>1 DEF NoPanel, Roots
    <3> HIDE DEF p
    <3>4. /\ a \in Ctl /\ a.enabled = dock.enabled /\ a.sticky = dock.sticky /\ a.state = dock.state
          /\ a.rpid = dock.rpid /\ a.panel = p /\ a.hwnd = dock.hwnd /\ a.mode = dock.mode
          /\ a.owner = dock.owner
      BY <1>1, <3>2, ZenonT(60) DEF Ctl
    <3> HIDE DEF a
    <3>5. d \in Ctl /\ SameDock(a, d) /\ Aim(a, d) /\ d.hooked = TRUE
      BY <3>4, HookedFields
    <3> HIDE DEF d
    <3>6. o \in Ctl /\ SameDock(d, o) /\ Hooks(d, o) /\ (d.hwnd => o.mode = "Docked" /\ o.owner = root)
      BY <3>1, <3>5, OwnedFields
    <3> HIDE DEF o
    <3>7. Placed(o)
      BY <1>1, <1>5, <2>3, <3>3, <3>4, <3>5, <3>6
         DEF Placed, Off, Moded, Attached, Sought, SameDock, Hooks
    <3>8. root = dock.panel.root => Placed(d)
      BY <1>1, <1>5, <2>3, <3>3, <3>4, <3>5
         DEF Placed, Off, Moded, Attached, Sought, SameDock, Aim
    <3> QED
      BY <2>1, <2>3, <3>5, <3>6, <3>7, <3>8, AppliedGood
  <2> QED
    BY <2>2, <2>3
<1> QED
  BY <1>1, <1>2, <1>3, <1>4, <1>5 DEF Ctl

LEMMA WindowTakenGood ==
  ASSUME GoodDock(dock), OwnerTakesWindow PROVE GoodDock(dock')
<1> DEFINE r == Remade(dock)
           f == [r EXCEPT !.hwnd = FALSE]
<1>1. r \in Ctl /\ SameDock(dock, r) /\ Hooks(dock, r) /\ dock \in Ctl /\ Placed(dock)
  BY RemadeFields DEF GoodDock
<1>2. dock' = f
  BY DEF OwnerTakesWindow
<1> HIDE DEF r
<1>3. /\ f \in Ctl /\ f.hwnd = FALSE /\ f.enabled = r.enabled /\ f.sticky = r.sticky
      /\ f.state = r.state /\ f.rpid = r.rpid /\ f.panel = r.panel /\ f.picked = r.picked
      /\ f.hooked = r.hooked
  BY <1>1, ZenonT(60) DEF Ctl
<1> HIDE DEF f
<1>4. Placed(f)
  BY <1>1, <1>3 DEF Placed, Off, Moded, Attached, Sought, SameDock, Hooks
<1> QED
  BY <1>2, <1>3, <1>4 DEF GoodDock, Watched

LEMMA RenewedTypes ==
  ASSUME NEW d \in Ctl
  PROVE  /\ [d EXCEPT !.armed = "no", !.dirty = FALSE] \in Ctl
         /\ [d EXCEPT !.fallback = FALSE, !.behind = FALSE] \in Ctl
         /\ [d EXCEPT !.lastVisible = FALSE, !.panel = NoPanel] \in Ctl
         /\ [d EXCEPT !.picked = FALSE, !.state = "Undocked"] \in Ctl
         /\ [d EXCEPT !.tray = "none"] \in Ctl
<1>1. [d EXCEPT !.armed = "no", !.dirty = FALSE] \in Ctl
  BY ZenonT(60) DEF Ctl
<1>2. [d EXCEPT !.fallback = FALSE, !.behind = FALSE] \in Ctl
  BY ZenonT(60) DEF Ctl
<1>3. NoPanel \in [win : Targets \cup {"none"}, root : Roots \cup {"none"}]
  BY DEF NoPanel
<1>4. [d EXCEPT !.lastVisible = FALSE, !.panel = NoPanel] \in Ctl
  BY <1>3, ZenonT(60) DEF Ctl
<1>5. [d EXCEPT !.picked = FALSE, !.state = "Undocked"] \in Ctl
  BY ZenonT(60) DEF Ctl
<1>6. [d EXCEPT !.tray = "none"] \in Ctl
  BY DEF Ctl
<1> QED
  BY <1>1, <1>2, <1>4, <1>5, <1>6

LEMMA RenewedFields ==
  ASSUME NEW u \in Ctl
  PROVE  LET f == [u EXCEPT
                    !.hwnd = TRUE, !.mode = "Floating", !.owner = "none",
                    !.armed = "no", !.dirty = FALSE, !.fallback = FALSE, !.behind = FALSE,
                    !.lastVisible = FALSE, !.panel = NoPanel, !.picked = FALSE,
                    !.state = "Undocked", !.tray = "none"]
         IN  /\ f \in Ctl /\ f.hwnd /\ f.mode = "Floating" /\ f.state = "Undocked"
             /\ f.enabled = u.enabled /\ f.sticky = u.sticky
<1> DEFINE a == [u EXCEPT !.hwnd = TRUE, !.mode = "Floating", !.owner = "none"]
           b == [a EXCEPT !.armed = "no", !.dirty = FALSE]
           c == [b EXCEPT !.fallback = FALSE, !.behind = FALSE]
           e == [c EXCEPT !.lastVisible = FALSE, !.panel = NoPanel]
           g == [e EXCEPT !.picked = FALSE, !.state = "Undocked"]
           h == [g EXCEPT !.tray = "none"]
           f == [u EXCEPT
                    !.hwnd = TRUE, !.mode = "Floating", !.owner = "none",
                    !.armed = "no", !.dirty = FALSE, !.fallback = FALSE, !.behind = FALSE,
                    !.lastVisible = FALSE, !.panel = NoPanel, !.picked = FALSE,
                    !.state = "Undocked", !.tray = "none"]
           As(x, y) == /\ x.hwnd = y.hwnd /\ x.mode = y.mode
                       /\ x.enabled = y.enabled /\ x.sticky = y.sticky
<1>1. f = h
  OBVIOUS
<1>2. a \in Ctl
  BY ZenonT(60) DEF Ctl
<1>3. a.hwnd = TRUE /\ a.mode = "Floating" /\ a.enabled = u.enabled /\ a.sticky = u.sticky
  BY DEF Ctl
<1> HIDE DEF a, f
<1>4. b \in Ctl
  BY <1>2, RenewedTypes DEF b
<1>5. As(b, a)
  BY <1>2 DEF Ctl
<1> HIDE DEF b
<1>7. c \in Ctl
  BY <1>4, RenewedTypes DEF c
<1>8. As(c, b)
  BY <1>4 DEF Ctl
<1> HIDE DEF c
<1>9. e \in Ctl
  BY <1>7, RenewedTypes DEF e
<1>10. As(e, c)
  BY <1>7 DEF Ctl
<1> HIDE DEF e
<1>11. g \in Ctl
  BY <1>9, RenewedTypes DEF g
<1>12. As(g, e) /\ g.state = "Undocked"
  BY <1>9 DEF Ctl
<1> HIDE DEF g
<1>13. h \in Ctl
  BY <1>11, RenewedTypes DEF h
<1>14. As(h, g) /\ h.state = g.state
  BY <1>11 DEF Ctl
<1> HIDE DEF h
<1>15. f \in Ctl /\ f.hwnd /\ f.mode = "Floating" /\ f.state = "Undocked"
       /\ f.enabled = u.enabled /\ f.sticky = u.sticky
  BY <1>1, <1>3, <1>5, <1>8, <1>10, <1>12, <1>13, <1>14
<1> QED
  BY <1>15 DEF f

LEMMA WindowRecreatedGood ==
  ASSUME Frames, GoodDock(dock), WindowRecreated PROVE GoodDock(dock')
<1> DEFINE u == Unhooked(dock)
           d == [u EXCEPT
                    !.hwnd = TRUE, !.mode = "Floating", !.owner = "none",
                    !.armed = "no", !.dirty = FALSE, !.fallback = FALSE, !.behind = FALSE,
                    !.lastVisible = FALSE, !.panel = NoPanel, !.picked = FALSE,
                    !.state = "Undocked", !.tray = "none"]
           on == d.enabled /\ ~d.sticky
<1>1. dock' = IF on /\ d.rpid # "none" /\ roots # {} THEN Searched(d)
              ELSE IF on /\ dock.picked /\ d.saved = "rect" /\ CanDock(d, "pane") THEN Window(d, "pane")
              ELSE d
  BY DEF WindowRecreated
<1>2. u \in Ctl
  BY UnhookedFields DEF GoodDock
<1> HIDE DEF u
<1>3. d \in Ctl /\ d.hwnd /\ d.mode = "Floating" /\ d.state = "Undocked"
  BY <1>2, RenewedFields
<1> HIDE DEF d
<1>4. GoodDock(d)
  BY <1>3, UndockedGood
<1>5. on => GoodDock(Searched(d))
  BY <1>3, SearchedGood
<1>6. on /\ CanDock(d, "pane") => GoodDock(Window(d, "pane"))
  BY <1>3, WindowGood DEF Targets
<1> QED
  BY <1>1, <1>4, <1>5, <1>6

-----------------------------------------------------------------------------
(* Media Encoder's own steps: the window may fall behind, and then a tick  *)
(* is on its way.                                                          *)

Heeded(d, behind, pending, flag) ==
    [d EXCEPT !.behind = behind, !.pending = pending, !.flag = flag]

LEMMA HeededFields ==
  ASSUME NEW d \in Ctl, NEW behind \in BOOLEAN, NEW pending \in SUBSET {"geometry", "gone"},
         NEW flag \in {"no", "posted", "lost"}
  PROVE  LET f == Heeded(d, behind, pending, flag)
         IN  /\ f \in Ctl /\ f.pending = pending /\ f.flag = flag
             /\ f.enabled = d.enabled /\ f.sticky = d.sticky /\ f.state = d.state
             /\ f.rpid = d.rpid /\ f.panel = d.panel /\ f.picked = d.picked
             /\ f.hwnd = d.hwnd /\ f.mode = d.mode /\ f.owner = d.owner
             /\ f.hooked = d.hooked
<1>1. Heeded(d, behind, pending, flag) \in Ctl
  BY ZenonT(60) DEF Ctl, Heeded
<1> QED
  BY <1>1 DEF Ctl, Heeded

Chased(d) == /\ d \in Ctl /\ Placed(d)
             /\ d.hwnd /\ d.state = "Docked" => OnItsWay(d)

LEMMA HearsGood ==
  ASSUME GoodDock(dock), NEW bit \in {"geometry", "gone"}, NEW moved \in BOOLEAN, Hears(bit, moved)
  PROVE  Chased(dock')
<1> DEFINE late == dock.behind \/ moved
           more == dock.pending \cup {bit}
           flag == IF dock.flag = "no" /\ dock.hwnd THEN "posted" ELSE dock.flag
           quiet == Heeded(dock, late, dock.pending, dock.flag)
           told == Heeded(dock, late, more, flag)
<1>1. dock \in Ctl /\ Placed(dock)
  BY DEF GoodDock
<1>2. /\ late \in BOOLEAN /\ more \in SUBSET {"geometry", "gone"} /\ more # {}
      /\ flag \in {"no", "posted", "lost"} /\ (dock.hwnd => flag # "no")
      /\ dock.pending \in SUBSET {"geometry", "gone"} /\ dock.flag \in {"no", "posted", "lost"}
  BY <1>1 DEF Ctl
<1>3. dock' = IF ~dock.hooked THEN quiet ELSE told
  <2> DEFINE d == [dock EXCEPT !.behind = @ \/ moved]
  <2>1. dock' = IF ~dock.hooked THEN d
                ELSE [d EXCEPT !.pending = @ \cup {bit},
                               !.flag = IF @ = "no" /\ dock.hwnd THEN "posted" ELSE @]
    BY DEF Hears
  <2>2. d = quiet
    BY <1>1, ZenonT(60) DEF Ctl, Heeded
  <2>3. [d EXCEPT !.pending = @ \cup {bit},
                  !.flag = IF @ = "no" /\ dock.hwnd THEN "posted" ELSE @] = told
    BY <1>1 DEF Ctl, Heeded
  <2> QED
    BY <2>1, <2>2, <2>3
<1> DEFINE Rest(f) == /\ f \in Ctl /\ f.enabled = dock.enabled /\ f.sticky = dock.sticky
                      /\ f.state = dock.state /\ f.rpid = dock.rpid /\ f.panel = dock.panel
                      /\ f.picked = dock.picked /\ f.hwnd = dock.hwnd /\ f.mode = dock.mode
                      /\ f.owner = dock.owner /\ f.hooked = dock.hooked
<1>q. quiet = Heeded(dock, late, dock.pending, dock.flag)
  OBVIOUS
<1>t. told = Heeded(dock, late, more, flag)
  OBVIOUS
<1> HIDE DEF late, more, flag, quiet, told
<1>4. Rest(quiet)
  BY <1>1, <1>2, <1>q, HeededFields
<1>5. Rest(told) /\ told.pending = more /\ told.flag = flag
  BY <1>1, <1>2, <1>t, HeededFields
<1>6. Placed(quiet) /\ Placed(told)
  BY <1>1, <1>4, <1>5 DEF Placed, Off, Moded, Attached, Sought
<1>7. CASE ~dock.hooked
  <2>1. dock.state # "Docked"
    BY <1>1, <1>7 DEF Placed, Attached
  <2> QED
    BY <1>3, <1>4, <1>6, <1>7, <2>1 DEF Chased
<1>8. CASE dock.hooked
  <2>1. told.hwnd => OnItsWay(told)
    BY <1>2, <1>5 DEF OnItsWay
  <2> QED
    BY <1>3, <1>5, <1>6, <1>8, <2>1 DEF Chased
<1> QED
  BY <1>1, <1>7, <1>8 DEF Ctl

LEMMA ChasedGood == Chased(dock') => GoodDock(dock)'
BY DEF Chased, GoodDock, Watched, Placed, Off, Moded, Attached, Sought, OnItsWay

LEMMA EncoderGood ==
  ASSUME Frames, GoodDock(dock), NEW r \in Roots,
         \/ Opens(r) \/ Closes(r) \/ (\E c \in Cefs, b \in BOOLEAN : MovesTo(c, r, b))
         \/ Shifts \/ Covers \/ \E c \in Cefs : PanelCloses(c)
  PROVE  GoodDock(dock)' /\ Frames'
<1>1. CASE Opens(r)
  BY <1>1, HearsGood, ChasedGood DEF Opens, Frames
<1>2. CASE Closes(r)
  <2>1. GoodDock(dock)'
    BY <1>2, HearsGood, ChasedGood DEF Closes
  <2>2. Frames'
    BY <1>2 DEF Closes, Frames
  <2> QED
    BY <2>1, <2>2
<1>3. ASSUME NEW c \in Cefs, NEW b \in BOOLEAN, MovesTo(c, r, b)
      PROVE  GoodDock(dock)' /\ Frames'
  <2>1. ASSUME b PROVE GoodDock(dock)'
    <3> DEFINE own == dock.panel.win = c
    <3>1. Hears("geometry", own) /\ own \in BOOLEAN
      BY <1>3, <2>1 DEF MovesTo
    <3> HIDE DEF own
    <3> QED
      BY <3>1, HearsGood, ChasedGood
  <2>2. ASSUME ~b PROVE GoodDock(dock)'
    <3>1. dock' = dock /\ covered' = covered
      BY <1>3, <2>2 DEF MovesTo
    <3>2. GoodDock(dock')
      BY <3>1
    <3> QED
      BY <3>1, <3>2 DEF GoodDock, Placed, Off, Moded, Attached, Sought, Watched, Fresh, OnItsWay
  <2>3. Frames'
    BY <1>3 DEF MovesTo, Frames
  <2> QED
    BY <2>1, <2>2, <2>3
<1>4. CASE Shifts
  BY <1>4, HearsGood, ChasedGood DEF Shifts, envVars, Frames
<1>5. CASE Covers
  BY <1>5, HearsGood, ChasedGood DEF Covers, Frames
<1>6. ASSUME NEW c \in Cefs, PanelCloses(c) PROVE GoodDock(dock)' /\ Frames'
  <2> DEFINE bit == IF dock.panel.win = c THEN "gone" ELSE "geometry"
  <2>1. Hears(bit, FALSE) /\ bit \in {"geometry", "gone"} /\ FALSE \in BOOLEAN
    BY <1>6 DEF PanelCloses
  <2> HIDE DEF bit
  <2>2. GoodDock(dock)'
    BY <2>1, HearsGood, ChasedGood
  <2>3. Frames'
    BY <1>6 DEF PanelCloses, Frames
  <2> QED
    BY <2>2, <2>3
<1> QED
  BY <1>1, <1>2, <1>3, <1>4, <1>5, <1>6

-----------------------------------------------------------------------------
(* The whole *)

LEMMA DockInitGood == DockInit => Frames /\ GoodDock(dock)
<1> SUFFICES ASSUME DockInit PROVE Frames /\ GoodDock(dock)
  OBVIOUS
<1>1. Frames
  BY DEF DockInit, Frames
<1>2. PICK saved \in {"none", "rect"} :
        dock = [enabled |-> TRUE, sticky |-> FALSE, state |-> "Undocked",
             conn |-> "none", rpid |-> "none", panel |-> NoPanel,
             fallback |-> FALSE, picked |-> FALSE, saved |-> saved,
             seen |-> TRUE, hooked |-> FALSE, pending |-> {}, flag |-> "no",
             dirty |-> FALSE, armed |-> "no", lastVisible |-> FALSE, behind |-> FALSE,
             hwnd |-> TRUE, mode |-> "Floating", owner |-> "none", tray |-> "added"]
  BY DEF DockInit
<1>3. NoPanel \in [win : Targets \cup {"none"}, root : Roots \cup {"none"}]
  BY DEF NoPanel
<1>4. dock \in Ctl /\ dock.state = "Undocked" /\ dock.mode = "Floating"
  BY <1>2, <1>3 DEF Ctl
<1> QED
  BY <1>1, <1>4, UndockedGood

LEMMA SameFramesGood == ASSUME Frames, GoodDock(dock'), UNCHANGED envVars PROVE GoodDock(dock)' /\ Frames'
BY DEF envVars, Frames, GoodDock, Placed, Off, Moded, Attached, Sought, Watched, Fresh, OnItsWay

LEMMA DockNextGood == ASSUME Frames, GoodDock(dock), DockNext PROVE GoodDock(dock)' /\ Frames'
<1>1. CASE \/ \E r \in Roots : Opens(r) \/ Closes(r) \/ \E c \in Cefs, b \in BOOLEAN : MovesTo(c, r, b)
           \/ Shifts \/ Covers \/ \E c \in Cefs : PanelCloses(c)
  BY <1>1, EncoderGood DEF Roots
<1>2. CASE \E t \in Targets : DockAt(t)
  BY <1>2, DockAtGood, SameFramesGood DEF DockAt
<1>3. CASE (\E c \in Cefs : PanelGone(c)) \/ BeforeQuit
  <2>1. UNCHANGED envVars /\ \E c \in Cefs \cup {"none"} : dock' = Gone(dock, c)
    BY <1>3 DEF PanelGone, BeforeQuit
  <2> QED
    BY <2>1, GoneGood, SameFramesGood
<1>4. CASE WorkspaceChanged
  BY <1>4, WorkspaceGood, SameFramesGood DEF WorkspaceChanged
<1>5. CASE \E c \in Cefs : \E pid \in {c, "none"} : Hello(c, pid)
  <2>1. PICK c \in Cefs : \E pid \in {c, "none"} : Hello(c, pid)
    BY <1>5
  <2>2. PICK pid \in {c, "none"} : Hello(c, pid)
    BY <2>1
  <2> QED
    BY <2>2, HelloGood, SameFramesGood DEF Hello
<1>6. CASE \E b \in BOOLEAN : Visibility(b) \/ \E c \in Cefs : Bounds(c, b)
  <2>1. UNCHANGED envVars
    BY <1>6 DEF Visibility, Bounds
  <2> QED
    BY <1>6, <2>1, SeenGood, SameFramesGood
<1>7. CASE UserDock
  BY <1>7, UserDockGood, SameFramesGood DEF UserDock
<1>8. CASE UserUndock
  BY <1>8, UserUndockGood, SameFramesGood DEF UserUndock
<1>9. CASE \E on \in BOOLEAN : SetEnabled(on)
  <2>1. UNCHANGED envVars
    BY <1>9 DEF SetEnabled
  <2> QED
    BY <1>9, <2>1, SetEnabledGood, SameFramesGood
<1>10. CASE \E t \in Targets \cup {"none"} : PollPick(t)
  <2>1. UNCHANGED envVars
    BY <1>10 DEF PollPick
  <2> QED
    BY <1>10, <2>1, PollPickGood, SameFramesGood
<1>11. CASE \E b, valid \in BOOLEAN : DockTick(b) \/ ThrottleTimer(b) \/ EverySecond(b, valid)
  <2>1. UNCHANGED envVars
    BY <1>11 DEF DockTick, ThrottleTimer, EverySecond
  <2> QED
    BY <1>11, <2>1, DockTickGood, ThrottleTimerGood, EverySecondGood, SameFramesGood
<1>12. CASE OwnerTakesWindow
  BY <1>12, WindowTakenGood, SameFramesGood DEF OwnerTakesWindow
<1>13. CASE WindowRecreated
  BY <1>13, WindowRecreatedGood, SameFramesGood DEF WindowRecreated
<1> QED
  BY <1>1, <1>2, <1>3, <1>4, <1>5, <1>6, <1>7, <1>8, <1>9, <1>10, <1>11, <1>12, <1>13
     DEF DockNext

LEMMA GoodIsSettled == GoodDock(dock) => DockingIsSettled
BY DEF GoodDock, Placed, Off, Moded, Watched, Fresh, OnItsWay, Ctl,
       DockingIsSettled, ModeFollowsState, OffIsOff, NeverLags, Settled, Hides

(* Whatever order Media Encoder's frames, the panels, the user, the posted *)
(* tick, the timer and a window that goes with its owner come in: the      *)
(* window is docked to the frame its controller believes in and floats     *)
(* otherwise, only the user docks what the user undocked, and a docked     *)
(* window that lags behind its panel has a tick or a timer on its way,     *)
(* unless one of the two died with a window that was made again            *)
(* (DockController.cpp; its line 902 does not clear g_tickPosted).  It     *)
(* holds for every set of panels and any number of frames that close.      *)
THEOREM DockingSettles == DockSpec => []DockingIsSettled
<1>1. DockInit => Frames /\ GoodDock(dock)
  BY DockInitGood
<1>2. Frames /\ GoodDock(dock) /\ [DockNext]_dockVars => (Frames /\ GoodDock(dock))'
  <2>1. ASSUME Frames, GoodDock(dock), UNCHANGED dockVars PROVE (Frames /\ GoodDock(dock))'
    BY <2>1 DEF dockVars, envVars, Frames, GoodDock, Placed, Off, Moded, Attached, Sought,
                Watched, Fresh, OnItsWay
  <2> QED
    BY <2>1, DockNextGood
<1>3. Frames /\ GoodDock(dock) => DockingIsSettled
  BY GoodIsSettled
<1> QED
  BY <1>1, <1>2, <1>3, PTL DEF DockSpec
=============================================================================
