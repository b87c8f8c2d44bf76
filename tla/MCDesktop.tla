----------------------------- MODULE MCDesktop ------------------------------
(* What the UI thread shows and edits, for TLC: one part at a time, each a  *)
(* behaviour of its own.  The window that the event queue kicks, which may  *)
(* be destroyed once, the view that scrolls and the docking are taken as    *)
(* they are; the others are instances, whose variables are v1, v2 and so    *)
(* on.                                                                      *)
EXTENDS EngineWindow, Scroll, Docking

\* The part that runs, and the variables of an instance in the order it declares them.
VARIABLES part, v1, v2, v3, v4, v5, v6, v7, v8, v9, v10, v11, v12

\* The tree of widgets.
Tree == INSTANCE Ui
    WITH u <- v1

\* The cards of two jobs, of which the first may get another plan and be held.
List == INSTANCE QueueView
    WITH States <- {"Discovered", "Ready", "Held", "Done"}, MaxJobs <- 2,
         HistoryMax <- 1,
         queue <- v1, created <- v2, cards <- v3, grave <- v4, selected <- v5,
         popup <- v6, overlay <- v7, buttons <- v8, trimmed <- v9

\* Three toasts, of which two fit.
Toast == INSTANCE Toasts
    WITH MaxToasts <- 3, MaxVisible <- 2, Duration <- 2,
         d <- v1

\* The field of the output suffix.
Field == INSTANCE Editing
    WITH MaxLen <- 3, UndoDepth <- 2, MaxKeys <- 4,
         text <- v1, caret <- v2, anchor <- v3, undo <- v4, redo <- v5,
         focused <- v6, dirty <- v7, atFocus <- v8, dragging <- v9,
         clip <- v10, suffix <- v11, keys <- v12

\* settings.ini, which somebody edits once.
Ini == INSTANCE SettingsFile
    WITH MaxEdits <- 1,
         disk <- v1, mem <- v2, up <- v3, legacy <- v4, saved <- v5,
         knew <- v6, edits <- v7

\* The plan of a job: preset, LUT and output, after three commands, or two when there are
\* presets of the user.
Choice == INSTANCE Plans
    WITH Luts <- {"lut1", "lut2"}, RecentMax <- 1, MaxSteps <- 3,
         user <- v1, set <- v2, recent <- v3, listed <- v4, files <- v5,
         tool <- v6, job <- v7, steps <- v8

\* How many of the variables a part has.
Width == [window |-> 0, ui |-> 1, docking |-> 0, list |-> 9, scroll |-> 0,
          toasts |-> 1, field |-> 12, settings |-> 7, plans |-> 8]

\* The others are 0.
Blank(n) ==
    /\ IF n > 0 THEN TRUE ELSE v1 = 0
    /\ IF n > 1 THEN TRUE ELSE v2 = 0 /\ v3 = 0 /\ v4 = 0 /\ v5 = 0 /\ v6 = 0
    /\ IF n > 6 THEN TRUE ELSE v7 = 0
    /\ IF n > 7 THEN TRUE ELSE v8 = 0
    /\ IF n > 8 THEN TRUE ELSE v9 = 0
    /\ IF n > 9 THEN TRUE ELSE v10 = 0 /\ v11 = 0 /\ v12 = 0

Kept(n) ==
    /\ IF n > 0 THEN TRUE ELSE UNCHANGED <<v1>>
    /\ IF n > 1 THEN TRUE ELSE UNCHANGED <<v2, v3, v4, v5, v6>>
    /\ IF n > 6 THEN TRUE ELSE UNCHANGED <<v7>>
    /\ IF n > 7 THEN TRUE ELSE UNCHANGED <<v8>>
    /\ IF n > 8 THEN TRUE ELSE UNCHANGED <<v9>>
    /\ IF n > 9 THEN TRUE ELSE UNCHANGED <<v10, v11, v12>>

AllInit ==
    /\ WindowInit /\ part \in DOMAIN Width
    /\ part # "window" => host = CHOOSE w \in Windows : TRUE
    /\ ScrollInit /\ DockInit
    /\ part # "docking" => roots = {} /\ ~elevated /\ dock.saved = "none"
    /\ \/ part \in {"window", "scroll", "docking"}
       \/ part = "ui" /\ Tree!Init
       \/ part = "list" /\ List!Init
       \/ part = "toasts" /\ Toast!Init
       \/ part = "field" /\ Field!Init
       \/ part = "settings" /\ Ini!Init
       \/ part = "plans" /\ Choice!Init
    /\ Blank(Width[part])

Instance ==
    \/ part = "ui" /\ Tree!Next
    \/ part = "list" /\ List!Next
          /\ (\A i \in DOMAIN v1' : v1'[i].id = 2 =>
                 v1'[i].preset = "" /\ v1'[i].transfer = "Unknown" /\ v1'[i].state # "Held")
    \/ part = "toasts" /\ Toast!Next
    \/ part = "field" /\ Field!Next
    \/ part = "settings" /\ Ini!Next
    \/ part = "plans" /\ Choice!Next /\ (v1 = <<>> \/ v8' < 3)

\* Of Media Encoder's frames one may close when the window has a saved placement, and without
\* one it may run at another privilege level or cover the panel.
AllNext ==
    /\ \/ part = "window" /\ WindowNext /\ UNCHANGED <<scroll, dockVars>>
       \/ part = "scroll" /\ ScrollNext /\ UNCHANGED <<allVars, dockVars>>
       \/ part = "docking" /\ DockNext /\ UNCHANGED <<allVars, scroll>>
             /\ IF dock.saved = "rect" THEN ~elevated' /\ ~covered' ELSE closed' = 0
       \/ Instance /\ UNCHANGED <<allVars, scroll, dockVars>>
    /\ Kept(Width[part]) /\ UNCHANGED part

desktop == <<allVars, scroll, dockVars, part, v1, v2, v3, v4, v5, v6, v7, v8, v9, v10, v11, v12>>
AllSpec == AllInit /\ [][AllNext]_desktop

-----------------------------------------------------------------------------
(* The list shows the jobs of the last event, once each and in order, the   *)
(* selection is in it, button, overlay and popup agree on the open menu, and *)
(* it outlives its button only when its job went with the history           *)
(* (QueueView).                                                             *)
ListShowsTheQueue ==
    part = "list" => /\ List!CardsShowTheQueue /\ List!SelectionIsListed
                     /\ List!PopupsAgree /\ List!MenusKeepTheirButtons

(* The root's pointers to the hovered, pressed and focused widget never     *)
(* dangle when widgets leave in the middle of an event, and the widgets     *)
(* that think the pointer is over them are one chain (Ui).                  *)
PointersStayGood == part = "ui" => Tree!PointersAreLive /\ Tree!HoverIsAChain

(* Every toast leaves, and no callback of one that left is called (Toasts). *)
ToastsLeave == part = "toasts" => Toast!ToastsGo /\ Toast!CallbacksAreLive

(* A caret or an end of the selection never splits a surrogate pair, the    *)
(* preview shows what the field holds and an undo brings back all that one  *)
(* key removed (Editing).                                                   *)
FieldIsWhole ==
    /\ [](part = "field" => Field!PairsAreWhole /\ Field!SuffixIsShown)
    /\ [][part = "field" => Field!RemovalsCanBeUndone]_desktop

(* What is saved is read again after a restart, and lines the program does  *)
(* not know stay as they were (SettingsFile).                               *)
SettingsKept ==
    /\ [](part = "settings" => Ini!SettingsComeBack)
    /\ [][part = "settings" => Ini!ForeignLinesKept]_desktop

(* The plan of a job names a preset there is, the command line plans alike  *)
(* but for SDR and names too long, and the card previews what the mux then  *)
(* does (Plans).                                                            *)
PlansAgree ==
    part = "plans" => Choice!ChoicesNamePresets /\ Choice!CliDecidesAlike /\ Choice!PreviewIsThePlan
=============================================================================
