---------------------------- MODULE EngineWindow ----------------------------
(***************************************************************************)
(* The event queue together with the window it kicks: WindowHost destroys  *)
(* and re-creates the main HWND (a docked window dies with the AME window  *)
(* that owns it; a failed re-owning re-creates it in place), and the       *)
(* application answers the first case by calling Engine::start again with  *)
(* the new handle.  EventQueue supplies the posters, the kicks and the     *)
(* drain; this module decides when setTarget is called and which windows   *)
(* exist.  Handles are not reused.                                         *)
(***************************************************************************)
EXTENDS EventQueue

VARIABLES
    started,      \* Engine::started_
    host,         \* WindowHost::hwnd_
    used,         \* handles handed out so far
    recreateMsg   \* WM_HH_RECREATE waits in the thread's message queue

windowVars == <<started, host, used, recreateMsg>>
allVars    == <<vars, windowVars>>

\* Engine::start(host): a second call returns before setTarget.
EngineStart ==
    /\ ~started
    /\ started' = TRUE
    /\ SetTarget(host)
    /\ UNCHANGED <<host, used, recreateMsg>>

\* WM_DESTROY without destroyingSelf_: AME took the owned window down, and
\* the messages queued for it with it.
OwnerDestroysWindow ==
    /\ pc[UI] = "idle"
    /\ started
    /\ host \in live
    /\ used # Windows              \* bound: a handle is left to re-create it
    /\ live' = live \ {host}
    /\ kicks' = [kicks EXCEPT ![host] = 0]
    /\ host' = NoWindow
    /\ recreateMsg' = TRUE
    /\ UNCHANGED <<queueVars, pc, loaded, sent, uiVars, historyVars, started, used>>

NewWindow(w) == /\ w \in Windows \ used
                /\ host' = w
                /\ used' = used \cup {w}

\* The loop's WM_HH_RECREATE branch: recreate(Floating), then
\* onDestroyedByOwner, whose Engine::start(newHwnd) finds started_ set
\* ("start() called twice; ignoring") and leaves the target alone.
RecreateAfterOwner(w) ==
    /\ pc[UI] = "idle"
    /\ recreateMsg /\ host = NoWindow
    /\ recreateMsg' = FALSE
    /\ NewWindow(w)
    /\ live' = live \cup {w}
    /\ UNCHANGED <<queueVars, pc, loaded, sent, uiVars, kicks, historyVars, started>>

\* Mutant: the old window is hidden and its messages purged, not destroyed.
BugRecreateForMode(w) ==
    /\ pc[UI] = "idle"
    /\ started
    /\ host \in live
    /\ NewWindow(w)
    /\ live' = live \cup {w}
    /\ kicks' = [kicks EXCEPT ![host] = 0]
    /\ UNCHANGED <<queueVars, pc, loaded, sent, uiVars, historyVars, started, recreateMsg>>

\* setMode's fallback when GWLP_HWNDPARENT cannot be changed: the window is
\* destroyed and re-created at once; nobody tells the engine.
RecreateForMode(w) ==
    /\ pc[UI] = "idle"
    /\ started
    /\ host \in live
    /\ NewWindow(w)
    /\ live' = (live \ {host}) \cup {w}
    /\ kicks' = [kicks EXCEPT ![host] = 0]
    /\ UNCHANGED <<queueVars, pc, loaded, sent, uiVars, historyVars, started, recreateMsg>>

\* A step of the queue's own code; the window machinery is not involved.
QueueStep == /\ \/ \E p \in Posters : Post(p)
                \/ \E t \in Threads : Kick(t)
                \/ UIStep
             /\ UNCHANGED windowVars

-----------------------------------------------------------------------------

(* EventQueue's Init lets every handle exist; here only the first one does. *)
WindowInit ==
    /\ queue = <<>> /\ kickPending = FALSE
    /\ hwnd = NoWindow /\ message = FALSE
    /\ pc = [t \in Threads |-> "idle"]
    /\ loaded = [t \in Threads |-> NoWindow]
    /\ sent = [p \in Posters |-> 0]
    /\ batch = <<>> /\ round = 0 /\ targets = 0
    /\ kicks = [w \in Windows |-> 0]
    /\ host \in Windows /\ live = {host} /\ used = {host}
    /\ applied = <<>> /\ posted = <<>> /\ refused = FALSE
    /\ started = FALSE /\ recreateMsg = FALSE

WindowNext ==
    \/ EngineStart
    \/ OwnerDestroysWindow
    \/ \E w \in Windows : RecreateAfterOwner(w)
    \/ \E w \in Windows : RecreateForMode(w)
    \/ QueueStep

(* As EventQueue's fairness; the message loop also serves WM_HH_RECREATE.   *)
WindowSpec ==
    /\ WindowInit /\ [][WindowNext]_allVars
    /\ \A t \in Threads : WF_allVars(Kick(t) /\ UNCHANGED windowVars)
    /\ WF_allVars(UIStep /\ UNCHANGED windowVars)
    /\ WF_allVars(\E w \in Windows : RecreateAfterOwner(w))

-----------------------------------------------------------------------------

(* As long as the window the queue is aimed at has not been destroyed, no   *)
(* kick is given up, and what EventQueue.cpp promises ("nothing ever sits   *)
(* in the queue without a pending message") holds with no excuse, whatever  *)
(* posts, kicks and drains there are around the start: an event is stranded *)
(* only from the step on that takes this window away.  Workers start after  *)
(* setTarget and no message is refused, as EarlyPost and PostMayFail say.   *)
OnlyDestroyStrands ==
    ~EarlyPost /\ ~PostMayFail /\ hwnd \notin used \ live =>
        ~refused /\ NoStrandedEvent /\ FlagHasOwner
=============================================================================
