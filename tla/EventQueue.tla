----------------------------- MODULE EventQueue -----------------------------
(***************************************************************************)
(* EngineEventQueue (src/src/core/EventQueue.cpp): worker threads push     *)
(* engine events, the UI thread drains them when a WM_APP "kick" message   *)
(* reaches the window the queue is aimed at.  Every atomic load, store and *)
(* exchange, every lock region and PostMessageW is a step of its own.      *)
(*                                                                         *)
(* The kick code runs on two kinds of threads: a poster runs it at the end *)
(* of post(), the UI thread at the end of setTarget().  The drain loop is  *)
(* the one of Engine::onEventMessage.                                      *)
(***************************************************************************)
EXTENDS Naturals, Sequences, FiniteSets

CONSTANTS
    Posters,      \* threads that call post()
    UI,           \* the UI thread
    Windows,      \* window handles
    NoWindow,     \* the null HWND
    MaxEvents,    \* bound: events one poster posts
    MaxRounds,    \* kMaxDrainRounds (64 in the code)
    MaxTargets,   \* bound: calls of setTarget
    EarlyPost,    \* TRUE: workers may post before setTarget has returned;
                  \* FALSE: as Engine::start does, workers start after it
    PostMayFail   \* TRUE: PostMessageW may refuse a message (full queue)

ASSUME UIAssumption == UI \notin Posters
ASSUME NoWindowAssumption == NoWindow \notin Windows
ASSUME BoundsAssumption == /\ MaxEvents \in Nat /\ MaxRounds \in Nat \ {0}
                           /\ MaxTargets \in Nat
                           /\ EarlyPost \in BOOLEAN /\ PostMayFail \in BOOLEAN

Threads == Posters \cup {UI}
Events  == Posters \X (1..MaxEvents)

VARIABLES
    queue,        \* queue_
    kickPending,  \* kickPending_
    hwnd,         \* hwnd_
    message,      \* message_ # 0
    pc,           \* where each thread is
    loaded,       \* kick()'s local hwnd, per thread
    sent,         \* number of events each poster has posted
    batch,        \* the batch onEventMessage is applying
    round,        \* its round counter
    targets,      \* number of setTarget calls so far
    kicks,        \* kick messages waiting in each window's message queue
    live,         \* windows that exist
    applied,      \* history: events applied, in order
    posted,       \* history: events pushed, in order
    refused       \* history: a kick was given up since the last drain began

queueVars  == <<queue, kickPending, hwnd, message>>
uiVars     == <<batch, round, targets>>
historyVars == <<applied, posted, refused>>
vars == <<queueVars, pc, loaded, sent, uiVars, kicks, live, historyVars>>

KickPcs == {"exchange", "loadHwnd", "loadMessage", "send", "reset"}
UIPcs   == {"storeMessage", "checkPending", "clear", "swap", "apply"}

Goto(t, label) == pc' = [pc EXCEPT ![t] = label]

-----------------------------------------------------------------------------
(* kick() *)

\* if (kickPending_.exchange(true)) return;
KickExchange(t) ==
    /\ pc[t] = "exchange"
    /\ kickPending' = TRUE
    /\ Goto(t, IF kickPending THEN "idle" ELSE "loadHwnd")
    /\ UNCHANGED <<queue, hwnd, message, loaded, sent, uiVars, kicks, live, historyVars>>

KickLoadHwnd(t) ==
    /\ pc[t] = "loadHwnd"
    /\ loaded' = [loaded EXCEPT ![t] = hwnd]
    /\ Goto(t, "loadMessage")
    /\ UNCHANGED <<queueVars, sent, uiVars, kicks, live, historyVars>>

\* if (hwnd == nullptr || message == 0) { reset; return; }
KickLoadMessage(t) ==
    /\ pc[t] = "loadMessage"
    /\ IF loaded[t] = NoWindow \/ ~message
         THEN Goto(t, "reset") /\ refused' = TRUE
         ELSE Goto(t, "send") /\ UNCHANGED refused
    /\ UNCHANGED <<queueVars, loaded, sent, uiVars, kicks, live, applied, posted>>

\* PostMessageW succeeds: the message is in the window's queue.
KickSend(t) ==
    /\ pc[t] = "send"
    /\ loaded[t] \in live
    /\ kicks' = [kicks EXCEPT ![loaded[t]] = @ + 1]
    /\ Goto(t, "idle")
    /\ UNCHANGED <<queueVars, loaded, sent, uiVars, live, historyVars>>

\* PostMessageW fails: the window is gone, or its queue is full.
KickSendFails(t) ==
    /\ pc[t] = "send"
    /\ loaded[t] \notin live \/ PostMayFail
    /\ refused' = TRUE
    /\ Goto(t, "reset")
    /\ UNCHANGED <<queueVars, loaded, sent, uiVars, kicks, live, applied, posted>>

KickReset(t) ==
    /\ pc[t] = "reset"
    /\ kickPending' = FALSE
    /\ Goto(t, "idle")
    /\ UNCHANGED <<queue, hwnd, message, loaded, sent, uiVars, kicks, live, historyVars>>

Kick(t) == \/ KickExchange(t) \/ KickLoadHwnd(t) \/ KickLoadMessage(t)
           \/ KickSend(t) \/ KickSendFails(t) \/ KickReset(t)

-----------------------------------------------------------------------------
(* post() on a worker thread: the locked push, then kick() *)

WorkersRunning == EarlyPost \/ (message /\ pc[UI] # "checkPending")

Post(p) ==
    /\ pc[p] = "idle"
    /\ WorkersRunning
    /\ sent[p] < MaxEvents
    /\ LET event == <<p, sent[p] + 1>>
       IN  /\ queue' = Append(queue, event)
           /\ posted' = Append(posted, event)
    /\ sent' = [sent EXCEPT ![p] = @ + 1]
    /\ Goto(p, "exchange")
    /\ UNCHANGED <<kickPending, hwnd, message, loaded, uiVars, kicks, live, applied, refused>>

-----------------------------------------------------------------------------
(* setTarget() on the UI thread *)

SetTarget(w) ==
    /\ pc[UI] = "idle"
    /\ targets < MaxTargets
    /\ targets' = targets + 1
    /\ hwnd' = w
    /\ Goto(UI, "storeMessage")
    /\ UNCHANGED <<queue, kickPending, message, loaded, sent, batch, round, kicks, live, historyVars>>

StoreMessage ==
    /\ pc[UI] = "storeMessage"
    /\ message' = TRUE
    /\ Goto(UI, "checkPending")
    /\ UNCHANGED <<queue, kickPending, hwnd, loaded, sent, uiVars, kicks, live, historyVars>>

CheckPending ==
    /\ pc[UI] = "checkPending"
    /\ Goto(UI, IF queue = <<>> THEN "idle" ELSE "exchange")
    /\ UNCHANGED <<queueVars, loaded, sent, uiVars, kicks, live, historyVars>>

-----------------------------------------------------------------------------
(* Engine::onEventMessage: up to MaxRounds drains, until one is empty *)

\* The message loop takes a kick out of a window's queue.
ReceiveKick(w) ==
    /\ pc[UI] = "idle"
    /\ w \in live
    /\ kicks[w] > 0
    /\ kicks' = [kicks EXCEPT ![w] = @ - 1]
    /\ round' = 1
    /\ Goto(UI, "clear")
    /\ UNCHANGED <<queueVars, loaded, sent, batch, targets, live, historyVars>>

\* Mutant: the flag is left set.
BugDrainKeepsFlag ==
    /\ pc[UI] = "clear"
    /\ refused' = FALSE
    /\ Goto(UI, "swap")
    /\ UNCHANGED <<queueVars, loaded, sent, uiVars, kicks, live, applied, posted>>

\* drain(): the flag is cleared before the swap.
DrainClear ==
    /\ pc[UI] = "clear"
    /\ kickPending' = FALSE
    /\ refused' = FALSE
    /\ Goto(UI, "swap")
    /\ UNCHANGED <<queue, hwnd, message, loaded, sent, uiVars, kicks, live, applied, posted>>

\* Mutant: the batch is copied out of the queue, not swapped.
BugDrainCopies ==
    /\ pc[UI] = "swap"
    /\ batch' = queue
    /\ Goto(UI, IF queue = <<>> THEN "idle" ELSE "apply")
    /\ UNCHANGED <<queueVars, loaded, sent, round, targets, kicks, live, historyVars>>

DrainSwap ==
    /\ pc[UI] = "swap"
    /\ batch' = queue
    /\ queue' = <<>>
    /\ Goto(UI, IF queue = <<>> THEN "idle" ELSE "apply")
    /\ UNCHANGED <<kickPending, hwnd, message, loaded, sent, round, targets, kicks, live, historyVars>>

\* One event of the batch is applied; after the last one the next round begins.
Apply ==
    /\ pc[UI] = "apply"
    /\ batch # <<>>
    /\ applied' = Append(applied, Head(batch))
    /\ batch' = Tail(batch)
    /\ IF Tail(batch) # <<>>
         THEN UNCHANGED <<pc, round>>
         ELSE IF round < MaxRounds
                THEN Goto(UI, "clear") /\ round' = round + 1
                ELSE Goto(UI, "idle") /\ UNCHANGED round
    /\ UNCHANGED <<queueVars, loaded, sent, targets, kicks, live, posted, refused>>

UIStep == \/ StoreMessage \/ CheckPending \/ DrainClear \/ DrainSwap \/ Apply
          \/ \E w \in Windows : ReceiveKick(w)

-----------------------------------------------------------------------------

Init ==
    /\ queue = <<>> /\ kickPending = FALSE
    /\ hwnd = NoWindow /\ message = FALSE
    /\ pc = [t \in Threads |-> "idle"]
    /\ loaded = [t \in Threads |-> NoWindow]
    /\ sent = [p \in Posters |-> 0]
    /\ batch = <<>> /\ round = 0 /\ targets = 0
    /\ kicks = [w \in Windows |-> 0]
    /\ live = Windows
    /\ applied = <<>> /\ posted = <<>> /\ refused = FALSE

Next == \/ \E p \in Posters : Post(p)
        \/ \E t \in Threads : Kick(t)
        \/ \E w \in Windows : SetTarget(w)
        \/ UIStep

(* The operating system runs every runnable thread, and the message loop    *)
(* dispatches a queued message; nobody has to call post or setTarget, so    *)
(* SetTarget and Post carry no fairness.                                    *)
Fairness == /\ \A t \in Threads : WF_vars(Kick(t))
            /\ WF_vars(UIStep)

Spec == Init /\ [][Next]_vars /\ Fairness

-----------------------------------------------------------------------------

TypeOK ==
    /\ queue \in Seq(Events)
    /\ kickPending \in BOOLEAN
    /\ hwnd \in Windows \cup {NoWindow}
    /\ message \in BOOLEAN
    /\ pc \in [Threads -> {"idle"} \cup KickPcs \cup UIPcs]
    /\ \A p \in Posters : pc[p] \in {"idle"} \cup KickPcs
    /\ loaded \in [Threads -> Windows \cup {NoWindow}]
    /\ sent \in [Posters -> 0..MaxEvents]
    /\ batch \in Seq(Events)
    /\ round \in 0..MaxRounds
    /\ targets \in 0..MaxTargets
    /\ kicks \in [Windows -> Nat]
    /\ live \subseteq Windows
    /\ applied \in Seq(Events)
    /\ posted \in Seq(Events)
    /\ refused \in BOOLEAN

\* A kick that is being sent, or has been sent and can still be received.
KickInFlight ==
    \/ \E t \in Threads : pc[t] \in {"loadHwnd", "loadMessage", "send"}
    \/ \E w \in live : kicks[w] > 0

(* EventQueue.cpp, file comment: "nothing ever sits in the queue without a  *)
(* pending message".  A queued event is always followed by a push that has  *)
(* still to kick, by a kick on its way, or by a drain that has not swapped  *)
(* the queue yet - unless a kick was given up since the last drain, which   *)
(* kick() documents as the case a later push retries.                       *)
NoStrandedEvent ==
    queue # <<>> /\ ~refused =>
        \/ \E t \in Threads : pc[t] = "exchange"
        \/ pc[UI] \in {"clear", "swap"}
        \/ KickInFlight

(* The flag never stays set with nobody left to clear it: that would make   *)
(* every later kick() return at once.                                       *)
FlagHasOwner == kickPending => KickInFlight \/ pc[UI] = "clear" \/ refused

(* Every event pushed is applied once the queue has a target, or a kick is  *)
(* given up (no window yet, or PostMessageW fails): then kick() counts on a *)
(* later push, which nobody owes it.                                        *)
EventuallyApplied ==
    \A e \in Events :
        (\E i \in DOMAIN posted : posted[i] = e) /\ message
            ~> refused \/ (\E i \in DOMAIN applied : applied[i] = e)

Channel == INSTANCE EventChannel
             WITH Event <- Events, channel <- batch \o queue, received <- applied

(* The queue implements the FIFO channel of EventChannel: no event lost,    *)
(* duplicated or reordered by the swap, whatever the kicks do.              *)
ImplementsChannel == Channel!Spec
=============================================================================
