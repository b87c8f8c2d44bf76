----------------------------- MODULE QueueView -----------------------------
(* The queue screen over the engine's jobs: QueueScreen::refresh which keeps *)
(* the cards in step with the list, the cards' buttons and menus, the one     *)
(* popup window they share (PopupButton, PopupMenu, OverlayHost,              *)
(* PopupWindow), and the commands of AppQueueViewModel they send.  A handler *)
(* of the UI thread is one step; the engine changes jobs between any two.    *)
EXTENDS Naturals, SequencesExt

CONSTANTS
    States,       \* the JobState values the jobs take
    MaxJobs,      \* bound: jobs ever in the list
    HistoryMax    \* settings.historyMax

None == 0
Default == ""     \* no preset override; PopupButton's value of no selection

VARIABLES
    queue,       \* the engine's jobs, newest first
    created,     \* jobs ever made
    cards,       \* children of QueueScreen::list_
    grave,       \* QueueScreen::graveyard_: ids of cards that ended their animation
    selected,    \* QueueScreen::selectedId_
    popup,       \* PopupWindow: what it shows
    overlay,     \* OverlayHost::popupOpen_
    buttons,     \* ids of cards whose PopupButton::open_ is set
    trimmed      \* history: jobs that went with the history

engine == <<queue, created>>
popups == <<popup, overlay, buttons>>
vars == <<engine, cards, grave, selected, popups, trimmed>>

-----------------------------------------------------------------------------
(* The engine *)

Terminal == {"Done", "Failed", "SkippedSdr", "Cancelled"}

NewJob(id, kind) == [id |-> id, state |-> "Discovered", transfer |-> kind, preset |-> Default, hold |-> FALSE]
Ids(s) == {s[i].id : i \in DOMAIN s}
At(s, id) == CHOOSE i \in DOMAIN s : s[i].id = id

\* What the source's state and the plan decide of a job that is run: it is
\* gone, goes to the muxer or waits for its plan, or is probed again.
Rerun == {"Failed", "Ready", "Muxing", "Held", "SkippedSdr", "Discovered"} \cap States

RunJob(j) ==
    CASE j.state \in {"Muxing", "Verifying"} -> {j}
      [] j.state \in {"Discovered", "Encoding"} -> {[j EXCEPT !.hold = FALSE]}
      [] OTHER -> {[j EXCEPT !.hold = FALSE, !.state = to] : to \in Rerun}

HoldJob(j) ==
    CASE j.state \in {"Ready", "Held"} -> [j EXCEPT !.hold = TRUE, !.state = "Held"]
      [] j.state \in {"Discovered", "Encoding"} -> [j EXCEPT !.hold = TRUE]
      [] OTHER -> j

ResumeJob(j) == {[j EXCEPT !.hold = FALSE, !.state = to] :
                    to \in IF j.state = "Held" THEN Rerun ELSE {j.state}}

PresetKind(preset) == CASE preset = "hlg" -> "HLG" [] preset = Default -> "Unknown" [] OTHER -> "PQ"

(* setPreset: nothing when the override is as it was.                        *)
SetPreset(j, preset) ==
    IF preset = j.preset THEN {j}
    ELSE LET k == [j EXCEPT !.preset = preset,
                            !.transfer = IF @ = "Unknown" THEN PresetKind(preset) ELSE @]
         IN IF k.state = "Held" /\ ~k.hold THEN ResumeJob(k) ELSE {k}

-----------------------------------------------------------------------------
(* What a card shows *)

CanRunFrom(state) == state \in Terminal \cup {"Held", "Ready"}
CanEditPlanIn(state) == state \notin {"Muxing", "Verifying", "Done"}
IsHeld(j) == j.hold \/ j.state = "Held"
CanHold(j) == j.state \in {"Ready", "Encoding"} /\ ~IsHeld(j)

PresetChoices(kind) ==
    CASE kind = "PQ" -> <<"pq", "mine">> [] kind = "HLG" -> <<"hlg">> [] OTHER -> <<"hlg", "pq", "mine">>

(* JobCard::update: the view and the preset menu's items.                    *)
Updated(j) == [id |-> j.id, view |-> j, items |-> PresetChoices(j.transfer), removing |-> FALSE]

(* A card on its way out: what it shows no longer matters.                   *)
Leaving(id) == [id |-> id, view |-> NewJob(id, "Unknown"), items |-> <<>>, removing |-> TRUE]

(* The commands of the card's buttons and of its context menu.               *)
Offered(card) ==
    {c \in {"run", "hold", "resume", "remove"} :
        CASE c = "run" -> CanRunFrom(card.view.state)
          [] c = "hold" -> CanHold(card.view)
          [] c = "resume" -> IsHeld(card.view)
          [] c = "remove" -> TRUE}

-----------------------------------------------------------------------------
(* QueueScreen *)

Live(s) == SelectSeq(s, LAMBDA c : ~c.removing)
CardFor(s, id) == {i \in DOMAIN s : ~s[i].removing /\ s[i].id = id}

\* Mutant: the place after a card that stays is not taken from its own.
BugPlaced(acc, j) ==
    LET here == CardFor(acc.list, j.id)
    IN IF here = {} THEN [list |-> InsertAt(acc.list, acc.pos, Updated(j)), pos |-> acc.pos + 1]
       ELSE [acc EXCEPT !.list = [@ EXCEPT ![CHOOSE i \in here : TRUE] = Updated(j)]]

(* One view of refresh: "pos" is where the next card is expected.  A missing *)
(* card is inserted there, one further on is left where it is, one before it *)
(* is moved behind the card placed last.                                     *)
Placed(acc, j) ==
    LET here == CardFor(acc.list, j.id)
        idx == CHOOSE i \in here : TRUE
        without == RemoveAt(acc.list, idx)
    IN CASE here = {} -> [list |-> InsertAt(acc.list, acc.pos, Updated(j)), pos |-> acc.pos + 1]
         [] here # {} /\ idx >= acc.pos -> [list |-> [acc.list EXCEPT ![idx] = Updated(j)], pos |-> idx + 1]
         [] OTHER -> [list |-> InsertAt(without, acc.pos - 1, Updated(j)), pos |-> acc.pos]

(* retireCard of the selected card.                                          *)
Kept(id, q) == IF id \in Ids(q) THEN id ELSE None

Refresh(q) ==
    LET placed == FoldLeft(Placed, [list |-> cards, pos |-> 1], q).list
    IN /\ queue' = q
       /\ cards' = [i \in DOMAIN placed |->
                       IF placed[i].id \in Ids(q) THEN placed[i] ELSE Leaving(placed[i].id)]
       /\ grave' = {}
       /\ selected' = Kept(selected, q)

-----------------------------------------------------------------------------
(* The popup window *)

(* The callbacks of a preset menu hold "this" of its button (PopupButton::    *)
(* open), and nothing closes the menu of a card that leaves: once the        *)
(* graveyard is purged they point to a button that is no more.               *)
Dangles == popup.kind = "preset" /\ popup.id \notin Ids(cards) \cup grave

(* Any of them is called then: what follows is not defined, and the model    *)
(* ends here.                                                                *)
Strays ==
    /\ Dangles /\ popup' = [popup EXCEPT !.kind = "stray"]
    /\ UNCHANGED <<engine, cards, grave, selected, overlay, buttons, trimmed>>

(* What refresh does to an open menu: the buttons of the graveyard go.       *)
Purged == buttons' = buttons \ grave /\ UNCHANGED <<popup, overlay>>

Hidden == [id |-> None, kind |-> "hidden", items |-> <<>>]

(* dismiss: the window hides, then the overlay's callback and the button's.  *)
Dismiss ==
    /\ popup' = Hidden
    /\ overlay' = (overlay /\ popup.kind = "hidden")
    /\ buttons' = IF popup.kind = "preset" THEN buttons \ {popup.id} ELSE buttons

(* showPopup: the one that is open is dismissed first; where there is no     *)
(* window the callback is called at once.                                    *)
Show(menu, works) ==
    LET before == IF popup.kind = "preset" THEN buttons \ {popup.id} ELSE buttons
    IN IF works
       THEN /\ popup' = menu /\ overlay' = TRUE
            /\ buttons' = IF menu.kind = "preset" THEN before \cup {menu.id} ELSE before
       ELSE popup' = Hidden /\ overlay' = FALSE /\ buttons' = before

-----------------------------------------------------------------------------
(* Steps *)

Replaced(j) == [queue EXCEPT ![At(queue, j.id)] = j]

(* The engine's own changes, one drain of its events.                        *)
JobAppears ==
    /\ created < MaxJobs /\ created' = created + 1
    /\ \E i \in 1..Len(queue) + 1 : Refresh(InsertAt(queue, i, NewJob(created', "Unknown")))
    /\ Purged /\ UNCHANGED trimmed

JobMoves(id, state) ==
    /\ queue[At(queue, id)].state # state
    /\ Refresh(Replaced([queue[At(queue, id)] EXCEPT !.state = state]))
    /\ Purged /\ UNCHANGED <<created, trimmed>>

TransferInferred(id, kind) ==
    /\ queue[At(queue, id)].transfer # kind
    /\ Refresh(Replaced([queue[At(queue, id)] EXCEPT !.transfer = kind]))
    /\ Purged /\ UNCHANGED <<created, trimmed>>

(* tick: the oldest ended jobs beyond the history go.                        *)
Trim ==
    LET ended == SelectSeq(queue, LAMBDA j : j.state \in Terminal)
        kept == Ids(SubSeq(ended, 1, HistoryMax))
    IN /\ Len(queue) > HistoryMax /\ Len(ended) > HistoryMax
       /\ Refresh(SelectSeq(queue, LAMBDA j : j.state \notin Terminal \/ j.id \in kept))
       /\ trimmed' = trimmed \cup (Ids(ended) \ kept)
       /\ Purged /\ UNCHANGED created

(* The callback of animateOut.                                               *)
AnimationEnds(id) ==
    /\ \E i \in DOMAIN cards : cards[i].id = id /\ cards[i].removing
    /\ cards' = SelectSeq(cards, LAMBDA c : c.id # id)
    /\ grave' = grave \cup {id}
    /\ UNCHANGED <<engine, selected, popups, trimmed>>

(* The commands; run, hold, resume and setPreset change one job.             *)
Changes(jobs) == \E j \in jobs : Refresh(Replaced(j))
Command(c, id) ==
    LET j == queue[At(queue, id)]
    IN CASE c = "run" -> Changes(RunJob(j))
         [] c = "hold" -> Changes({HoldJob(j)})
         [] c = "resume" -> Changes(ResumeJob(j))
         [] c = "remove" -> Refresh(SelectSeq(queue, LAMBDA k : k.id # id))

Nothing == UNCHANGED <<queue, cards, grave, selected>>

(* A press outside the popup closes it and goes on to the widget below.      *)
Clicks(card, c) ==
    /\ c \in Offered(card) /\ Command(c, card.id) /\ Dismiss /\ UNCHANGED <<created, trimmed>>

Select(id) ==
    /\ selected' = id /\ Dismiss
    /\ UNCHANGED <<engine, cards, grave, trimmed>>

(* The keys of the screen reach it only while no popup is shown.             *)
KeyDown(c) ==
    /\ popup = Hidden
    /\ \/ /\ c = "delete" /\ selected # None /\ Command("remove", selected)
       \/ /\ c = "escape" /\ selected # None /\ selected' = None /\ UNCHANGED <<queue, cards, grave>>
       \/ /\ c = "ctrlR"
          /\ LET runs == {i \in DOMAIN cards : ~cards[i].removing /\ CanRunFrom(cards[i].view.state)}
                 picked == {i \in runs : cards[i].id = selected}
             IN /\ runs # {}
                /\ Command("run", cards[IF picked # {} THEN CHOOSE i \in picked : TRUE
                                        ELSE CHOOSE i \in runs : \A k \in runs : i <= k].id)
    /\ UNCHANGED <<created, popups, trimmed>>

OpensPresets(card, works) ==
    /\ CanEditPlanIn(card.view.state) /\ card.id \notin buttons
    /\ Show([id |-> card.id, kind |-> "preset", items |-> card.items], works)
    /\ UNCHANGED <<engine, cards, grave, selected, trimmed>>

OpensContextMenu(card, works) ==
    /\ Show([id |-> card.id, kind |-> "context", items |-> SetToSeq(Offered(card))], works)
    /\ UNCHANGED <<engine, cards, grave, selected, trimmed>>

(* choose: the callback is given the index of the row, then the popup closes.*)
(* The context menu looks the index up in its own rows, the preset button in *)
(* the items it has by now; the command finds its job or does nothing.       *)
Chooses(i) ==
    /\ i \in DOMAIN popup.items
    /\ LET card == cards[CHOOSE k \in DOMAIN cards : cards[k].id = popup.id]
           value == IF i \in DOMAIN card.items THEN card.items[i] ELSE Default
       IN CASE popup.id \notin Ids(queue) -> Nothing
            [] popup.id \in Ids(queue) /\ popup.kind = "context" -> Command(popup.items[i], popup.id)
            [] OTHER -> Changes(SetPreset(queue[At(queue, popup.id)], value))
    /\ Dismiss
    /\ UNCHANGED <<created, trimmed>>

(* Escape, a press elsewhere, a lost capture, the end of the window.         *)
PopupCloses ==
    /\ popup # Hidden /\ Dismiss
    /\ UNCHANGED <<engine, cards, grave, selected, trimmed>>

(* All that dismisses the menu that is shown.                                *)
EndsMenu ==
    \/ \E id \in Ids(queue) : Select(id)
    \/ \E i \in DOMAIN Live(cards), c \in {"run", "hold", "resume", "remove"} : Clicks(Live(cards)[i], c)
    \/ \E i \in DOMAIN popup.items : Chooses(i)
    \/ \E i \in DOMAIN Live(cards), works \in BOOLEAN :
          OpensPresets(Live(cards)[i], works) \/ OpensContextMenu(Live(cards)[i], works)
    \/ PopupCloses

Init ==
    /\ queue = <<>> /\ created = 0 /\ cards = <<>> /\ grave = {} /\ selected = None
    /\ popup = Hidden /\ overlay = FALSE /\ buttons = {} /\ trimmed = {}

Next ==
    /\ popup.kind # "stray"
    /\ \/ JobAppears
       \/ \E id \in Ids(queue) : \/ \E state \in States : JobMoves(id, state)
                                 \/ TransferInferred(id, "HLG")
       \/ Trim
       \/ \E id \in Ids(cards) : AnimationEnds(id)
       \/ \E c \in {"delete", "escape", "ctrlR"} : KeyDown(c)
       \/ ~Dangles /\ EndsMenu
       \/ Strays

Spec == Init /\ [][Next]_vars

-----------------------------------------------------------------------------
(* After every change the cards that stay are the engine's jobs, in its      *)
(* order and as they are now, whatever cards are still on their way out and  *)
(* wherever a new job belongs.                                               *)
CardsShowTheQueue ==
    LET live == Live(cards)
    IN Len(live) = Len(queue) /\ \A i \in DOMAIN queue : live[i].id = queue[i].id /\ live[i].view = queue[i]

(* The keys act on a job that is still there.                                *)
SelectionIsListed == selected = None \/ selected \in Ids(Live(cards))

(* The button, the overlay and the window agree on which menu is open: none  *)
(* stays "open" with no window to close it, or keeps its button from being   *)
(* opened again.                                                             *)
PopupsAgree ==
    /\ overlay = (popup # Hidden)
    /\ buttons = IF popup.kind = "preset" /\ ~Dangles THEN {popup.id} ELSE {}

(* Cards that are moved, updated or replaced keep the button of an open menu *)
(* alive: only the history's trimming takes away a card whose menu is open,  *)
(* and with it the object the menu's callbacks are called on.                *)
MenusKeepTheirButtons == Dangles \/ popup.kind = "stray" => popup.id \in trimmed
=============================================================================
