------------------------------ MODULE Editing ------------------------------
(* The text field of the settings screen (TextField.cpp), with its caret,    *)
(* selection, undo and the moments it submits, under the one field the       *)
(* program has: the output suffix, which SettingsScreen checks and commits   *)
(* and which every refresh of the screen writes back.  Text is UTF-16: a      *)
(* character outside the first plane is a pair of units.                     *)
EXTENDS Naturals, SequencesExt

CONSTANTS
    MaxLen,     \* bound: units of text
    UndoDepth,  \* kUndoDepth
    MaxKeys     \* bound: keys and clicks

(* Units: a word character, a space, one no file name may hold, and the two  *)
(* halves of a pair.                                                         *)
Word == "w"
Space == " "
Bad == "/"
High == "H"
Low == "L"
Pair == <<High, Low>>

VARIABLES
    text, caret, anchor,   \* units and gaps between them, 0..Len(text)
    undo, redo,            \* snapshots, the newest last
    focused, dirty,
    atFocus,               \* textAtFocus_
    dragging,
    clip,                  \* the clipboard
    suffix,                \* settings.suffix
    keys

edit == <<text, caret, anchor, undo, redo>>
vars == <<edit, focused, dirty, atFocus, dragging, clip, suffix, keys>>

-----------------------------------------------------------------------------
(* Places in the text *)

Least(a, b) == IF a < b THEN a ELSE b
Most(a, b) == IF a < b THEN b ELSE a
Class(unit) == CASE unit = Word -> "word" [] unit = Space -> "space" [] OTHER -> "other"

PrevCluster(pos) ==
    IF pos > 1 /\ text[pos] = Low /\ text[pos - 1] = High THEN pos - 2 ELSE IF pos > 0 THEN pos - 1 ELSE 0
NextCluster(pos) ==
    IF pos + 2 <= Len(text) /\ text[pos + 1] = High /\ text[pos + 2] = Low THEN pos + 2
    ELSE IF pos < Len(text) THEN pos + 1 ELSE Len(text)

(* Where a run of one class that ends (starts) at a gap starts (ends).       *)
RunStart(pos, class) ==
    CHOOSE s \in 0..pos : /\ \A i \in s + 1..pos : Class(text[i]) = class
                          /\ s = 0 \/ Class(text[s]) # class
RunEnd(pos, class) ==
    CHOOSE e \in pos..Len(text) : /\ \A i \in pos + 1..e : Class(text[i]) = class
                                  /\ e = Len(text) \/ Class(text[e + 1]) # class

PrevWord(pos) == LET p == RunStart(pos, "space") IN IF p = 0 THEN 0 ELSE RunStart(p, Class(text[p]))
NextWord(pos) ==
    IF pos = Len(text) THEN pos
    ELSE RunEnd(IF Class(text[pos + 1]) = "space" THEN pos ELSE RunEnd(pos, Class(text[pos + 1])), "space")

(* The word a double click selects.                                          *)
WordRange(pos) ==
    IF text = <<>> THEN <<0, 0>>
    ELSE LET probe == IF pos < Len(text) THEN pos + 1 ELSE pos
         IN <<RunStart(probe, Class(text[probe])), RunEnd(probe - 1, Class(text[probe]))>>

SelStart == Least(caret, anchor)
SelEnd == Most(caret, anchor)
HasSelection == caret # anchor
Without(lo, hi) == SubSeq(text, 1, lo) \o SubSeq(text, hi + 1, Len(text))
Selection == SubSeq(text, SelStart + 1, SelEnd)

-----------------------------------------------------------------------------
(* Edits *)

Snapshot == [text |-> text, caret |-> caret, anchor |-> anchor]
Capped(stack) == IF Len(stack) > UndoDepth THEN Tail(stack) ELSE stack

\* Mutant: only an empty history takes a snapshot.
BugPushUndo ==
    IF undo # <<>> THEN UNCHANGED <<undo, redo>>
    ELSE undo' = Capped(Append(undo, Snapshot)) /\ redo' = <<>>

(* A text that is on top already is not pushed twice, which leaves the redo  *)
(* history of before as it is.                                               *)
PushUndo ==
    IF undo # <<>> /\ Last(undo).text = text THEN UNCHANGED <<undo, redo>>
    ELSE undo' = Capped(Append(undo, Snapshot)) /\ redo' = <<>>

Changed(t, at) == text' = t /\ caret' = at /\ anchor' = at /\ dirty' = TRUE

Deletes(lo, hi) == PushUndo /\ Changed(Without(lo, hi), lo)

(* insertText: what is typed within a word joins the snapshot of its start.  *)
InsertText(s) ==
    LET boundary == Len(s) # 1 \/ s[1] # Word \/ caret = 0 \/ text[caret] # Word
        rest == Without(SelStart, SelEnd)
    IN /\ IF HasSelection \/ boundary \/ undo = <<>> THEN PushUndo ELSE UNCHANGED <<undo, redo>>
       /\ Changed(SubSeq(rest, 1, SelStart) \o s \o SubSeq(rest, SelStart + 1, Len(rest)), SelStart + Len(s))

Restores(s, from) ==
    /\ text' = s.text /\ caret' = Least(s.caret, Len(s.text)) /\ anchor' = Least(s.anchor, Len(s.text))
    /\ dirty' = TRUE /\ from # <<>>

-----------------------------------------------------------------------------
(* The suffix *)

IsBlank(t) == \A i \in DOMAIN t : t[i] = Space
Valid(t) == t # <<>> /\ \A i \in DOMAIN t : t[i] # Bad
Trimmed(t) ==
    IF IsBlank(t) THEN <<>>
    ELSE SubSeq(t, CHOOSE i \in DOMAIN t : t[i] # Space /\ \A k \in 1..i - 1 : t[k] = Space,
                   CHOOSE i \in DOMAIN t : t[i] # Space /\ \A k \in i + 1..Len(t) : t[k] = Space)

(* onSubmit and setSuffix: an invalid or blank text is not taken.            *)
Submits(t) == suffix' = IF Valid(t) /\ Trimmed(t) # <<>> THEN Trimmed(t) ELSE suffix

(* The refresh that a change of the settings brings.                         *)
Refreshed == text' = suffix /\ caret' = Len(suffix) /\ anchor' = Len(suffix) /\ undo' = <<>> /\ redo' = <<>>

-----------------------------------------------------------------------------
(* Keys and the mouse *)

Pressed == focused /\ keys < MaxKeys /\ keys' = keys + 1
MoveTo(pos, extend) ==
    /\ caret' = pos /\ anchor' = IF extend THEN anchor ELSE pos
    /\ UNCHANGED <<text, undo, redo, dirty>>

Moves(forward, word, extend) ==
    /\ Pressed
    /\ MoveTo(IF HasSelection /\ ~word /\ ~extend THEN IF forward THEN SelEnd ELSE SelStart
              ELSE CASE forward /\ word -> NextWord(caret) [] forward /\ ~word -> NextCluster(caret)
                     [] ~forward /\ word -> PrevWord(caret) [] OTHER -> PrevCluster(caret), extend)
    /\ UNCHANGED <<focused, atFocus, dragging, clip, suffix>>

Jumps(toEnd, extend) ==
    /\ Pressed /\ MoveTo(IF toEnd THEN Len(text) ELSE 0, extend)
    /\ UNCHANGED <<focused, atFocus, dragging, clip, suffix>>

Types(s) ==
    /\ Pressed /\ Len(text) - (SelEnd - SelStart) + Len(s) <= MaxLen /\ InsertText(s)
    /\ UNCHANGED <<focused, atFocus, dragging, clip, suffix>>

(* Backspace and Delete: the selection, else a character or a word.          *)
Erases(forward, word) ==
    /\ Pressed
    /\ IF HasSelection THEN Deletes(SelStart, SelEnd)
       ELSE LET to == IF forward THEN IF word THEN NextWord(caret) ELSE NextCluster(caret)
                      ELSE IF word THEN PrevWord(caret) ELSE PrevCluster(caret)
            IN to # caret /\ Deletes(Least(caret, to), Most(caret, to))
    /\ UNCHANGED <<focused, atFocus, dragging, clip, suffix>>

Copies(cut, taken) ==
    /\ Pressed /\ HasSelection
    /\ clip' = IF taken THEN Selection ELSE clip
    /\ IF cut /\ taken THEN Deletes(SelStart, SelEnd) ELSE UNCHANGED <<edit, dirty>>
    /\ UNCHANGED <<focused, atFocus, dragging, suffix>>

Pastes ==
    /\ Pressed /\ clip # <<>> /\ Len(text) - (SelEnd - SelStart) + Len(clip) <= MaxLen /\ InsertText(clip)
    /\ UNCHANGED <<focused, atFocus, dragging, clip, suffix>>

Undo ==
    /\ Pressed /\ undo # <<>> /\ Restores(Last(undo), undo)
    /\ undo' = Front(undo) /\ redo' = Capped(Append(redo, Snapshot))
    /\ UNCHANGED <<focused, atFocus, dragging, clip, suffix>>

Redo ==
    /\ Pressed /\ redo # <<>> /\ Restores(Last(redo), redo)
    /\ redo' = Front(redo) /\ undo' = Capped(Append(undo, Snapshot))
    /\ UNCHANGED <<focused, atFocus, dragging, clip, suffix>>

Enters ==
    /\ Pressed /\ dirty' = FALSE /\ atFocus' = text /\ Submits(text)
    /\ UNCHANGED <<edit, focused, dragging, clip>>

(* Escape restores the text of the focus without a snapshot, then the field  *)
(* loses the focus with nothing to submit.                                   *)
Escapes ==
    /\ Pressed /\ dirty' = FALSE /\ focused' = FALSE /\ dragging' = FALSE
    /\ text' = atFocus
    /\ IF text # atFocus THEN caret' = Len(atFocus) /\ anchor' = Len(atFocus) ELSE UNCHANGED <<caret, anchor>>
    /\ UNCHANGED <<undo, redo, atFocus, clip, suffix>>

(* onMouseDown: DirectWrite hits no place inside a pair.                     *)
Places == {p \in 0..Len(text) : ~(p \in 1..Len(text) - 1 /\ text[p] = High)}

Clicks(pos, count, shift) ==
    /\ Pressed
    /\ CASE count = 1 -> MoveTo(pos, shift)
         [] count = 2 -> /\ anchor' = WordRange(pos)[1] /\ caret' = WordRange(pos)[2]
                         /\ UNCHANGED <<text, undo, redo, dirty>>
         [] count = 3 -> anchor' = 0 /\ caret' = Len(text) /\ UNCHANGED <<text, undo, redo, dirty>>
    /\ dragging' = (count = 1)
    /\ UNCHANGED <<focused, atFocus, clip, suffix>>

Drags(pos) ==
    /\ Pressed /\ dragging /\ MoveTo(pos, TRUE)
    /\ UNCHANGED <<focused, atFocus, dragging, clip, suffix>>

Releases == dragging /\ dragging' = FALSE /\ UNCHANGED <<edit, focused, dirty, atFocus, clip, suffix, keys>>

Focuses ==
    /\ ~focused /\ keys < MaxKeys /\ focused' = TRUE /\ atFocus' = text /\ dirty' = FALSE
    /\ anchor' = 0 /\ caret' = Len(text)
    /\ UNCHANGED <<text, undo, redo, dragging, clip, suffix, keys>>

(* Losing the focus submits what was edited.  A suffix that changes by it    *)
(* brings the refresh, which the field takes now that it has no focus.       *)
Blurs ==
    /\ focused /\ focused' = FALSE /\ dragging' = FALSE /\ dirty' = FALSE
    /\ IF dirty THEN Submits(text) /\ atFocus' = text ELSE UNCHANGED <<suffix, atFocus>>
    /\ IF suffix' # suffix
       THEN text' = suffix' /\ caret' = Len(text') /\ anchor' = Len(text')
            /\ IF text' = text THEN UNCHANGED <<undo, redo>> ELSE undo' = <<>> /\ redo' = <<>>
       ELSE UNCHANGED edit
    /\ UNCHANGED <<clip, keys>>

(* Any other change of the settings refreshes the screen.                    *)
Refreshes ==
    /\ ~focused /\ text # suffix /\ Refreshed
    /\ UNCHANGED <<focused, dirty, atFocus, dragging, clip, suffix, keys>>

Init ==
    /\ suffix = <<Word>> /\ text = suffix /\ caret = 1 /\ anchor = 1
    /\ undo = <<>> /\ redo = <<>> /\ focused = FALSE /\ dirty = FALSE /\ atFocus = <<>>
    /\ dragging = FALSE /\ clip = <<>> /\ keys = 0

Next ==
    \/ \E a, b, c \in BOOLEAN : Moves(a, b, c)
    \/ \E a, b \in BOOLEAN : Jumps(a, b) \/ Erases(a, b) \/ Copies(a, b)
    \/ \E s \in {<<Word>>, <<Space>>, <<Bad>>, Pair} : Types(s)
    \/ Pastes
    \/ Undo
    \/ Redo
    \/ Enters
    \/ Escapes
    \/ \E pos \in Places : (\E count \in 1..3, shift \in BOOLEAN : Clicks(pos, count, shift)) \/ Drags(pos)
    \/ Releases
    \/ Focuses
    \/ Blurs
    \/ Refreshes

Spec == Init /\ [][Next]_vars

-----------------------------------------------------------------------------
(* No key, click, undo or refresh cuts a character in two: every pair of the *)
(* text is whole, and neither end of the selection stands inside one.        *)
PairsAreWhole ==
    /\ \A i \in DOMAIN text : /\ text[i] = High => i < Len(text) /\ text[i + 1] = Low
                              /\ text[i] = Low => i > 1 /\ text[i - 1] = High
    /\ {caret, anchor} \subseteq Places

(* A field that is not being edited shows the suffix in use, unless it shows *)
(* one that cannot be used: what was typed is submitted however the focus is *)
(* lost, and Escape leaves nothing of it behind.                             *)
SuffixIsShown == ~focused /\ Valid(text) /\ ~IsBlank(text) => Trimmed(text) = suffix

NewestIs(stack, t) == stack # <<>> /\ Last(stack).text = t

(* Of every step: what a key removes can be brought back: the text of before *)
(* is the newest the history holds, on the side of undo or, after an undo,   *)
(* of redo.                                                                  *)
RemovalsCanBeUndone ==
    focused /\ focused' /\ Len(text') < Len(text) => NewestIs(undo', text) \/ NewestIs(redo', text)
=============================================================================
