--------------------------- MODULE SettingsFile ---------------------------
(* settings.ini over starts, saves and a user who edits the file: IniFile's   *)
(* text format (parse, set, setComment, serialize), Settings::load and save,  *)
(* which re-reads the file so that what it does not own is kept, the machine  *)
(* defaults and the one-time import of the older tool's file.                 *)
EXTENDS Naturals, SequencesExt

CONSTANT MaxEdits    \* bound: edits of the file by hand

(* The keys the program owns, one of each kind, with their section; "own" is *)
(* a key of the user's.  "junk" is a text that is no value of the key.        *)
Owned == {"mode", "pq", "done"}
SectionOf == [k \in Owned |-> CASE k = "mode" -> "recycle" [] k = "pq" -> "lut"
                                [] k = "done" -> "migration"]
Order == <<"mode", "pq", "done">>
Values == [mode |-> {"auto", "never"}, pq |-> {"", "std"}, done |-> {"true", "false"}]
BuiltIn == [mode |-> "auto", pq |-> "", done |-> "false"]

VARIABLES
    disk,      \* the lines of settings.ini; no line when there is no file
    mem,       \* Settings of the running program
    up,        \* the program runs
    legacy,    \* the older tool's settings are there
    saved,     \* the last save was written and nobody edited the file since
    knew,      \* that save could read the file first
    edits

vars == <<disk, mem, up, legacy, saved, knew, edits>>

-----------------------------------------------------------------------------
(* IniFile: lines in sections, those before the first section in a preamble. *)

Line(kind, name, value) == [kind |-> kind, name |-> name, value |-> value]
Header(name) == Line("section", name, "")
Blank == Line("blank", "", "")
OurNote == Line("note", "ours", "")

NoIni == [preamble |-> <<>>, sections |-> <<>>]

(* Every line after a header belongs to its section, blank ones and comments *)
(* too; a key before the first header opens a section without a name.        *)
Parse(doc) ==
    LET Put(ini, line) ==
            LET n == Len(ini.sections)
            IN CASE line.kind = "section" ->
                      [ini EXCEPT !.sections = Append(@, [name |-> line.name, lines |-> <<line>>])]
                 [] line.kind # "section" /\ n > 0 ->
                      [ini EXCEPT !.sections[n].lines = Append(@, line)]
                 [] n = 0 /\ line.kind = "key" ->
                      [ini EXCEPT !.sections = <<[name |-> "", lines |-> <<line>>]>>]
                 [] OTHER -> [ini EXCEPT !.preamble = Append(@, line)]
    IN FoldLeft(Put, NoIni, doc)

(* The lines up to the last that is not blank.                               *)
Trimmed(lines) ==
    LET full == {i \in DOMAIN lines : lines[i].kind # "blank"}
    IN IF full = {} THEN <<>> ELSE SubSeq(lines, 1, CHOOSE i \in full : \A j \in full : j <= i)

Serialize(ini) ==
    LET Emit(doc, section) ==
            LET body == Trimmed(section.lines)
            IN IF body = <<>> THEN doc ELSE doc \o (IF doc = <<>> THEN <<>> ELSE <<Blank>>) \o body
    IN FoldLeft(Emit, Trimmed(ini.preamble), ini.sections)

(* The first section of the name counts, and in it the first line of the key. *)
FirstOf(S) == IF S = {} THEN 0 ELSE CHOOSE i \in S : \A j \in S : i <= j
SectionAt(ini, name) == FirstOf({i \in DOMAIN ini.sections : ini.sections[i].name = name})
KeyAt(lines, key) == FirstOf({i \in DOMAIN lines : lines[i].kind = "key" /\ lines[i].name = key})

Get(ini, key, fallback) ==
    LET s == SectionAt(ini, SectionOf[key])
        at == IF s = 0 THEN 0 ELSE KeyAt(ini.sections[s].lines, key)
    IN IF at = 0 THEN fallback ELSE ini.sections[s].lines[at].value

Ensured(ini, name) ==
    IF SectionAt(ini, name) # 0 THEN ini
    ELSE [ini EXCEPT !.sections = Append(@, [name |-> name, lines |-> <<Header(name)>>])]

(* set: the line of the key is replaced in place; a new one goes behind the  *)
(* section's last line that is not blank.                                    *)
PutKey(ini, key, value) ==
    LET e == Ensured(ini, SectionOf[key])
        s == SectionAt(e, SectionOf[key])
        lines == e.sections[s].lines
        at == KeyAt(lines, key)
        end == Len(Trimmed(lines))
    IN [e EXCEPT !.sections[s].lines =
          IF at # 0 THEN [@ EXCEPT ![at].value = value]
          ELSE InsertAt(@, end + 1, Line("key", key, value))]

(* setComment: above the key, unless it stands there already.                *)
BugPutNote(ini, key) ==
    LET s == SectionAt(ini, SectionOf[key])
        at == KeyAt(ini.sections[s].lines, key)
    IN [ini EXCEPT !.sections[s].lines =
          IF @[at - 1].kind = "note" THEN ReplaceAt(@, at - 1, OurNote) ELSE InsertAt(@, at, OurNote)]
PutNote(ini, key) ==
    LET s == SectionAt(ini, SectionOf[key])
        at == KeyAt(ini.sections[s].lines, key)
    IN IF ini.sections[s].lines[at - 1] = OurNote THEN ini
       ELSE [ini EXCEPT !.sections[s].lines = InsertAt(@, at, OurNote)]

-----------------------------------------------------------------------------
(* Settings.                                                                 *)

(* load: a key that is missing or no value of its kind keeps what was there; *)
(* the path of a LUT is any text.                                            *)
Loaded(settings, doc) ==
    LET ini == Parse(doc)
    IN [k \in Owned |-> LET v == Get(ini, k, settings[k])
                        IN IF v \in Values[k] THEN v ELSE settings[k]]

(* applyMachineDefaults.                                                     *)
Defaulted(settings) == IF settings.pq = "" THEN [settings EXCEPT !.pq = "std"] ELSE settings

(* migrateFromLegacy: what the older tool's file says, and never again.      *)
Imported(settings) == [settings EXCEPT !.done = "true", !.mode = IF legacy THEN "never" ELSE @]

(* save: every owned key is set in the file as it stands, or in an empty one *)
(* when it cannot be read.                                                   *)
Written(doc, settings, read) ==
    LET Store(ini, k) == IF k = "pq" THEN PutNote(PutKey(ini, k, settings[k]), k)
                         ELSE PutKey(ini, k, settings[k])
    IN Serialize(FoldLeft(Store, IF read THEN Parse(doc) ELSE NoIni, Order))

Save(settings, read, write) ==
    /\ disk' = IF write THEN Written(disk, settings, read) ELSE disk
    /\ saved' = write
    /\ knew' = (write /\ read)

-----------------------------------------------------------------------------
Init ==
    /\ disk = <<>> /\ mem = BuiltIn /\ up = FALSE
    /\ legacy \in BOOLEAN /\ saved = FALSE /\ knew = FALSE /\ edits = 0

(* App::initCore; the file may be held by another program at any time.       *)
Starts(read, write) ==
    /\ ~up /\ up' = TRUE
    /\ LET first == Defaulted(BuiltIn)
           loaded == Defaulted(IF read THEN Loaded(first, disk) ELSE first)
       IN IF loaded.done = "true" THEN mem' = loaded /\ UNCHANGED <<disk, saved, knew>>
          ELSE mem' = Imported(loaded) /\ Save(Imported(loaded), read, write)
    /\ UNCHANGED <<legacy, edits>>

(* A setter of the settings screen, and a save of the program that changes   *)
(* none: at the exit, by the dock or a command of the engine.                *)
SetsMode(read, write) ==
    /\ up /\ \E v \in Values.mode \ {mem.mode} :
                 LET now == [mem EXCEPT !.mode = v] IN mem' = now /\ Save(now, read, write)
    /\ UNCHANGED <<up, legacy, edits>>
SetsLut(read, write) ==
    /\ up /\ \E v \in Values.pq \ {mem.pq} :
                 LET now == [mem EXCEPT !.pq = v] IN mem' = now /\ Save(now, read, write)
    /\ UNCHANGED <<up, legacy, edits>>
Saves(read, write) == up /\ Save(mem, read, write) /\ UNCHANGED <<mem, up, legacy, edits>>

Ends == up /\ up' = FALSE /\ UNCHANGED <<disk, mem, legacy, saved, knew, edits>>

(* The user edits the file: a comment or a key of theirs, a section of their *)
(* own before or behind the others, a value changed, or the file deleted.    *)
UserLines == {Line("note", "mine", ""), Line("key", "own", "x")}
Edits ==
    /\ edits < MaxEdits /\ edits' = edits + 1
    /\ \/ \E i \in 1..Len(disk) + 1, line \in UserLines : disk' = InsertAt(disk, i, line)
       \/ \E i \in {1, Len(disk) + 1}, name \in {"mine", "lut"} : disk' = InsertAt(disk, i, Header(name))
       \/ \E i \in DOMAIN disk : /\ disk[i].kind = "key" /\ disk[i].name \in Owned
                                 /\ \E v \in Values[disk[i].name] \cup {"junk"} :
                                       disk' = [disk EXCEPT ![i].value = v]
       \/ disk # <<>> /\ disk' = <<>>
    /\ saved' = FALSE /\ knew' = FALSE
    /\ UNCHANGED <<mem, up, legacy>>

Next == \/ Ends \/ Edits
        \/ \E read, write \in BOOLEAN :
              Starts(read, write) \/ SetsMode(read, write) \/ SetsLut(read, write) \/ Saves(read, write)

Spec == Init /\ [][Next]_vars

-----------------------------------------------------------------------------
(* What was saved is what the program runs with, in this session and after a *)
(* restart that can read the file, up to the machine's defaults: whatever     *)
(* sections and keys the user's edits left in front of the owned ones         *)
(* (Settings::save, Settings::load).                                          *)
SettingsComeBack ==
    saved => LET now == Loaded(BuiltIn, disk) IN mem \in {now, Defaulted(now)}

\* The lines of the user's in the order they stand in.
Mine(doc) ==
    LET ini == Parse(doc)
        Foreign(line) == line.kind = "section" \/ line.name \in {"mine", "own"}
        Kept(lines) == SelectSeq(lines, Foreign)
    IN <<Kept(ini.preamble), SelectSeq([i \in DOMAIN ini.sections |-> Kept(ini.sections[i].lines)],
                                       LAMBDA lines : \E i \in DOMAIN lines : lines[i].kind # "section"
                                                                              \/ lines[i].name = "mine")>>

(* Of every step: a save that could read the file keeps every line of the     *)
(* user's, in their order and in their section: comments, unknown keys and    *)
(* sections (Settings::save re-reads the file for this).                      *)
ForeignLinesKept == knew' => Mine(disk') = Mine(disk)

(* Settings.cpp:457 writes into the file, of the LUT for PQ exports: "Leave   *)
(* empty to attach nothing."  So a choice of no LUT that was saved holds       *)
(* after the next start.                                                       *)
NoLutStays == saved /\ up => mem.pq = Loaded(BuiltIn, disk).pq
=============================================================================
