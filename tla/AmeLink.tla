------------------------------ MODULE AmeLink ------------------------------
(* What the panel in AME says about the exports, and what the engine makes   *)
(* of it: Engine::applyAmeMessage with the pairs of batch positions and      *)
(* outputs, and the three lists of folders (settings, learned, watched) that *)
(* panel messages, log events and the user change.  AME may encode several   *)
(* items at once, tells of an item's start before its status, and reuses     *)
(* positions; a closed panel hears nothing.                                  *)
EXTENDS Naturals, Sequences, FiniteSets

CONSTANTS
    Paths,       \* outputs AME encodes to
    DirOf,       \* [Paths -> Dirs]
    Dirs,        \* normalised folders
    Ignored,     \* settings.ignoreFolders, read when the program starts
    Positions,   \* (groupIndex, itemIndex) of AME's batch
    MaxItems,    \* bound: items AME starts
    MaxFolders   \* bound: folder commands and log events
None == "none"

VARIABLES
    encoding,  \* AME: the items it encodes
    open,      \* the panel is loaded
    line,      \* messages of the panel on their way
    newest,    \* the newest job of each output
    pairs,     \* Engine::cepStartedPaths_
    extra,     \* settings.extraWatchFolders
    known,     \* Engine::knownFolders_
    watched,   \* FolderWatcher: the folders asked for
    wronged,   \* history: outputs failed for another item though that one was heard
    items, turns

encoder == <<encoding, open, items>>
folders == <<extra, known, watched>>
ameVars == <<encoder, line, newest, pairs, folders, wronged, turns>>

Latest == "last"
Active == {"Encoding", "Probing", "Failing", "Muxing"}   \* Probing: a tracked probe
NoJob == [state |-> None, shown |-> FALSE, confirmed |-> FALSE]

(* No output is called "none", and no position "last".                       *)
ASSUME AmeAssumption ==
    None \notin Paths /\ Latest \notin Positions /\ DirOf \in [Paths -> Dirs]

(* heard: the start of the item is the last one that the panel heard, and    *)
(* was when the panel heard its status; told: it had its status.             *)
Item == [path : Paths, at : Positions, heard : BOOLEAN, told : BOOLEAN]
Message == [type : {"encodingStarted", "itemEncoding", "progress", "encodeComplete",
                    "encodeFailed", "itemFailed"},
            path : Paths, at : Positions, heard : BOOLEAN]

Export == [state : Active \cup {None, "Failed", "Done"}, shown : BOOLEAN, confirmed : BOOLEAN]

AmeTypeOK ==
    /\ encoding \subseteq Item /\ open \in BOOLEAN
    /\ line \in Seq(Message)
    /\ newest \in [Paths -> Export]
    /\ pairs \in [Positions \cup {Latest} -> Paths \cup {None}]
    /\ {extra, known, watched} \subseteq SUBSET Dirs

-----------------------------------------------------------------------------
(* AME and its panel *)

(* A message; that its item was heard too is for BlameIsFair.                *)
Word(type, e, heard) == [type |-> type, path |-> e.path, at |-> e.at, heard |-> heard]

(* The start of another item hides that of one without a status.             *)
Overtaken(e) == IF e.told THEN e ELSE [e EXCEPT !.heard = FALSE]

StartsItem(p, at) ==
    /\ items < MaxItems /\ items' = items + 1
    /\ \A e \in encoding : e.at # at
    /\ LET e == [path |-> p, at |-> at, heard |-> open, told |-> FALSE]
       IN IF open THEN /\ encoding' = {Overtaken(f) : f \in encoding} \cup {e}
                       /\ line' = Append(line, Word("encodingStarted", e, TRUE))
                  ELSE encoding' = encoding \cup {e} /\ UNCHANGED line
    /\ UNCHANGED <<open, newest, pairs, folders, wronged, turns>>

TellsStatus(e) ==
    /\ ~e.told
    /\ encoding' = (encoding \ {e}) \cup {[e EXCEPT !.told = TRUE, !.heard = @ /\ open]}
    /\ line' = IF open THEN Append(line, Word("itemEncoding", e, e.heard)) ELSE line
    /\ UNCHANGED <<open, items, newest, pairs, folders, wronged, turns>>

Progresses(e) ==
    /\ open /\ ~ \E i \in DOMAIN line : line[i].type = "progress"
    /\ line' = Append(line, Word("progress", e, FALSE))
    /\ UNCHANGED <<encoder, newest, pairs, folders, wronged, turns>>

(* AME tells of a failure by the item's status, by its result, or by both.   *)
EndsItem(e, types) ==
    /\ encoding' = encoding \ {e}
    /\ line' = IF open
               THEN line \o [i \in DOMAIN types |-> Word(types[i], e, e.heard /\ e.told)]
               ELSE line
    /\ UNCHANGED <<open, items, newest, pairs, folders, wronged, turns>>

PanelToggles ==
    /\ open' = ~open
    /\ UNCHANGED <<encoding, items, line, newest, pairs, folders, wronged, turns>>

-----------------------------------------------------------------------------
(* The folders *)

LogFolders(S) ==
    LET new == {d \in S : d \notin Ignored /\ d \notin known}
    IN /\ known' = known \cup new
       /\ watched' = IF new = {} THEN watched ELSE extra \cup known'
       /\ UNCHANGED extra

RegisterFolder(d) ==
    LET new == d \notin Ignored \cup known \cup extra
    IN /\ known' = IF new THEN known \cup {d} ELSE known
       /\ watched' = IF new THEN watched \cup {d} ELSE watched
       /\ UNCHANGED extra

AddWatchFolder(d) ==
    extra' = extra \cup {d} /\ watched' = watched \cup {d} /\ UNCHANGED known

RemoveWatchFolder(d) ==
    extra' = extra \ {d} /\ watched' = watched \ {d} /\ known' = known \ {d}

ApplySettings ==
    watched' = extra \cup (known \ Ignored) /\ UNCHANGED <<extra, known>>

FolderTurn ==
    /\ turns < MaxFolders /\ turns' = turns + 1
    /\ \/ \E S \in SUBSET Dirs : LogFolders(S)
       \/ \E d \in Dirs : AddWatchFolder(d) \/ RemoveWatchFolder(d)
       \/ ApplySettings
    /\ UNCHANGED <<encoder, line, newest, pairs, wronged>>

-----------------------------------------------------------------------------
(* applyAmeMessage *)

\* Mutant: a batch position keeps the output it was first paired with.
BugPaired(at) == IF pairs[at] = None THEN [pairs EXCEPT ![at] = pairs[Latest]] ELSE pairs

Paired(at) == IF pairs[Latest] = None THEN pairs ELSE [pairs EXCEPT ![at] = pairs[Latest]]

Ensured(p) == IF newest[p].state \in Active THEN newest[p] ELSE [NoJob EXCEPT !.state = "Discovered"]

EncodingStarted(p) ==
    LET j == Ensured(p)
        k == [j EXCEPT !.state = IF @ = "Discovered" THEN "Encoding" ELSE @]
    IN /\ newest' = [newest EXCEPT ![p] = IF k.state = "Encoding" THEN [k EXCEPT !.shown = FALSE] ELSE k]
       /\ pairs' = [pairs EXCEPT ![Latest] = p]
       /\ RegisterFolder(DirOf[p])
       /\ UNCHANGED wronged

Progress(p) ==
    /\ newest' = IF newest[p].state = "Encoding" THEN [newest EXCEPT ![p].shown = TRUE] ELSE newest
    /\ UNCHANGED <<pairs, folders, wronged>>

(* A job in the muxer only gets a note, a tracked one fails by its probe.    *)
FailedBy(j) == [j EXCEPT !.state = CASE @ = "Muxing" -> @
                                     [] @ \in {"Probing", "Failing"} -> "Failing"
                                     [] OTHER -> "Failed"]

EncodeComplete(p, ok) ==
    LET j == [Ensured(p) EXCEPT !.confirmed = TRUE]
    IN /\ newest' = [newest EXCEPT ![p] =
                    IF ~ok THEN FailedBy(j)
                    ELSE IF j.state \in {"Discovered", "Encoding"}
                         THEN [j EXCEPT !.state = "Probing"] ELSE j]
       /\ RegisterFolder(DirOf[p])
       /\ UNCHANGED <<pairs, wronged>>

ItemEncoding(at) == pairs' = Paired(at) /\ UNCHANGED <<newest, folders, wronged>>

ItemFailed(m) ==
    LET p == pairs[m.at]
        hit == p # None /\ newest[p].state \in Active \ {"Muxing"}
    IN /\ pairs' = [pairs EXCEPT ![m.at] = None]
       /\ newest' = IF hit THEN [newest EXCEPT ![p] = FailedBy(@)] ELSE newest
       /\ wronged' = IF hit /\ p # m.path /\ m.heard THEN wronged \cup {p} ELSE wronged
       /\ UNCHANGED folders

ApplyAmeMessage ==
    /\ line # <<>> /\ line' = Tail(line)
    /\ LET m == Head(line)
       IN \/ m.type = "encodingStarted" /\ EncodingStarted(m.path)
          \/ m.type = "progress" /\ Progress(m.path)
          \/ m.type = "encodeComplete" /\ EncodeComplete(m.path, TRUE)
          \/ m.type = "encodeFailed" /\ EncodeComplete(m.path, FALSE)
          \/ m.type = "itemEncoding" /\ ItemEncoding(m.at)
          \/ m.type = "itemFailed" /\ ItemFailed(m)
    /\ UNCHANGED <<encoder, turns>>

-----------------------------------------------------------------------------
(* What else moves the jobs *)

Moves(p, from, to) ==
    /\ newest[p].state = from /\ newest' = [newest EXCEPT ![p].state = to]
    /\ UNCHANGED <<encoder, line, pairs, folders, wronged, turns>>

(* removeJob: the positions paired with the output are forgotten.            *)
RemoveJob(p) ==
    /\ newest[p].state # None
    /\ newest' = [newest EXCEPT ![p] = NoJob]
    /\ pairs' = [q \in DOMAIN pairs |-> IF q # Latest /\ pairs[q] = p THEN None ELSE pairs[q]]
    /\ UNCHANGED <<encoder, line, folders, wronged, turns>>

AmeInit ==
    /\ encoding = {} /\ open \in BOOLEAN /\ line = <<>> /\ items = 0 /\ turns = 0
    /\ newest = [p \in Paths |-> NoJob] /\ pairs = [q \in Positions \cup {Latest} |-> None]
    /\ extra = {} /\ known = {} /\ watched = {}
    /\ wronged = {}

Endings == {<<"encodeComplete">>, <<"encodeFailed">>, <<"itemFailed">>, <<"encodeFailed", "itemFailed">>}

AmeNext ==
    \/ \E p \in Paths, at \in Positions : StartsItem(p, at)
    \/ \E e \in encoding : \/ TellsStatus(e)
                          \/ Progresses(e)
                          \/ \E types \in Endings : EndsItem(e, types)
    \/ PanelToggles
    \/ FolderTurn
    \/ ApplyAmeMessage
    \/ \E p \in Paths : \/ Moves(p, "Probing", "Muxing")
                        \/ Moves(p, "Failing", "Failed")
                        \/ Moves(p, "Muxing", "Done")
                        \/ RemoveJob(p)

AmeSpec == AmeInit /\ [][AmeNext]_ameVars

-----------------------------------------------------------------------------
(* A failure in the panel's messages fails the job it is about.  The status  *)
(* of a batch position fails a job of another output only when the panel     *)
(* missed the start or the status of the item at that position, or heard     *)
(* another start between the two: a position carries no path, and is paired  *)
(* with the last start that was heard.                                       *)
BlameIsFair == wronged = {}

(* The watcher is asked for the folders of the settings and those learned    *)
(* from AME, whatever order the log, the panel and the user change them in:  *)
(* a folder the user removed is not watched on the quiet.                    *)
FoldersAgree == watched = extra \cup known

(* What the panel says is believed of the job it is about, and its folders   *)
(* are watched with those of the settings.                                   *)
PanelIsBelieved == BlameIsFair /\ FoldersAgree
=============================================================================
