----------------------------- MODULE MCServices -----------------------------
(* What runs beside the UI thread, for TLC: one part at a time, each a      *)
(* behaviour of its own.  The sessions of the engine, the probes of one job *)
(* (scheduled again over one another), the messages of the panel, a watched *)
(* folder with an export that grows and a sidecar, or that goes away, and   *)
(* the pipe with two instances for two panels, the second of which writes   *)
(* one piece, or two servers, one after the other, are taken as they are;   *)
(* the others are instances, whose variables are v1, v2 and so on.          *)
EXTENDS EngineRestart, FileReadiness, AmeLink, FolderWatch, PanelLink

TwoJobs == 1 .. 2

\* The outputs of the panel, each in a folder of its own.
FolderOf == [a |-> "d1", b |-> "d2"]

\* The part that runs, and the variables of an instance in the order it declares them.
VARIABLES part, v1, v2, v3, v4, v5, v6, v7, v8, v9, v10, v11, v12, v13, v14,
          v15, v16

\* The log: two exports, the first of which fails; one thing happens to it at a time.
Log == INSTANCE LogTail
    WITH Exports <- 2, FailedBlocks <- {1}, MaxReasonLines <- 3, Chunk <- 6,
         MaxRewrites <- 1, MaxSessions <- 2, MaxCrashes <- 1,
         files <- v1, past <- v2, version <- v3, written <- v4, session <- v5,
         pc <- v6, asked <- v7, tail <- v8, handle <- v9, ident <- v10,
         recreated <- v11, dirty <- v12, saved <- v13, posted <- v14,
         twice <- v15, excuses <- v16

\* jobs.json, which somebody edits once; from then on jobs are only created.
Store == INSTANCE JobsFile
    WITH MaxId <- 2, MaxItems <- 2, MaxEdits <- 1,
         up <- v1, table <- v2, nextId <- v3, dirty <- v4, file <- v5,
         written <- v6, hurt <- v7, numbered <- v8, edits <- v9

\* A child process and its pipe.
Child == INSTANCE MkvRun
    WITH MaxLines <- 2, PipeSize <- 2, LastCap <- 1, Capture <- 3,
         Patience <- 2,
         use <- v1, child <- v2, code <- v3, held <- v4, out <- v5,
         read <- v6, pipe <- v7, cancel <- v8, pc <- v9, pending <- v10,
         record <- v11, silent <- v12, ended <- v13, status <- v14

\* A mux and its verification.
Tag == INSTANCE Tags
    WITH plan <- v1, source <- v2, lut <- v3, output <- v4, faithful <- v5,
         verdict <- v6

\* Paths, file names and arguments.
Name == INSTANCE Names
    WITH MaxLen <- 5,
         kind <- v1, root <- v2, text <- v3

\* How many of the variables a part has.
Width == [restart |-> 0, probe |-> 0, log |-> 16, folder |-> 0, pipe |-> 0, panel |-> 0,
          store |-> 9, child |-> 14, tags |-> 6, names |-> 3]

\* The others are 0.
Blank(n) ==
    /\ IF n > 0 THEN TRUE ELSE v1 = 0 /\ v2 = 0 /\ v3 = 0
    /\ IF n > 3 THEN TRUE ELSE v4 = 0 /\ v5 = 0 /\ v6 = 0
    /\ IF n > 6 THEN TRUE ELSE v7 = 0 /\ v8 = 0 /\ v9 = 0
    /\ IF n > 9 THEN TRUE ELSE v10 = 0 /\ v11 = 0
    /\ IF n > 11 THEN TRUE ELSE v12 = 0 /\ v13 = 0 /\ v14 = 0
    /\ IF n > 14 THEN TRUE ELSE v15 = 0 /\ v16 = 0

Kept(n) ==
    /\ IF n > 0 THEN TRUE ELSE UNCHANGED <<v1, v2, v3>>
    /\ IF n > 3 THEN TRUE ELSE UNCHANGED <<v4, v5, v6>>
    /\ IF n > 6 THEN TRUE ELSE UNCHANGED <<v7, v8, v9>>
    /\ IF n > 9 THEN TRUE ELSE UNCHANGED <<v10, v11>>
    /\ IF n > 11 THEN TRUE ELSE UNCHANGED <<v12, v13, v14>>
    /\ IF n > 14 THEN TRUE ELSE UNCHANGED <<v15, v16>>

AllInit ==
    /\ SessionInit /\ Init /\ AmeInit /\ FolderInit /\ LinkInit /\ part \in DOMAIN Width
    /\ part # "panel" => ~open
    /\ part # "folder" => sizes = NoFiles
    /\ \A j \in Jobs : file[j].size = 1 /\ (part # "probe" => file[j].state = "final")
    /\ \/ part \in {"restart", "probe", "panel", "folder", "pipe"}
       \/ part = "log" /\ Log!Init
       \/ part = "store" /\ Store!Init
       \/ part = "child" /\ Child!Init
       \/ part = "tags" /\ Tag!Init
       \/ part = "names" /\ Name!Init
    /\ Blank(Width[part])

others == <<sessionVars, vars, ameVars, folderVars, linkVars>>

AllNext ==
    /\ \/ part = "restart" /\ SessionNext /\ UNCHANGED <<vars, ameVars, folderVars, linkVars>>
       \/ part = "probe" /\ Next /\ UNCHANGED <<sessionVars, ameVars, folderVars, linkVars>>
       \/ part = "panel" /\ AmeNext /\ UNCHANGED <<sessionVars, vars, folderVars, linkVars>>
             /\ Len(line') <= 3 /\ (turns' > 0 => items' < 2)
             /\ (items' = 1 => \A e \in encoding' : e.at = "p1")
       \/ part = "folder" /\ FolderNext /\ UNCHANGED <<sessionVars, vars, ameVars, linkVars>>
             /\ (outages' = 0 \/ old' = {})
             /\ (\A n \in Names : sizes'[n] = 2 => n \in Candidates /\ outages' = 0)
       \/ part = "pipe" /\ LinkNext /\ UNCHANGED <<sessionVars, vars, ameVars, folderVars>>
             /\ (restarts' = 0 \/ came' < 2)
             /\ (\A s \in Slots : slot'[s].peer = 2 => slot'[s].pieces < 2)
       \/ part = "log" /\ Log!Next /\ UNCHANGED others
             /\ Cardinality(v16') < 2 /\ (Len(v1') = 2 => v16' \subseteq {"raced"})
             /\ (v16' \intersect {"truncated", "raced"} # {} => v5' = 1)
             /\ (v5' = 2 /\ v7' => Len(v1') = 1)
       \/ part = "store" /\ Store!Next /\ UNCHANGED others
             /\ (v9 = 1 /\ v1 /\ v1' => v2' = v2 \/ v3' # v3)
       \/ part = "child" /\ Child!Next /\ UNCHANGED others
       \/ part = "tags" /\ Tag!Next /\ UNCHANGED others
       \/ part = "names" /\ Name!Next /\ UNCHANGED others
    /\ Kept(Width[part]) /\ UNCHANGED part

allVars == <<others, part, v1, v2, v3, v4, v5, v6, v7, v8, v9, v10, v11, v12,
             v13, v14, v15, v16>>
AllSpec == AllInit /\ [][AllNext]_allVars

-----------------------------------------------------------------------------
(* Across restarts of the thread, of the program and of the log itself an   *)
(* export is told live at most once unless the program crashed, history is  *)
(* told as history unless the first pass over it was cut, and a record has  *)
(* those of its lines that this session was fed; a log replaced between the *)
(* open and identity() is set aside (LogTail).                              *)
LogToldOnce == part = "log" => Log!LiveOnce /\ Log!HistoryIsSeed /\ Log!RecordsAreWhole


(* A job comes back from jobs.json as it went, whatever an edit did to the  *)
(* others, and no id is given twice (JobsFile).                             *)
StoreIsWhole ==
    /\ [](part = "store" => Store!JobsComeBack)
    /\ [][part = "store" => Store!IdsAreNew]_allVars

(* The child's output is read while it runs, and what was captured of it is *)
(* what it wrote (MkvRun).                                                  *)
ChildIsRead == part = "child" => Child!OutputIsRead /\ Child!CaptureIsWhole

(* A mux that passes has the tags and tracks that were asked for, and one   *)
(* that did as told passes (Tags).                                          *)
TagsAreVerified ==
    /\ [](part = "tags" => Tag!VerifiedMeansAsked)
    /\ [][part = "tags" => Tag!FaithfulMuxPasses]_allVars

(* Every spelling of a file has one key, the program's own files are known  *)
(* as such, and an argument arrives as it was sent (Names).                 *)
NamesRoundTrip ==
    part = "names" => Name!OneKeyPerFile /\ Name!OwnFilesAreKnown /\ Name!ArgumentsArrive
=============================================================================
