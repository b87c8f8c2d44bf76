---------------------------- MODULE FolderWatch ----------------------------
(* One watched folder: FolderWatcher's thread, the DirectoryWatch it holds  *)
(* on the folder, the commands of the user interface, and the disk, which   *)
(* changes, goes away and comes back on its own.  A step of the thread      *)
(* (drain, flush, scan) is one action: a change that falls into it also     *)
(* raises a notification, for the watch is armed before anything is listed. *)
EXTENDS Naturals, Sequences

CONSTANTS Candidates,   \* names with a watched extension
          Sidecars,     \* names of AME's temporary streams, written within the hour
          MaxSize,      \* bound: sizes of a file, 0 is absent
          MaxNotified,  \* notifications the buffer of the watch holds
          MaxOutages    \* bound: times the folder goes away or cannot be listed

Names == Candidates \cup Sidecars
Kinds == {"Add", "Modify", "Remove"}

ASSUME FolderAssumption == MaxSize \in Nat \ {0} /\ MaxNotified \in Nat

VARIABLES
    sizes,      \* the size of each file, 0 for none
    old,        \* files written more than catchUpMinutes ago
    reach,      \* the folder can be opened
    ame,        \* the process that owns the sidecars runs
    outages,
    desired,    \* the folder is in desiredFolders_
    command,    \* commands_ is not empty
    inWatch,    \* it is in watched_
    active,     \* DirectoryWatch::active
    raised,     \* what the OS has for the next drain: <<name, kind>>
    overflow,   \* more than it could hold
    available, retry,   \* Watched::available, and nextRetryMs # 0
    debounced,  \* Watched::pendingAction, "none" without an entry
    snapshot,   \* Watched::snapshot, 0 without an entry
    outcome,    \* ghost: the last FolderAvailabilityEvent of the folder since it
                \* is watched, "repeated" when it said what the one before said
    view,       \* ghost: the size of each file by the events posted, 0 for gone
    skipped     \* ghost: files the events say nothing of, by design or by omission

osVars == <<sizes, old, reach, ame, outages>>
listVars == <<desired, command, inWatch>>
watchVars == <<active, raised, overflow>>
stateVars == <<available, retry, debounced, snapshot>>
ghosts == <<outcome, view, skipped>>
folderVars == <<osVars, listVars, watchVars, stateVars, ghosts>>

NoFiles == [n \in Names |-> 0]
Quiet == [n \in Names |-> "none"]

FolderInit ==
    /\ sizes \in [Names -> {0, 1}] /\ old \in SUBSET {n \in Names : sizes[n] # 0}
    /\ reach = TRUE /\ ame = TRUE /\ outages = 0
    /\ desired = FALSE /\ command = FALSE /\ inWatch = FALSE
    /\ active = FALSE /\ raised = <<>> /\ overflow = FALSE
    /\ available = FALSE /\ retry = FALSE /\ debounced = Quiet /\ snapshot = NoFiles
    /\ outcome = "none" /\ view = NoFiles /\ skipped = {}

(* What the variables hold; the buffer of the watch never more than it can. *)
FolderTypeOK ==
    /\ {sizes, snapshot, view} \subseteq [Names -> 0 .. MaxSize] /\ {old, skipped} \subseteq SUBSET Names
    /\ {reach, ame, desired, command, inWatch, active, overflow, available, retry} \subseteq BOOLEAN
    /\ raised \in Seq(Names \X Kinds) /\ Len(raised) <= MaxNotified
    /\ debounced \in [Names -> Kinds \cup {"none"}]
    /\ outcome \in {"none", "available", "unavailable", "repeated"}

-----------------------------------------------------------------------------
(* The disk and Media Encoder.                                              *)

(* A change raises a notification when the watch is armed and its buffer    *)
(* has room; one too many makes the drain report an overflow.               *)
Raise(n, kind) ==
    /\ raised' = IF active /\ Len(raised) < MaxNotified THEN Append(raised, <<n, kind>>) ELSE raised
    /\ overflow' = (overflow \/ (active /\ Len(raised) = MaxNotified))

Changes(n, size) ==
    /\ sizes[n] # size /\ (n \in Sidecars /\ size # 0 => ame)
    /\ sizes' = [sizes EXCEPT ![n] = size] /\ old' = old \ {n}
    /\ Raise(n, IF size = 0 THEN "Remove" ELSE IF sizes[n] = 0 THEN "Add" ELSE "Modify")
    /\ UNCHANGED <<reach, ame, outages, listVars, active, stateVars, ghosts>>

Ages(n) == /\ sizes[n] # 0 /\ n \in Candidates /\ n \notin old /\ old' = old \cup {n}
           /\ UNCHANGED <<sizes, reach, ame, outages, listVars, watchVars, stateVars, ghosts>>

AmeEnds == /\ ame /\ ame' = FALSE
           /\ UNCHANGED <<sizes, old, reach, outages, listVars, watchVars, stateVars, ghosts>>

GoesAway == /\ reach /\ outages < MaxOutages /\ outages' = outages + 1 /\ reach' = FALSE
            /\ UNCHANGED <<sizes, old, ame, listVars, watchVars, stateVars, ghosts>>

ComesBack == /\ ~reach /\ reach' = TRUE
             /\ UNCHANGED <<sizes, old, ame, outages, listVars, watchVars, stateVars, ghosts>>

-----------------------------------------------------------------------------
(* The user interface: addFolder, removeFolder; setFolders is either, for   *)
(* the thread takes the list as it is when it gets to the commands.         *)

SetDesired(on) ==
    /\ desired # on /\ desired' = on /\ command' = TRUE
    /\ UNCHANGED <<osVars, inWatch, watchVars, stateVars, ghosts>>

-----------------------------------------------------------------------------
(* The thread.  What classify does is a record of the folder: snap is the   *)
(* snapshot, view what was posted, skip the names nothing was posted of.    *)

(* A removed sidecar is one only while its process runs; without it the     *)
(* name is like any other and its extension decides.                        *)
Trusted(n, kind) == n \in Candidates \/ kind # "Remove" \/ ame

(* What is neither on the disk nor in the snapshot is passed over.          *)
Known(n, kind) == kind = "Remove" \/ sizes[n] # 0 \/ snapshot[n] # 0

(* classify on a set of names, each with its action.                        *)
Classified(names, kinds) ==
    LET posted == {n \in names : Trusted(n, kinds[n]) /\ Known(n, kinds[n])}
        now(f) == [n \in Names |-> IF n \notin posted THEN f[n]
                                   ELSE IF kinds[n] = "Remove" THEN 0 ELSE sizes[n]]
    IN [snap |-> now(snapshot), view |-> now(view),
        skip |-> (skipped \ posted) \cup {n \in names : ~Trusted(n, kinds[n])}]

(* rescanDiff: what the snapshot and the listing do not agree on.           *)
Differs(n) == (snapshot[n] = 0) # (sizes[n] = 0) \/ snapshot[n] # sizes[n]
Rescanned ==
    LET f == Classified({n \in Names : Differs(n)},
                        [n \in Names |-> IF sizes[n] = 0 THEN "Remove"
                                         ELSE IF snapshot[n] = 0 THEN "Add" ELSE "Modify"])
    IN [f EXCEPT !.snap = sizes]

(* initialScan: sidecars and the candidates of the last minutes.            *)
Stale == {n \in Candidates : sizes[n] # 0 /\ n \in old}
Scanned == [snap |-> sizes,
            view |-> [n \in Names |-> IF sizes[n] # 0 /\ n \notin Stale THEN sizes[n] ELSE view[n]],
            skip |-> (skipped \ {n \in Names : sizes[n] # 0}) \cup Stale]

(* A listing that fails leaves everything as it is.                         *)
Lists(initial) ==
    \/ /\ LET f == IF initial THEN Scanned ELSE Rescanned
          IN snapshot' = f.snap /\ view' = f.view /\ skipped' = f.skip
       /\ UNCHANGED outages
    \/ /\ outages < MaxOutages /\ outages' = outages + 1
       /\ skipped' = skipped \cup Names
       /\ UNCHANGED <<snapshot, view>>

(* A FolderAvailabilityEvent is posted.                                     *)
Tells(news) == outcome' = IF outcome = news THEN "repeated" ELSE news

(* openWatch: the watch is armed, then the folder is listed.                *)
BugFailureIsNews == TRUE    \* every retry that fails is told
FailureIsNews == available \/ ~retry
Opens(initial) ==
    IF reach
    THEN /\ active' = TRUE /\ raised' = <<>> /\ overflow' = FALSE
         /\ available' = TRUE /\ retry' = FALSE /\ debounced' = Quiet /\ Tells("available")
         /\ Lists(initial)
    ELSE /\ available' = FALSE /\ retry' = TRUE /\ debounced' = Quiet
         /\ IF FailureIsNews THEN Tells("unavailable") ELSE UNCHANGED outcome
         /\ UNCHANGED <<watchVars, snapshot, view, skipped, outages>>

(* applyPendingCommands: a folder that is gone is dropped, a new one opened. *)
Commands ==
    /\ command /\ command' = FALSE
    /\ inWatch' = desired
    /\ \/ desired = inWatch /\ UNCHANGED <<watchVars, stateVars, ghosts, outages>>
       \/ desired /\ ~inWatch /\ Opens(TRUE)
       \/ /\ ~desired /\ inWatch
          /\ active' = FALSE /\ raised' = <<>> /\ overflow' = FALSE
          /\ available' = FALSE /\ retry' = FALSE /\ debounced' = Quiet /\ snapshot' = NoFiles
          /\ outcome' = "none" /\ view' = NoFiles /\ skipped' = {}
          /\ UNCHANGED outages
    /\ UNCHANGED <<sizes, old, reach, ame, desired>>

(* mergeAction: the last word on a name, but a change to what was added     *)
(* since the last other word leaves it added.                               *)
Words(n, kinds) == {i \in DOMAIN raised : raised[i][1] = n /\ raised[i][2] \in kinds}
LastOf(S) == CHOOSE i \in S : \A j \in S : j <= i
Merged(n) ==
    LET word(kinds) == IF Words(n, kinds) = {} THEN debounced[n] ELSE raised[LastOf(Words(n, kinds))][2]
    IN IF word(Kinds) = "Modify" /\ word({"Add", "Remove"}) = "Add" THEN "Add" ELSE word(Kinds)

(* processChanges: the watch has died with the folder, its buffer has run   *)
(* over, or the changes wait for the debounce.                              *)
WatchDies ==
    /\ inWatch /\ active /\ ~reach
    /\ active' = FALSE /\ raised' = <<>> /\ overflow' = FALSE
    /\ available' = FALSE /\ retry' = TRUE /\ debounced' = Quiet /\ Tells("unavailable")
    /\ UNCHANGED <<osVars, listVars, snapshot, view, skipped>>

BugOverflows ==             \* no scan for what the OS dropped
    /\ inWatch /\ active /\ reach /\ overflow
    /\ raised' = <<>> /\ overflow' = FALSE /\ debounced' = Quiet
    /\ UNCHANGED <<sizes, old, reach, ame, listVars, active, available, retry, outcome,
                   snapshot, view, skipped, outages>>
Overflows ==
    /\ inWatch /\ active /\ reach /\ overflow
    /\ raised' = <<>> /\ overflow' = FALSE /\ debounced' = Quiet
    /\ Lists(FALSE)
    /\ UNCHANGED <<sizes, old, reach, ame, listVars, active, available, retry, outcome>>

Drains ==
    /\ inWatch /\ active /\ reach /\ ~overflow /\ raised # <<>>
    /\ raised' = <<>>
    /\ debounced' = [n \in Names |-> Merged(n)]
    /\ UNCHANGED <<osVars, listVars, active, overflow, available, retry, snapshot, ghosts>>

(* flushDue: the names whose debounce is over.                              *)
Flushes(names) ==
    /\ inWatch /\ available /\ names # {} /\ \A n \in names : debounced[n] # "none"
    /\ debounced' = [n \in Names |-> IF n \in names THEN "none" ELSE debounced[n]]
    /\ LET f == Classified(names, debounced)
       IN snapshot' = f.snap /\ view' = f.view /\ skipped' = f.skip
    /\ UNCHANGED <<osVars, listVars, watchVars, available, retry, outcome>>

(* The retry of a folder that is away; what the snapshot holds decides      *)
(* between the diff and the catch-up scan.                                  *)
Retries == /\ inWatch /\ ~available /\ Opens(snapshot = NoFiles)
           /\ UNCHANGED <<sizes, old, reach, ame, listVars>>

FolderNext ==
    \/ \E n \in Names : (\E size \in 0..MaxSize : Changes(n, size)) \/ Ages(n)
    \/ AmeEnds \/ GoesAway \/ ComesBack
    \/ \E on \in BOOLEAN : SetDesired(on)
    \/ Commands \/ WatchDies \/ Overflows \/ Drains \/ Retries
    \/ \E names \in SUBSET Names : Flushes(names)

FolderSpec == FolderInit /\ [][FolderNext]_folderVars

-----------------------------------------------------------------------------
(* When the watcher has nothing left to do, the events it has posted say    *)
(* what is in the folder: nothing that happened during a debounce, a scan,  *)
(* an overflow or an outage is lost.  Not told are files older than the     *)
(* catch-up scan, what a failed listing hid, and the end of a sidecar whose *)
(* process has ended.                                                       *)
Settled == available /\ reach /\ ~command /\ raised = <<>> /\ ~overflow /\ debounced = Quiet
EventsTellTheFolder == Settled => \A n \in Names \ skipped : view[n] = sizes[n]

(* The last availability event of a folder is what the watcher believes,    *)
(* and none said what the one before had said: while a folder is watched    *)
(* its outages and their ends are told in turn, each once, however often    *)
(* the folder is tried in vain in between.                                  *)
OutagesAreTold == inWatch => outcome = (IF available THEN "available" ELSE "unavailable")

(* Through lost notifications, overflows and an unreachable share, what the *)
(* events add up to is what the folder holds; and an outage is told once,   *)
(* as is its end.                                                           *)
FolderIsTold == EventsTellTheFolder /\ OutagesAreTold
=============================================================================
