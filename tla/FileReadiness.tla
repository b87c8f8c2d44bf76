---------------------------- MODULE FileReadiness ----------------------------
(***************************************************************************)
(* FileReadiness (src/src/core/FileReadiness.cpp): a thread that probes    *)
(* the outputs of jobs until each can be muxed.  The UI thread schedules,  *)
(* confirms, fails and cancels probes under the map's mutex; the worker    *)
(* takes a copy of a due probe, runs the chain of checks on the copy       *)
(* without the mutex - the file may change between two checks - and        *)
(* merges the copy back.                                                   *)
(*                                                                         *)
(* Durations are not counted.  A probe's time fields are timers: "off"     *)
(* (the field is 0), "on" (started), "over" (the configured time has       *)
(* passed).  A timer that is on may be over at any moment.  Two schedule() *)
(* calls for one job are told apart by their start time, here gen; the     *)
(* model assumes they do not fall into the same millisecond.               *)
(***************************************************************************)
EXTENDS Naturals, Sequences, FiniteSets

CONSTANTS
    Jobs,          \* job ids
    MaxGen,        \* bound: schedule() calls per job
    MaxChanges,    \* bound: changes of the files by other programs
    States,        \* bound: the file states that occur
    CheckStructure \* config_.checkStructure

ASSUME BoundsAssumption == MaxGen \in Nat /\ MaxChanges \in Nat
ASSUME CheckStructureAssumption == CheckStructure \in BOOLEAN

(* What the checks can tell apart in a file. *)
AllStates ==
    {"absent", "directory",
     "locked",      \* a writer holds it (sharing violation)
     "denied",      \* it cannot be opened for another reason
     "tiny",        \* below minOutputBytes
     "sidecars",    \* trusted AME sidecars lie next to it
     "cut",         \* its box chain does not end at EOF
     "final"}       \* everything in order
ASSUME StatesAssumption == States \subseteq AllStates

(* Two sizes of at least minOutputBytes; a tiny file has size 0.            *)
File == {f \in [state : States, size : {1, 2}] : f.size = 2 => f.state = "final"}
SizeOf(f) == IF f.state = "tiny" THEN 0 ELSE f.size

Timers == {"off", "on", "over"}
Gens   == 1..MaxGen

NoProbe == [gen |-> 0]

VARIABLES
    probes,     \* probes_: job -> its probe, or NoProbe
    running,    \* running_
    pc,         \* the worker
    due,        \* the ids of its snapshot still to probe
    job, copy,  \* the probe it works on
    seenSize,   \* the size read in step 1
    uiPc,       \* the UI thread: "ready", "join", "stopped"
    file,       \* the disk: job -> its output file
    changes,
    touched,    \* history: the file was changed since the run looked for it
    \* history
    fate,       \* [Jobs -> [Gens -> ...]]: what the UI did with the probe
    told,       \* [Jobs -> [Gens -> ...]]: fail() accepted while the probe existed
    verdict,    \* [Jobs -> [Gens -> ...]]: terminal events posted for the probe
    streak,     \* [Jobs -> 0..2]: runs of the probe in a row that came to step 3
                \* and read the same size there
    looked      \* [Jobs -> 0..2]: the size that the last of them read

uiVars      == <<running, uiPc>>
workerVars  == <<pc, due, job, copy, seenSize>>
diskVars    == <<file, changes, touched>>
lookVars    == <<streak, looked>>
historyVars == <<fate, told, verdict, lookVars>>
vars == <<probes, uiVars, workerVars, diskVars, historyVars>>

Exists(j) == probes[j] # NoProbe

-----------------------------------------------------------------------------
(* The UI thread *)

NewProbe(g, confirmation) ==
    [gen |-> g, requireConfirmation |-> confirmation, confirmed |-> FALSE, failed |-> FALSE,
     due |-> "now", lastSize |-> 0, sizeChange |-> "off", firstReady |-> "off",
     lastSeen |-> "off", start |-> "on"]

NextGen(j) == Cardinality({g \in Gens : fate[j][g] # "unused"}) + 1

\* schedule(): an existing probe of the job is replaced.
Schedule(j) ==
    /\ uiPc = "ready"
    /\ NextGen(j) <= MaxGen
    /\ \E confirmation \in BOOLEAN :
          probes' = [probes EXCEPT ![j] = NewProbe(NextGen(j), confirmation)]
    /\ fate' = [fate EXCEPT ![j] = [g \in Gens |->
                   IF g = NextGen(j) THEN "live"
                   ELSE IF fate[j][g] = "live" THEN "replaced" ELSE fate[j][g]]]
    /\ UNCHANGED <<uiVars, workerVars, diskVars, told, verdict, lookVars>>

\* confirm()
Confirm(j) ==
    /\ uiPc = "ready"
    /\ Exists(j) /\ ~probes[j].confirmed
    /\ probes' = [probes EXCEPT ![j].confirmed = TRUE,
                                ![j].due = IF @ = "done" THEN @ ELSE "now"]
    /\ UNCHANGED <<uiVars, workerVars, diskVars, historyVars>>

\* fail()
Fail(j) ==
    /\ uiPc = "ready"
    /\ Exists(j) /\ ~probes[j].failed
    /\ probes' = [probes EXCEPT ![j].failed = TRUE,
                                ![j].due = IF @ = "done" THEN @ ELSE "now"]
    /\ told' = [told EXCEPT ![j][probes[j].gen] = TRUE]
    /\ UNCHANGED <<uiVars, workerVars, diskVars, fate, verdict, lookVars>>

\* cancel()
Cancel(j) ==
    /\ uiPc = "ready"
    /\ Exists(j)
    /\ probes' = [probes EXCEPT ![j] = NoProbe]
    /\ fate' = [fate EXCEPT ![j][probes[j].gen] = "cancelled"]
    /\ UNCHANGED <<uiVars, workerVars, diskVars, told, verdict, lookVars>>

Stop ==
    /\ uiPc = "ready"
    /\ running' = FALSE
    /\ uiPc' = "join"
    /\ UNCHANGED <<probes, workerVars, diskVars, historyVars>>

StopJoin ==
    /\ uiPc = "join" /\ pc = "exited"
    /\ probes' = [j \in Jobs |-> NoProbe]
    /\ uiPc' = "stopped"
    /\ UNCHANGED <<running, workerVars, diskVars, historyVars>>

-----------------------------------------------------------------------------
(* Time and the file system *)

Over(timer) == IF timer = "on" THEN "over" ELSE timer

\* A probe's due time comes.
ProbeDue(j) ==
    /\ Exists(j) /\ probes[j].due = "later"
    /\ probes' = [probes EXCEPT ![j].due = "now"]
    /\ UNCHANGED <<uiVars, workerVars, diskVars, historyVars>>

\* One of a probe's timers runs out; the worker's copy holds the same field.
TimerOver(j, field) ==
    /\ Exists(j) /\ probes[j][field] = "on"
    /\ probes' = [probes EXCEPT ![j][field] = "over"]
    /\ copy' = IF job = j /\ copy.gen = probes[j].gen
                 THEN [copy EXCEPT ![field] = Over(@)] ELSE copy
    /\ UNCHANGED <<uiVars, pc, due, job, seenSize, diskVars, historyVars>>

TimerFields == {"sizeChange", "firstReady", "lastSeen", "start"}

\* AME or another program changes the file.
FileChange(j) ==
    /\ changes < MaxChanges
    /\ \E f \in File : f # file[j] /\ file' = [file EXCEPT ![j] = f]
    /\ changes' = changes + 1
    /\ touched' = (touched \/ (j = job /\ pc \in {"open", "size", "sidecars", "structure", "confirmation"}))
    /\ UNCHANGED <<probes, uiVars, workerVars, historyVars>>

-----------------------------------------------------------------------------
(* The worker: threadMain *)

DueNow == {j \in Jobs : Exists(j) /\ probes[j].due = "now"}

\* The wait ends (wake, timeout or stop) and the due ids are collected.
Wait ==
    /\ pc = "wait"
    /\ IF ~running THEN pc' = "exited" /\ UNCHANGED due
                   ELSE /\ DueNow # {}
                        /\ due' = DueNow
                        /\ pc' = "next"
    /\ UNCHANGED <<probes, uiVars, job, copy, seenSize, diskVars, historyVars>>

\* The next id of the snapshot; its probe may be gone by now.
TakeProbe(j) ==
    /\ pc = "next" /\ running
    /\ j \in due
    /\ due' = due \ {j}
    /\ IF Exists(j)
         THEN /\ job' = j /\ copy' = probes[j] /\ pc' = "verdict"
              /\ streak' = IF probes[j].sizeChange = "off" THEN [streak EXCEPT ![j] = 0] ELSE streak
         ELSE UNCHANGED <<job, copy, pc, streak>>
    /\ UNCHANGED <<probes, uiVars, seenSize, diskVars, fate, told, verdict, looked>>

SnapshotDone ==
    /\ pc = "next"
    /\ due = {} \/ ~running
    /\ pc' = "wait"
    /\ UNCHANGED <<probes, uiVars, due, job, copy, seenSize, diskVars, historyVars>>

-----------------------------------------------------------------------------
(* runProbe, on the copy *)

Said(v, kind) == CASE v = "none" -> kind
                   [] v = "Ready" /\ kind = "Failed" -> "ReadyThenFailed"
                   [] v = "Failed" /\ kind = "Failed" -> "FailedTwice"
                   [] OTHER -> "other"
Post(kind) == verdict' = [verdict EXCEPT ![job][copy.gen] = Said(@, kind)]

\* postFailed / the Ready event: the probe is done.
End(kind) == /\ Post(kind)
             /\ copy' = [copy EXCEPT !.due = "done"]
             /\ pc' = "merge"

\* postWriting and reschedule.
Again(c) == /\ copy' = [c EXCEPT !.due = "later"]
            /\ pc' = "merge"
            /\ UNCHANGED verdict

Frame == UNCHANGED <<probes, uiVars, due, job, diskVars, fate, told>>

\* History: a run that comes to step 3 reads a size.
Look == /\ streak' = [streak EXCEPT ![job] = IF @ > 0 /\ looked[job] = seenSize THEN 2 ELSE 1]
        /\ looked' = [looked EXCEPT ![job] = seenSize]

\* Mutant: no encoding timeout.
BugNoEncodingTimeout ==
    /\ pc = "verdict"
    /\ IF copy.failed THEN End("Failed") ELSE pc' = "exists" /\ UNCHANGED <<copy, verdict>>
    /\ UNCHANGED <<seenSize, lookVars>> /\ Frame

\* Step 0: a verdict from outside, the encoding timeout.
CheckVerdict ==
    /\ pc = "verdict"
    /\ IF copy.failed \/ copy.start = "over"
         THEN End("Failed")
         ELSE pc' = "exists" /\ UNCHANGED <<copy, verdict>>
    /\ UNCHANGED <<seenSize, lookVars>> /\ Frame

\* Step 1: existence, with the grace period for a file that was there before.
CheckExists ==
    /\ pc = "exists"
    /\ CASE file[job].state = "absent" /\ copy.lastSeen = "over" ->
              End("Failed") /\ UNCHANGED <<seenSize, lookVars>>
         [] file[job].state = "absent" /\ copy.lastSeen # "over" ->
              /\ Again([copy EXCEPT !.lastSize = 0, !.sizeChange = "off", !.firstReady = "off"])
              /\ streak' = [streak EXCEPT ![job] = 0]
              /\ UNCHANGED <<seenSize, looked>>
         [] file[job].state = "directory" ->
              End("Failed") /\ UNCHANGED <<seenSize, lookVars>>
         [] OTHER -> /\ copy' = [copy EXCEPT !.lastSeen = "on"]
                     /\ seenSize' = SizeOf(file[job])
                     /\ pc' = "open"
                     /\ UNCHANGED <<verdict, lookVars>>
    /\ Frame

\* Step 2: the deny-write open.  The failure after ten minutes of open errors
\* is a choice: no timer of the probe measures it alone.
CheckOpen ==
    /\ pc = "open"
    /\ CASE file[job].state \in {"absent", "locked"} ->
              Again([copy EXCEPT !.firstReady = "off"])
         [] file[job].state \in {"denied", "directory"} ->
              \/ End("Failed")
              \/ Again([copy EXCEPT !.firstReady = "off"])
         [] OTHER -> pc' = "size" /\ UNCHANGED <<copy, verdict>>
    /\ UNCHANGED <<seenSize, lookVars>> /\ Frame

\* Mutant: only the first look counts as a change of the size.
BugSizeNotCompared ==
    /\ pc = "size"
    /\ Look
    /\ IF copy.sizeChange = "off"
         THEN Again([copy EXCEPT !.lastSize = seenSize, !.sizeChange = "on", !.firstReady = "off"])
         ELSE IF seenSize = 0 \/ copy.sizeChange = "on"
           THEN Again([copy EXCEPT !.firstReady = "off"])
           ELSE pc' = "sidecars" /\ UNCHANGED <<copy, verdict>>
    /\ UNCHANGED seenSize /\ Frame

\* Step 3: large enough and unchanged for stableSeconds over two probes.
CheckSize ==
    /\ pc = "size"
    /\ LET changed == copy.sizeChange = "off" \/ seenSize # copy.lastSize
       IN  /\ Look
           /\ IF changed THEN Again([copy EXCEPT !.lastSize = seenSize, !.sizeChange = "on",
                                                 !.firstReady = "off"])
              ELSE IF seenSize = 0 \/ copy.sizeChange = "on"
                THEN Again([copy EXCEPT !.firstReady = "off"])
                ELSE pc' = "sidecars" /\ UNCHANGED <<copy, verdict>>
    /\ UNCHANGED seenSize /\ Frame

\* Step 4: no trusted sidecar next to the file.
CheckSidecars ==
    /\ pc = "sidecars"
    /\ IF file[job].state = "sidecars"
         THEN Again([copy EXCEPT !.firstReady = "off"])
         ELSE pc' = "structure" /\ UNCHANGED <<copy, verdict>>
    /\ UNCHANGED <<seenSize, lookVars>> /\ Frame

\* Step 5: the MP4 box chain, when configured.
CheckBoxes ==
    /\ pc = "structure"
    /\ IF CheckStructure /\ file[job].state \in {"absent", "directory", "locked", "denied", "tiny", "cut"}
         THEN Again([copy EXCEPT !.firstReady = "off"])
         ELSE pc' = "confirmation" /\ UNCHANGED <<copy, verdict>>
    /\ UNCHANGED <<seenSize, lookVars>> /\ Frame

\* Step 6: confirmation by the log or the panel, within a window; then Ready.
CheckConfirmation ==
    /\ pc = "confirmation"
    /\ LET c == [copy EXCEPT !.firstReady = IF @ = "off" THEN "on" ELSE @]
       IN  IF c.requireConfirmation /\ ~c.confirmed /\ c.firstReady = "on"
             THEN Again(c)
             ELSE End("Ready")
    /\ UNCHANGED <<seenSize, lookVars>> /\ Frame

-----------------------------------------------------------------------------
(* The merge, under the mutex *)

\* Mutant: a verdict that lands during the run is overwritten by the copy.
BugMergeOverwrites ==
    /\ pc = "merge"
    /\ pc' = "next"
    /\ IF ~Exists(job) \/ probes[job].gen # copy.gen
         THEN UNCHANGED <<probes, verdict, fate>>
         ELSE IF copy.due = "done"
           THEN /\ probes' = [probes EXCEPT ![job] = NoProbe]
                /\ fate' = [fate EXCEPT ![job][copy.gen] = "done"]
                /\ UNCHANGED verdict
           ELSE /\ probes' = [probes EXCEPT ![job] = copy]
                /\ UNCHANGED <<verdict, fate>>
    /\ copy' = NoProbe /\ seenSize' = 0 /\ touched' = FALSE   \* dead until the next probe
    /\ UNCHANGED <<uiVars, due, job, file, changes, told, lookVars>>

\* Mutant: a probe that has reported stays in the map.
BugMergeKeepsDone ==
    /\ pc = "merge"
    /\ pc' = "next"
    /\ IF ~Exists(job) \/ probes[job].gen # copy.gen
         THEN UNCHANGED probes
         ELSE probes' = [probes EXCEPT ![job] =
                            [copy EXCEPT !.confirmed = probes[job].confirmed,
                                         !.failed = probes[job].failed, !.due = "now"]]
    /\ copy' = NoProbe /\ seenSize' = 0 /\ touched' = FALSE   \* dead until the next probe
    /\ UNCHANGED <<uiVars, due, job, file, changes, historyVars>>

Merge ==
    /\ pc = "merge"
    /\ pc' = "next"
    /\ IF ~Exists(job) \/ probes[job].gen # copy.gen
         THEN UNCHANGED <<probes, verdict, fate>>     \* cancelled or re-scheduled meanwhile
         ELSE LET live == probes[job]
                  newVerdict == \/ live.confirmed /\ ~copy.confirmed
                                \/ live.failed /\ ~copy.failed
              IN IF copy.due = "done"
                   THEN /\ IF live.failed /\ ~copy.failed THEN Post("Failed") ELSE UNCHANGED verdict
                        /\ probes' = [probes EXCEPT ![job] = NoProbe]
                        /\ fate' = [fate EXCEPT ![job][copy.gen] = "done"]
                   ELSE /\ probes' = [probes EXCEPT ![job] =
                              [copy EXCEPT !.confirmed = live.confirmed, !.failed = live.failed,
                                           !.due = IF newVerdict THEN "now" ELSE copy.due]]
                        /\ UNCHANGED <<verdict, fate>>
    /\ copy' = NoProbe /\ seenSize' = 0 /\ touched' = FALSE   \* dead until the next probe
    /\ UNCHANGED <<uiVars, due, job, file, changes, told, lookVars>>

-----------------------------------------------------------------------------

Init ==
    /\ probes = [j \in Jobs |-> NoProbe]
    /\ running = TRUE /\ uiPc = "ready"
    /\ pc = "wait" /\ due = {} /\ job \in Jobs /\ copy = NoProbe /\ seenSize = 0
    /\ file \in [Jobs -> File] /\ changes = 0 /\ touched = FALSE
    /\ fate = [j \in Jobs |-> [g \in Gens |-> "unused"]]
    /\ told = [j \in Jobs |-> [g \in Gens |-> FALSE]]
    /\ verdict = [j \in Jobs |-> [g \in Gens |-> "none"]]
    /\ streak = [j \in Jobs |-> 0] /\ looked = [j \in Jobs |-> 0]

WorkerStep == \/ Wait \/ SnapshotDone \/ \E j \in Jobs : TakeProbe(j)
              \/ CheckVerdict \/ CheckExists \/ CheckOpen \/ CheckSize
              \/ CheckSidecars \/ CheckBoxes \/ CheckConfirmation \/ Merge

Next == \/ \E j \in Jobs : Schedule(j) \/ Confirm(j) \/ Fail(j) \/ Cancel(j)
        \/ Stop \/ StopJoin
        \/ \E j \in Jobs : ProbeDue(j) \/ FileChange(j)
        \/ \E j \in Jobs, field \in TimerFields : TimerOver(j, field)
        \/ WorkerStep

(* The thread runs and time passes.  Nothing is assumed of the UI or AME.   *)
Spec == /\ Init /\ [][Next]_vars
        /\ WF_vars(WorkerStep) /\ WF_vars(StopJoin)
        /\ \A j \in Jobs : WF_vars(ProbeDue(j))
        /\ \A j \in Jobs, field \in TimerFields : WF_vars(TimerOver(j, field))

-----------------------------------------------------------------------------
(* Properties *)

Probe == [gen : Gens, requireConfirmation : BOOLEAN, confirmed : BOOLEAN, failed : BOOLEAN,
          due : {"now", "later", "done"}, lastSize : 0..2, sizeChange : Timers,
          firstReady : Timers, lastSeen : Timers, start : Timers]

TypeOK ==
    /\ probes \in [Jobs -> Probe \cup {NoProbe}]
    /\ \A j \in Jobs : Exists(j) /\ probes[j].sizeChange = "off" =>
          probes[j].lastSize = 0 /\ probes[j].firstReady = "off"   \* measured in this order
    /\ running \in BOOLEAN /\ uiPc \in {"ready", "join", "stopped"}
    /\ pc \in {"wait", "exited", "next", "verdict", "exists", "open", "size", "sidecars",
               "structure", "confirmation", "merge"}
    /\ due \subseteq Jobs /\ job \in Jobs /\ copy \in Probe \cup {NoProbe} /\ seenSize \in 0..2
    /\ file \in [Jobs -> File] /\ changes \in 0..MaxChanges /\ touched \in BOOLEAN
    /\ fate \in [Jobs -> [Gens -> {"unused", "live", "replaced", "cancelled", "done"}]]
    /\ told \in [Jobs -> [Gens -> BOOLEAN]]
    /\ verdict \in [Jobs -> [Gens -> {"none", "Ready", "Failed", "ReadyThenFailed", "FailedTwice", "other"}]]
    /\ streak \in [Jobs -> 0..2] /\ looked \in [Jobs -> 0..2]

(* A probe ends with one verdict.  A second one is posted only for a fail() *)
(* that lands while the run that posted the first is still to be merged; it *)
(* is a Failed, and there is no third.                                      *)
OneVerdict ==
    \A j \in Jobs, g \in Gens :
        /\ verdict[j][g] # "other"
        /\ verdict[j][g] \in {"ReadyThenFailed", "FailedTwice"} => told[j][g]

(* A probe in the map has not ended, and the map holds the live generation: *)
(* the worker never merges an old copy into a newer probe and never drops   *)
(* one that has reported nothing.                                           *)
MapHoldsLiveProbe ==
    \A j \in Jobs, g \in Gens :
        /\ fate[j][g] = "live" /\ uiPc # "stopped" => Exists(j) /\ probes[j].gen = g
        /\ fate[j][g] = "done" => verdict[j][g] # "none"

(* Every probe is accounted for: it ends with one verdict, and a newer      *)
(* probe of the same job is never lost to the copy of the older one.        *)
ProbesAccounted == OneVerdict /\ MapHoldsLiveProbe

(* Ready is reported only when two runs in a row that came to step 3 read    *)
(* one size there ("across at least two probes (the first observation only  *)
(* records it)"), and the file has that size and is what step 2 to 5 ask    *)
(* for, unless it was changed during the very run that reports.  A run that *)
(* stops before step 3 neither counts nor breaks the row: only one that     *)
(* finds nothing at its first look does, so between the two the file may    *)
(* have been absent at the open, or been removed and written again.         *)
Muxable(f) == f.state = "final" \/ (f.state = "cut" /\ ~CheckStructure)
ReadyAfterTwoLooks ==
    [][\A j \in Jobs, g \in Gens :
          verdict[j][g] = "none" /\ verdict'[j][g] = "Ready" =>
              /\ streak[j] = 2 /\ looked[j] > 0
              /\ touched \/ (Muxable(file[j]) /\ SizeOf(file[j]) = looked[j])]_vars

(* fail(): "the worker posts Failed with the reason on its next pass".      *)
FailIsPosted ==
    \A j \in Jobs, g \in Gens :
        told[j][g] ~> \/ verdict[j][g] \in {"Failed", "ReadyThenFailed", "FailedTwice"}
                      \/ fate[j][g] \in {"replaced", "cancelled"} \/ ~running

(* Every scheduled probe reports a verdict, whatever happens to the file    *)
(* and even when no confirmation ever comes, unless it is replaced or       *)
(* cancelled or the worker is stopped.                                      *)
EveryProbeEnds ==
    \A j \in Jobs, g \in Gens : (fate[j][g] = "live") ~> (fate[j][g] # "live" \/ ~running)
=============================================================================
