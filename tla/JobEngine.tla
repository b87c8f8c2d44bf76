------------------------------ MODULE JobEngine ------------------------------
(***************************************************************************)
(* Engine (src/src/core/Engine.cpp) with its JobStore: the table of jobs   *)
(* and the handlers that run on the UI thread.  Each handler is atomic (it *)
(* never yields); what interleaves are the workers that post events, the   *)
(* user's commands, and AME writing files.                                 *)
(*                                                                         *)
(* A handler is an operator from an engine state `e` (a record of what the *)
(* handlers may change) to the set of states it can leave: several when    *)
(* ffprobe or the shell decide.  FileReadiness and MuxWorker are reduced   *)
(* here to what the engine sees of them; their own modules justify it.     *)
(*                                                                         *)
(* Abstracted: colour transfer to "unknown", "hdr", "sdr"; every plan      *)
(* error to "mkvmerge missing" or "source missing"; timestamps, phases,    *)
(* progress, notes and toasts left out.  Not here: start/stop and saving,  *)
(* in-band HDR10, batchItemStatus.                                         *)
(***************************************************************************)
EXTENDS Naturals, Sequences, FiniteSets, SequencesExt

CONSTANTS
    Keys,         \* normalised output paths
    Guess,        \* [Keys -> Keys]: the ".mp4" key a sidecar of this export suggests
    MaxJobs,      \* bound: job ids
    MaxExports,   \* bound: exports AME begins
    MaxCommands,  \* bound: user commands
    MaxTouches,   \* bound: other changes on disk, initial scans, log history
    Triggers,     \* "log", "cep", "sidecar", "folder": what posts events
    Commands,     \* user commands enabled
    Truncates,    \* TRUE: a re-export may truncate the old file and keep its file id
    Sizes,        \* file sizes told apart
    RecycleMode,  \* settings: "never", "ask", "auto"
    SdrPolicy,    \* settings: "skip", "hold", "tag_sdr"
    HoldUnknown,  \* settings: holdWhenTransferUnknown
    AutoSources,  \* sources that autoProcessAllowed lets through
    Colour        \* [Keys -> {"hdr", "sdr"}]: transfer of the exports

Ids     == 1..MaxJobs
Sources == {"log", "folder", "cep", "manual", "catchUp"}
Absent  == "absent"
NoKey   == "noKey"

ASSUME KeysAssumption == Guess \in [Keys -> Keys] /\ NoKey \notin Keys
ASSUME ColourAssumption == Colour \in [Keys -> {"hdr", "sdr"}]
ASSUME BoundsAssumption == /\ MaxJobs \in Nat /\ MaxExports \in Nat
                           /\ MaxCommands \in Nat /\ MaxTouches \in Nat
                           /\ Sizes \subseteq Nat

Waiting  == {"Discovered", "Encoding"}
InMux    == {"Muxing", "Verifying"}
Terminal == {"Done", "Failed", "SkippedSdr", "Cancelled"}
States   == {Absent, "Ready", "Held"} \cup Waiting \cup InMux \cup Terminal
Reasons  == {"", "held", "waiting", "catchUp", "sdr", "unknown", "mkvmerge", "source", "removed",
             "reported", "probe", "mux"}

VARIABLES
    jobs,       \* JobStore::jobs_
    nextId,     \* JobStore::nextId_
    tracked,    \* scratch().probes
    forced,     \* scratch().forced
    auto,       \* settings_.autoProcess
    tool,       \* mkvmerge_.ok
    probe,      \* FileReadiness: its probe of each job
    queue,      \* MuxWorker: requests waiting
    muxing,     \* MuxWorker: the job it processes, whether that is verified, and cancelled
    inbox,      \* EngineEventQueue
    file,       \* the outputs on disk
    change,     \* FolderWatcher: pendingAction per name
    known,      \* FolderWatcher: names in its snapshot
    hints,      \* the hint files on disk: whose job made them, and of which output
    ame,        \* what AME does with each output
    news,       \* log blocks and CEP messages not posted yet, per source
    exports, commands, touches,   \* counters of the bounds
    muxed       \* history: the content each job's mux read

engineVars == <<jobs, nextId, tracked, forced, auto, tool>>
workerVars == <<probe, queue, muxing>>
diskVars   == <<file, change, known, hints>>
worldVars  == <<ame, news, exports, commands, touches>>
vars == <<engineVars, workerVars, inbox, diskVars, worldVars, muxed>>

NoFile == [id |-> 0, size |-> 0, content |-> 0]
NoStamp == [id |-> 0, size |-> 0]
NoJob  == [key |-> NoKey, gen |-> 0, state |-> Absent, why |-> "", stamp |-> NoStamp,
           hold |-> FALSE, preset |-> FALSE, transfer |-> "unknown", byUser |-> FALSE,
           source |-> "manual", recycle |-> "NotRequested"]
NoProbe == [st |-> "none", key |-> NoKey]
Idle    == [job |-> 0, key |-> NoKey, verified |-> FALSE, cancel |-> FALSE]

-----------------------------------------------------------------------------
(* What a handler reads and changes *)

E == [jobs |-> jobs, nextId |-> nextId, tracked |-> tracked, forced |-> forced, auto |-> auto,
      tool |-> tool, probe |-> probe, queue |-> queue, muxing |-> muxing, inbox |-> inbox,
      file |-> file, change |-> change]

Commit(e) ==
    /\ jobs' = e.jobs /\ nextId' = e.nextId /\ tracked' = e.tracked /\ forced' = e.forced
    /\ auto' = e.auto /\ tool' = e.tool /\ probe' = e.probe /\ queue' = e.queue
    /\ muxing' = e.muxing /\ inbox' = e.inbox /\ file' = e.file /\ change' = e.change
    /\ UNCHANGED <<known, hints, ame, news, exports, muxed>>

Exists(e, k)   == e.file[k].id # 0
Stamp(e, k)    == [id |-> e.file[k].id, size |-> e.file[k].size]
SameFile(s, t) == s.id # 0 /\ s.id = t.id                 \* SourceStamp::sameFileAs
Unchanged(e, j) == LET s == e.jobs[j].stamp IN SameFile(s, Stamp(e, e.jobs[j].key))
                                               /\ s = Stamp(e, e.jobs[j].key)
BeingWritten(k) == ame[k] = "writing"

MergeAction(old, new) == IF new = "Modified" /\ old = "Added" THEN "Added" ELSE new

-----------------------------------------------------------------------------
(* JobStore *)

Outranks(e, i, j) == \/ e.jobs[i].gen > e.jobs[j].gen
                     \/ e.jobs[i].gen = e.jobs[j].gen /\ i > j
Best(e, S) == IF S = {} THEN 0 ELSE CHOOSE i \in S : \A j \in S \ {i} : Outranks(e, i, j)

OfKey(e, k)  == {i \in Ids : e.jobs[i].key = k}
Active(e)    == {i \in Ids : e.jobs[i].state \notin Terminal \cup {Absent}}
FindByKey(e, k)       == Best(e, OfKey(e, k))
FindActiveByKey(e, k) == Best(e, OfKey(e, k) \cap Active(e))
FindActiveByStem(e, k) == Best(e, {i \in Active(e) : Guess[e.jobs[i].key] = Guess[k]})

\* create(): one generation above the newest job of the key, which is terminal.
Create(e, k, source) ==
    LET previous == FindByKey(e, k)
        gen == IF previous = 0 THEN 1 ELSE e.jobs[previous].gen + 1
    IN  [e EXCEPT !.jobs[e.nextId] = [NoJob EXCEPT !.key = k, !.gen = gen, !.state = "Discovered",
                                                   !.source = source],
                  !.nextId = @ + 1]

Ensure(e, k, source) == IF FindActiveByKey(e, k) # 0 THEN e ELSE Create(e, k, source)
EnsuredId(e, k)      == IF FindActiveByKey(e, k) # 0 THEN FindActiveByKey(e, k) ELSE e.nextId

-----------------------------------------------------------------------------
(* Calls into the workers *)

Schedule(e, j) == [e EXCEPT !.probe[j] = [st |-> "live", key |-> e.jobs[j].key],
                            !.tracked = @ \cup {j}]

\* Mutant: a job that has a probe is scheduled again.
BugScheduleIfWaiting(e, j) == IF e.jobs[j].state \in Waiting THEN Schedule(e, j) ELSE e

ScheduleIfWaiting(e, j) ==
    IF e.jobs[j].state \in Waiting /\ j \notin e.tracked THEN Schedule(e, j) ELSE e

CancelProbe(e, j) ==
    IF j \in e.tracked THEN [e EXCEPT !.probe[j] = NoProbe, !.tracked = @ \ {j}] ELSE e

\* FileReadiness::fail: nothing to mark once the worker has dropped the probe.
FailProbe(e, j) ==
    [e EXCEPT !.probe[j].st = CASE @ = "live" -> "failing" [] @ = "judged" -> "judgedFailing"
                                [] OTHER -> @]

\* The request of the job that is found first.
FirstRequest(q, j) == CHOOSE i \in DOMAIN q : /\ q[i].job = j
                                              /\ \A k \in 1..(i - 1) : q[k].job # j

MuxCancel(e, j) ==
    IF e.muxing.job = j THEN [e EXCEPT !.muxing.cancel = TRUE]
    ELSE IF \E i \in DOMAIN e.queue : e.queue[i].job = j
      THEN [e EXCEPT !.queue = RemoveAt(@, FirstRequest(@, j)),
                     !.inbox = Append(@, [type |-> "mux", job |-> j, out |-> "Cancelled"])]
      ELSE e

-----------------------------------------------------------------------------
(* Transitions, policies, dispatch *)

Transition(e, j, state, why) ==
    LET moved == [e EXCEPT !.jobs[j].state = state, !.jobs[j].why = why]
    IN  IF state \in Terminal THEN [CancelProbe(moved, j) EXCEPT !.forced = @ \ {j}] ELSE moved

\* Mutant: what is not known is taken for HDR.
BugLearn(e, j) == [e EXCEPT !.jobs[j].transfer = IF @ = "unknown" THEN "hdr" ELSE @]

\* inferTransfer from the log or from ffprobe: fills in an unknown transfer.
Learn(e, j) == [e EXCEPT !.jobs[j].transfer =
                    IF @ = "unknown" THEN Colour[e.jobs[j].key] ELSE @]

\* Mutant: nothing is enqueued.
BugDispatch(e, j) == Transition(e, j, "Muxing", "")

Dispatch(e, j) ==
    IF ~e.tool THEN Transition(e, j, "Held", "mkvmerge")
    ELSE IF ~Exists(e, e.jobs[j].key) THEN Transition(e, j, "Held", "source")
    ELSE [Transition(e, j, "Muxing", "") EXCEPT !.queue = Append(@, [job |-> j, key |-> e.jobs[j].key])]

\* The policies of onReady, in their order.
Policies(e, j, isForced) ==
    LET job == e.jobs[j]
        sdr == job.transfer = "sdr" /\ ~job.preset /\ ~isForced
    IN  IF sdr /\ SdrPolicy = "skip" THEN Transition(e, j, "SkippedSdr", "sdr")
        ELSE IF sdr /\ SdrPolicy = "hold" THEN Transition(e, j, "Held", "sdr")
        ELSE IF job.transfer = "unknown" /\ HoldUnknown /\ ~job.preset
               THEN Transition(e, j, "Held", "unknown")
        ELSE IF ~isForced /\ (job.hold \/ ~e.auto \/ job.source \notin AutoSources)
               THEN Transition(e, j, "Held", "waiting")
        ELSE Dispatch(e, j)

\* ffprobe may or may not tell the transfer.
OnReady(e, j) ==
    LET ready == Transition([e EXCEPT !.forced = @ \ {j}], j, "Ready", "")
        probed == IF e.jobs[j].transfer = "unknown" /\ ~e.jobs[j].preset
                    THEN {ready, Learn(ready, j)} ELSE {ready}
    IN  {Policies(r, j, j \in e.forced) : r \in probed}

-----------------------------------------------------------------------------
(* Completion and the Recycle Bin *)

\* Mutant: the source is not compared with its stamp.
BugRecycleJob(e, j) ==
    LET job == e.jobs[j]
    IN  IF job.state # "Done" \/ job.recycle = "Recycled" \/ ~Exists(e, job.key) THEN {e}
        ELSE {[e EXCEPT !.jobs[j].recycle = "Recycled", !.file[job.key] = NoFile,
                        !.change[job.key] = "Removed"]}

\* recycleJob: both checks, then the shell move, which may refuse (and fails
\* while AME has the file open).  A status of KeptSourceChanged or Failed from
\* an earlier try is never retried.
RecycleJob(e, j) ==
    LET job == e.jobs[j]
        source == IF Unchanged(e, j) THEN job.recycle ELSE "KeptSourceChanged"
        status == IF source # "KeptSourceChanged" /\ (\A h \in hints : h.job # j) THEN "Failed" ELSE source
    IN  IF job.state # "Done" \/ job.recycle = "Recycled" THEN {e}
        ELSE IF status \in {"KeptSourceChanged", "Failed"}
               THEN {[e EXCEPT !.jobs[j].recycle = status]}
        ELSE (IF BeingWritten(job.key) THEN {}
              ELSE {[e EXCEPT !.jobs[j].recycle = "Recycled", !.file[job.key] = NoFile,
                              !.change[job.key] = "Removed"]})
             \cup {[e EXCEPT !.jobs[j].recycle = kept] : kept \in {"KeptNoBin", "Failed"}}

FinishDone(e, j) ==
    LET done == Transition(e, j, "Done", "")
    IN  CASE RecycleMode = "never" -> {[done EXCEPT !.jobs[j].recycle = "KeptDisabled"]}
          [] RecycleMode = "auto"  -> RecycleJob([done EXCEPT !.jobs[j].recycle = "Pending"], j)
          [] OTHER                 -> {[done EXCEPT !.jobs[j].recycle = "Pending"]}

-----------------------------------------------------------------------------
(* apply(LogItemEvent) and the CEP messages *)

LogSuccess(e, k) ==
    LET done == FindByKey(e, k)
        j == EnsuredId(e, k)
    IN  IF FindActiveByKey(e, k) = 0 /\ done # 0 /\ SameFile(e.jobs[done].stamp, Stamp(e, k))
          THEN {e}
          ELSE {ScheduleIfWaiting(Learn(Ensure(e, k, "log"), j), j)}

\* A failure the log or CEP reports for an active job.
ReportFailure(e, j) ==
    IF e.jobs[j].state \in InMux THEN e
    ELSE IF j \in e.tracked THEN FailProbe(e, j)
    ELSE Transition(e, j, "Failed", "reported")

LogFailed(e, k) ==
    LET j == FindActiveByKey(e, k) IN IF j = 0 THEN {e} ELSE {ReportFailure(e, j)}

\* catchUp(): a block from the log history; `newer` compares its time with the
\* last update of the key's newest job.
CatchUp(e, k, newer) ==
    LET before == FindByKey(e, k)
        nothingNew == before # 0 /\ \/ before \in Active(e) \/ ~newer
                                    \/ SameFile(e.jobs[before].stamp, Stamp(e, k))
    IN  IF \/ ~Exists(e, k) \/ nothingNew
           \/ \E h \in hints : h.key = k
          THEN {e}
          ELSE LET j == e.nextId IN {Transition(Learn(Create(e, k, "catchUp"), j), j, "Held", "catchUp")}

OnLog(e, ev) ==
    CASE ev.what = "ok"     -> LogSuccess(e, ev.key)
      [] ev.what = "failed" -> LogFailed(e, ev.key)
      [] OTHER              -> CatchUp(e, ev.key, ev.what = "newer")

\* encodingStarted: no probe yet, the file does not exist.
CepStarted(e, k) ==
    LET j == EnsuredId(e, k)
        made == Ensure(e, k, "cep")
    IN  IF made.jobs[j].state = "Discovered" THEN {Transition(made, j, "Encoding", "")} ELSE {made}

CepComplete(e, k, ok) ==
    LET j == EnsuredId(e, k)
        made == Ensure(e, k, "cep")
    IN  IF ok THEN {ScheduleIfWaiting(made, j)} ELSE {ReportFailure(made, j)}

OnCep(e, ev) == IF ev.what = "started" THEN CepStarted(e, ev.key)
                                       ELSE CepComplete(e, ev.key, ev.what = "ok")

-----------------------------------------------------------------------------
(* apply(SidecarEvent) and apply(OutputEvent) *)

OnSidecar(e, ev) ==
    LET found == FindActiveByStem(e, ev.key)
        made == IF found = 0 THEN Ensure(e, Guess[ev.key], "folder") ELSE e
        j == IF found = 0 THEN EnsuredId(e, Guess[ev.key]) ELSE found
    IN  IF made.jobs[j].state = "Discovered" THEN {Transition(made, j, "Encoding", "")} ELSE {made}

OutputRemoved(e, k) ==
    LET j == FindActiveByKey(e, k)
    IN  IF j = 0 THEN {e}
        ELSE CASE e.jobs[j].state \in Waiting /\ j \notin e.tracked
                    -> {Transition(e, j, "Failed", "removed")}
               [] e.jobs[j].state \in {"Ready", "Held"}
                    -> {Transition(CancelProbe(e, j), j, "Failed", "source")}
               [] OTHER -> {e}

\* A job that guessed the wrong extension takes the real key; its generation
\* stays what it was.
Upgrade(e, k) ==
    LET j == FindActiveByStem(e, k)
    IN  IF /\ FindActiveByKey(e, k) = 0
           /\ j # 0
           /\ e.jobs[j].state = "Encoding"
           /\ ~Exists(e, e.jobs[j].key)
          THEN [e EXCEPT !.jobs[j].key = k]
          ELSE e

\* Mutant: a bare "modified" of a finished export makes a new generation.
BugOldNews(e, k, action, scan) ==
    \/ scan /\ \E h \in hints : h.key = k

\* No job is active for the key: is the event about what is already finished?
OldNews(e, k, action, scan) ==
    LET newest == FindByKey(e, k)
    IN  \/ newest # 0 /\ Unchanged(e, newest)
        \/ newest # 0 /\ action = "Modified" /\ ~scan
        \/ scan /\ \E h \in hints : h.key = k

OutputSeen(e, k, action, scan) ==
    LET up == Upgrade(e, k)
        new == FindActiveByKey(up, k) = 0
        j == EnsuredId(up, k)
        made == Ensure(up, k, "folder")
    IN  IF new /\ OldNews(up, k, action, scan) THEN {up}
        ELSE IF new /\ scan /\ Exists(up, k) /\ ~BeingWritten(k)
          THEN {Transition(made, j, "Held", "catchUp")}
          ELSE {ScheduleIfWaiting(made, j)}

OnOutput(e, ev) == IF ev.action = "Removed" THEN OutputRemoved(e, ev.key)
                                            ELSE OutputSeen(e, ev.key, ev.action, ev.scan)

-----------------------------------------------------------------------------
(* apply(ProbeEvent) and apply(MuxEvent) *)

Untrack(e, j) == [e EXCEPT !.tracked = @ \ {j}]

OnProbe(e, ev) ==
    LET j == ev.job
        state == e.jobs[j].state
    IN  CASE state = Absent -> {Untrack(e, j)}
          [] state # Absent /\ ev.out = "Writing" ->
               {IF state = "Discovered" THEN Transition(e, j, "Encoding", "") ELSE e}
          [] state # Absent /\ ev.out = "Failed" ->
               {IF state \in Terminal \cup InMux THEN Untrack(e, j)
                  ELSE Transition(Untrack(e, j), j, "Failed", "probe")}
          [] OTHER ->
               IF state \in InMux \cup {"Done"} THEN {Untrack(e, j)}
                 ELSE OnReady([Untrack(e, j) EXCEPT !.jobs[j].stamp = ev.stamp], j)

\* The worker's ffprobe is authoritative: it corrects the transfer.
Correct(e, j) == [e EXCEPT !.jobs[j].transfer = Colour[e.jobs[j].key], !.jobs[j].byUser = FALSE]

MuxOutcome(e, j, out) ==
    CASE e.jobs[j].state \notin InMux -> {e}
      [] e.jobs[j].state \in InMux /\ out = "Verifying" -> {Transition(e, j, "Verifying", "")}
      [] e.jobs[j].state \in InMux /\ out = "Done"      -> FinishDone(e, j)
      [] OTHER                                          -> {Transition(e, j, out, "mux")}

OnMux(e, ev) ==
    LET learned == IF e.jobs[ev.job].state = Absent THEN {e} ELSE {e, Correct(e, ev.job)}
    IN  UNION {MuxOutcome(l, ev.job, ev.out) : l \in learned}

Handle(e, ev) ==
    CASE ev.type = "log" -> OnLog(e, ev)         [] ev.type = "cep" -> OnCep(e, ev)
      [] ev.type = "sidecar" -> OnSidecar(e, ev) [] ev.type = "output" -> OnOutput(e, ev)
      [] ev.type = "probe" -> OnProbe(e, ev)     [] OTHER -> OnMux(e, ev)

\* onEventMessage applies the events in order.
Apply ==
    /\ inbox # <<>>
    /\ \E e \in Handle([E EXCEPT !.inbox = Tail(@)], Head(inbox)) : Commit(e)
    /\ UNCHANGED <<commands, touches>>

-----------------------------------------------------------------------------
(* User commands *)

CheckSource(e, j) ==
    IF ~Exists(e, e.jobs[j].key) THEN "Missing"
    ELSE IF Unchanged(e, j) /\ ~BeingWritten(e.jobs[j].key) THEN "StillReady" ELSE "NeedsProbe"

Reprobe(e, j) ==
    {Schedule(Transition([e EXCEPT !.jobs[j].stamp = NoStamp], j, "Discovered", ""), j)}

\* The rest of runJob and resumeJob, once the job's source has been checked.
Restart(e, j) == CASE CheckSource(e, j) = "Missing"    -> {Transition(e, j, "Failed", "source")}
                   [] CheckSource(e, j) = "StillReady" -> OnReady(e, j)
                   [] OTHER                            -> Reprobe(e, j)

ForceRun(e, j) == [e EXCEPT !.forced = @ \cup {j}]

RunJob(e, j) ==
    LET free == [e EXCEPT !.jobs[j].hold = FALSE]
    IN  CASE e.jobs[j].state \in InMux   -> {e}
          [] e.jobs[j].state \in Waiting -> {ForceRun(free, j)}
          [] OTHER -> Restart(IF CheckSource(e, j) = "Missing" THEN free
                              ELSE ForceRun(free, j), j)

\* Mutant: a forced run survives a later hold.
BugHoldJob(e, j) ==
    CASE e.jobs[j].state \in {"Ready", "Held"} ->
           {Transition([e EXCEPT !.jobs[j].hold = TRUE], j, "Held", "held")}
      [] e.jobs[j].state \in Waiting -> {[e EXCEPT !.jobs[j].hold = TRUE]}
      [] OTHER -> {e}

HoldJob(e, j) ==
    LET held == [e EXCEPT !.jobs[j].hold = TRUE, !.forced = @ \ {j}]
    IN  CASE e.jobs[j].state \in {"Ready", "Held"} -> {Transition(held, j, "Held", "held")}
          [] e.jobs[j].state \in Waiting -> {held}
          [] OTHER -> {e}

ResumeJob(e, j) ==
    LET free == [e EXCEPT !.jobs[j].hold = FALSE]
    IN  IF e.jobs[j].state = "Held" THEN Restart(free, j) ELSE {free}

RemoveJob(e, j) == {[MuxCancel(CancelProbe(e, j), j) EXCEPT !.forced = @ \ {j}, !.jobs[j] = NoJob]}

\* A job given a preset of this kind, which fills in a transfer not known yet.
WithPreset(job, kind) ==
    LET fills == job.transfer = "unknown"
    IN [job EXCEPT !.preset = TRUE,
                   !.transfer = IF fills THEN kind ELSE @,
                   !.byUser = @ \/ (fills /\ kind # "unknown")]

\* What the choosers set: a LUT, no preset, or a preset.
Selections(e, j) ==
    {e, [e EXCEPT !.jobs[j].preset = FALSE]}
    \cup {[e EXCEPT !.jobs[j] = WithPreset(e.jobs[j], kind)] : kind \in {"unknown", "hdr", "sdr"}}

\* setJobOverrides: the choosers leave hold as it was.
SetJobOverrides(e, j) ==
    CASE e.jobs[j].state # "Held" -> Selections(e, j)
      [] e.jobs[j].state = "Held" /\ e.jobs[j].hold ->
           {Transition(c, j, "Held", "held") : c \in Selections(e, j)}
      [] OTHER -> UNION {ResumeJob(c, j) : c \in Selections(e, j)}

JobCommand(name, e, j) ==
    CASE name = "run" -> RunJob(e, j)       [] name = "hold" -> HoldJob(e, j)
      [] name = "resume" -> ResumeJob(e, j) [] name = "remove" -> RemoveJob(e, j)
      [] name = "preset" -> SetJobOverrides(e, j) [] OTHER -> RecycleJob(e, j)

Commanded == commands < MaxCommands /\ commands' = commands + 1 /\ UNCHANGED touches

OnJob(name, j) ==
    /\ name \in Commands
    /\ jobs[j].state # Absent
    /\ \E e \in JobCommand(name, E, j) : Commit(e)
    /\ Commanded

\* An event in the inbox may create a job.
Room == nextId + Cardinality({i \in DOMAIN inbox : inbox[i].type \notin {"probe", "mux"}}) <= MaxJobs

AddManualFile(k) ==
    /\ "add" \in Commands
    /\ Exists(E, k) /\ Room
    /\ Commit(IF FindActiveByKey(E, k) # 0 THEN E
                ELSE Schedule(Create(E, k, "manual"), nextId))
    /\ Commanded

\* resumeJob for each of the jobs, the newest first.  It reads and changes its own
\* job alone, so each has its outcome o[j] whatever the others do; only the
\* requests of those it dispatches keep the order.
NewestFirst(S) == {s \in [1..Cardinality(S) -> S] : \A i, k \in DOMAIN s : i < k => s[i] > s[k]}

Resumed(e, o, order) ==
    [e EXCEPT !.jobs = [j \in Ids |-> IF j \in DOMAIN o THEN o[j].jobs[j] ELSE @[j]],
              !.probe = [j \in Ids |-> IF j \in DOMAIN o THEN o[j].probe[j] ELSE @[j]],
              !.tracked = {j \in Ids : j \in IF j \in DOMAIN o THEN o[j].tracked ELSE @},
              !.forced = {j \in Ids : j \in IF j \in DOMAIN o THEN o[j].forced ELSE @},
              !.queue = @ \o [i \in DOMAIN order |->
                                 [job |-> order[i], key |-> e.jobs[order[i]].key]]]

Outcomes(e, waiting) == {o \in [waiting -> UNION {ResumeJob(e, j) : j \in waiting}] :
                            \A j \in waiting : o[j] \in ResumeJob(e, j)}

ReleaseAll(e, waiting) ==
    UNION {{Resumed(e, o, order) :
              order \in NewestFirst({j \in waiting : o[j].jobs[j].state = "Muxing"})}
             : o \in Outcomes(e, waiting)}

HeldFor(why) == {j \in Ids : jobs[j].state = "Held" /\ jobs[j].why = why /\ ~jobs[j].hold}

SetAutoProcess ==
    /\ "auto" \in Commands
    /\ \E e \in IF auto THEN {[E EXCEPT !.auto = FALSE]}
                ELSE ReleaseAll([E EXCEPT !.auto = TRUE], HeldFor("waiting")) : Commit(e)
    /\ Commanded

\* reprobeMkvmerge finds mkvmerge installed or gone.
ReprobeMkvmerge ==
    /\ "tool" \in Commands
    /\ \E e \in IF tool THEN {[E EXCEPT !.tool = FALSE]}
                ELSE ReleaseAll([E EXCEPT !.tool = TRUE], HeldFor("mkvmerge")) : Commit(e)
    /\ Commanded

UserStep == \/ \E name \in Commands, j \in Ids : OnJob(name, j)
            \/ \E k \in Keys : AddManualFile(k)
            \/ SetAutoProcess \/ ReprobeMkvmerge

-----------------------------------------------------------------------------
(* FileReadiness, as the engine sees it *)

Post(ev) == inbox' = Append(inbox, ev)

ProbeFrame == UNCHANGED <<engineVars, queue, muxing, diskVars, worldVars, muxed>>

\* Somebody writes the file, or it is not there yet (posted once while unread).
ProbeWriting(j) ==
    /\ probe[j].st = "live"
    /\ BeingWritten(probe[j].key) \/ ~Exists(E, probe[j].key)
    /\ \A i \in DOMAIN inbox : inbox[i].type = "probe" => inbox[i].job # j
    /\ Post([type |-> "probe", job |-> j, out |-> "Writing"])
    /\ UNCHANGED probe /\ ProbeFrame

\* The run ends with a verdict.  Ready needs a file nobody writes; Failed
\* stands for every other end: reported, missing, timed out.  A fail() that
\* came during the run stays to be merged.
ProbeVerdict(j) ==
    /\ probe[j].st \in {"live", "failing"}
    /\ \/ /\ Exists(E, probe[j].key) /\ ~BeingWritten(probe[j].key)
          /\ Post([type |-> "probe", job |-> j, out |-> "Ready",
                   stamp |-> Stamp(E, probe[j].key)])
       \/ Post([type |-> "probe", job |-> j, out |-> "Failed"])
    /\ \E st \in IF probe[j].st = "live" THEN {"judged"} ELSE {"judged", "judgedFailing"} :
          probe' = [probe EXCEPT ![j].st = st]
    /\ ProbeFrame

ProbeMerge(j) ==
    /\ probe[j].st \in {"judged", "judgedFailing"}
    /\ IF probe[j].st = "judged" THEN UNCHANGED inbox
                                 ELSE Post([type |-> "probe", job |-> j, out |-> "Failed"])
    /\ probe' = [probe EXCEPT ![j] = NoProbe]
    /\ ProbeFrame

-----------------------------------------------------------------------------
(* MuxWorker, as the engine sees it *)

MuxFrame == UNCHANGED <<engineVars, probe, file, change, known, worldVars>>

MuxTake ==
    /\ muxing.job = 0 /\ queue # <<>>
    /\ muxing' = [Idle EXCEPT !.job = Head(queue).job, !.key = Head(queue).key]
    /\ queue' = Tail(queue)
    /\ UNCHANGED <<inbox, hints, muxed>> /\ MuxFrame

\* mkvmerge has read the whole input; the output is being verified.
MuxVerify ==
    /\ muxing.job # 0 /\ ~muxing.verified
    /\ Exists(E, muxing.key) /\ ~BeingWritten(muxing.key)
    /\ muxed' = [muxed EXCEPT ![muxing.job] = file[muxing.key].content]
    /\ muxing' = [muxing EXCEPT !.verified = TRUE]
    /\ Post([type |-> "mux", job |-> muxing.job, out |-> "Verifying"])
    /\ UNCHANGED <<queue, hints>> /\ MuxFrame

MuxEnd ==
    /\ muxing.job # 0
    /\ \E out \in {"Done", "Failed", "Cancelled"} :
          /\ out = "Done" => muxing.verified
          /\ out = "Cancelled" => muxing.cancel
          /\ hints' = IF out = "Done" THEN hints \cup {[job |-> muxing.job, key |-> muxing.key]} ELSE hints
          /\ muxed' = IF out = "Done" THEN muxed ELSE [muxed EXCEPT ![muxing.job] = 0]
          /\ Post([type |-> "mux", job |-> muxing.job, out |-> out])
    /\ muxing' = Idle
    /\ UNCHANGED queue /\ MuxFrame

MuxStep == MuxTake \/ MuxVerify \/ MuxEnd

-----------------------------------------------------------------------------
(* AME, the watched folder, the log, the panel, other programs *)

WorldFrame == UNCHANGED <<engineVars, workerVars, muxed>>

Tell(k, logText, cepText) ==
    news' = [s \in {"log", "cep"} |->
               LET text == IF s = "log" THEN logText ELSE cepText
               IN  IF s \in Triggers /\ text # "" THEN Append(news[s], <<k, text>>) ELSE news[s]]

Notice(k, action) == change' = [change EXCEPT ![k] = MergeAction(@, action)]

\* The encode starts: sidecar files, the container does not change yet.
AmeBegin(k) ==
    /\ ame[k] = "idle" /\ exports < MaxExports
    /\ ame' = [ame EXCEPT ![k] = "sidecars"]
    /\ exports' = exports + 1
    /\ Tell(k, "", "started")
    /\ UNCHANGED <<inbox, diskVars, commands, touches>> /\ WorldFrame

\* The container is assembled, as a new file or over the old one.
AmeWrite(k) ==
    /\ ame[k] = "sidecars"
    /\ ame' = [ame EXCEPT ![k] = "writing"]
    /\ \E size \in Sizes, over \in IF Truncates /\ Exists(E, k) THEN BOOLEAN ELSE {FALSE} :
          /\ file' = [file EXCEPT ![k] = [id |-> IF over THEN @.id ELSE exports, size |-> size,
                                          content |-> exports]]
          /\ Notice(k, IF over THEN "Modified" ELSE "Added")
    /\ UNCHANGED <<inbox, known, hints, news, exports, commands, touches>> /\ WorldFrame

AmeEnd(k) ==
    /\ ame[k] = "writing"
    /\ ame' = [ame EXCEPT ![k] = "idle"]
    /\ Notice(k, "Modified")
    /\ Tell(k, "ok", "ok")
    /\ UNCHANGED <<inbox, file, known, hints, exports, commands, touches>> /\ WorldFrame

\* The encode fails; what it had written may be deleted.
AmeFails(k) ==
    /\ ame[k] \in {"sidecars", "writing"}
    /\ ame' = [ame EXCEPT ![k] = "idle"]
    /\ \/ UNCHANGED <<file, change>>
       \/ /\ ame[k] = "writing"
          /\ file' = [file EXCEPT ![k] = NoFile]
          /\ Notice(k, "Removed")
    /\ Tell(k, "failed", "failed")
    /\ UNCHANGED <<inbox, known, hints, exports, commands, touches>> /\ WorldFrame

\* The tailer or the pipe delivers the next message.
PostNews(source) ==
    /\ news[source] # <<>> /\ Room
    /\ Post([type |-> source, key |-> Head(news[source])[1], what |-> Head(news[source])[2]])
    /\ news' = [news EXCEPT ![source] = Tail(@)]
    /\ UNCHANGED <<diskVars, ame, exports, commands, touches>> /\ WorldFrame

\* A sidecar was created or grew.
PostSidecar(k) ==
    /\ "sidecar" \in Triggers /\ ame[k] # "idle" /\ Room
    /\ \A i \in DOMAIN inbox : inbox[i].type # "sidecar"
    /\ Post([type |-> "sidecar", key |-> k])
    /\ UNCHANGED <<diskVars, worldVars>> /\ WorldFrame

\* classify(): the debounced change of one name.
FlushChange(k) ==
    LET gone == change[k] = "Removed" \/ ~Exists(E, k)
        action == IF gone THEN "Removed"
                  ELSE IF change[k] = "Added" \/ k \notin known THEN "Added" ELSE "Modified"
    IN  /\ "folder" \in Triggers /\ change[k] # "none" /\ Room
        /\ change' = [change EXCEPT ![k] = "none"]
        /\ known' = IF gone THEN known \ {k} ELSE known \cup {k}
        /\ IF gone /\ change[k] # "Removed" /\ k \notin known
             THEN UNCHANGED inbox
             ELSE Post([type |-> "output", key |-> k, action |-> action, scan |-> FALSE])
        /\ UNCHANGED <<file, hints, worldVars>> /\ WorldFrame

\* Other programs touch or delete files; folders are scanned, history is read.
Touch(k) ==
    /\ touches < MaxTouches /\ touches' = touches + 1
    /\ Exists(E, k) /\ ~BeingWritten(k)
    /\ \/ Notice(k, "Modified") /\ UNCHANGED <<file, inbox, known, hints>>
       \/ /\ Notice(k, "Removed") /\ file' = [file EXCEPT ![k] = NoFile]
          /\ UNCHANGED <<inbox, known, hints>>
       \/ /\ \E h \in hints : h.key = k /\ hints' = hints \ {h}
          /\ UNCHANGED <<change, file, inbox, known>>
       \/ /\ "folder" \in Triggers /\ Room
          /\ Post([type |-> "output", key |-> k, action |-> "Added", scan |-> TRUE])
          /\ known' = known \cup {k}
          /\ UNCHANGED <<change, file, hints>>
       \/ /\ "log" \in Triggers /\ Room
          /\ \E what \in {"newer", "older"} : Post([type |-> "log", key |-> k, what |-> what])
          /\ UNCHANGED <<change, file, known, hints>>
    /\ UNCHANGED <<ame, news, exports, commands>> /\ WorldFrame

WorldStep == \/ \E k \in Keys : \/ AmeBegin(k) \/ AmeWrite(k) \/ AmeEnd(k) \/ AmeFails(k)
                                \/ PostSidecar(k) \/ FlushChange(k) \/ Touch(k)
             \/ PostNews("log") \/ PostNews("cep")

-----------------------------------------------------------------------------

Init ==
    /\ jobs = [j \in Ids |-> NoJob] /\ nextId = 1 /\ tracked = {} /\ forced = {}
    /\ auto = TRUE /\ tool = TRUE
    /\ probe = [j \in Ids |-> NoProbe] /\ queue = <<>> /\ muxing = Idle /\ inbox = <<>>
    /\ file = [k \in Keys |-> NoFile] /\ change = [k \in Keys |-> "none"]
    /\ known = {} /\ hints = {}
    /\ ame = [k \in Keys |-> "idle"] /\ news = [s \in {"log", "cep"} |-> <<>>]
    /\ exports = 0 /\ commands = 0 /\ touches = 0
    /\ muxed = [j \in Ids |-> 0]

ProbeStep(j) == ProbeVerdict(j) \/ ProbeMerge(j)

Next == \/ Apply \/ UserStep \/ MuxStep \/ WorldStep
        \/ \E j \in Ids : ProbeStep(j) \/ ProbeWriting(j)

(* The UI thread drains its queue and both workers run; every probe ends   *)
(* because FileReadiness gives up in the end (its EveryProbeEnds).         *)
(* Nothing is assumed of AME, the user, the log or the watcher.            *)
Spec == /\ Init /\ [][Next]_vars
        /\ WF_vars(Apply) /\ WF_vars(MuxStep)
        /\ \A j \in Ids : WF_vars(ProbeStep(j))

-----------------------------------------------------------------------------
(* Properties *)

JobRecord == [key : Keys \cup {NoKey}, gen : Nat, state : States, why : Reasons,
              stamp : [id : 0..MaxExports, size : Sizes \cup {0}], hold : BOOLEAN,
              preset : BOOLEAN, transfer : {"unknown", "hdr", "sdr"}, byUser : BOOLEAN,
              source : Sources,
              recycle : {"NotRequested", "Pending", "Recycled", "KeptSourceChanged", "KeptNoBin",
                         "KeptDisabled", "Failed"}]

TypeOK ==
    /\ jobs \in [Ids -> JobRecord]
    /\ \A j \in Ids : jobs[j].state = Absent <=> jobs[j].key = NoKey
    /\ nextId \in 1..(MaxJobs + 1) /\ tracked \subseteq Ids /\ forced \subseteq Ids
    /\ auto \in BOOLEAN /\ tool \in BOOLEAN
    /\ probe \in [Ids -> [st : {"none", "live", "failing", "judged", "judgedFailing"},
                          key : Keys \cup {NoKey}]]
    /\ queue \in Seq([job : Ids, key : Keys])
    /\ muxing \in [job : Ids \cup {0}, key : Keys \cup {NoKey}, verified : BOOLEAN, cancel : BOOLEAN]
    /\ \A i \in DOMAIN inbox :
          inbox[i].type \in {"log", "cep", "sidecar", "output", "probe", "mux"}
    /\ file \in [Keys -> [id : 0..MaxExports, size : Sizes \cup {0}, content : 0..MaxExports]]
    /\ change \in [Keys -> {"none", "Added", "Modified", "Removed"}]
    /\ known \subseteq Keys /\ hints \subseteq [job : Ids, key : Keys]
    /\ ame \in [Keys -> {"idle", "sidecars", "writing"}]
    /\ exports \in 0..MaxExports /\ commands \in 0..MaxCommands /\ touches \in 0..MaxTouches
    /\ muxed \in [Ids -> 0..MaxExports]

MuxEnds(j) == {i \in DOMAIN inbox : /\ inbox[i].type = "mux" /\ inbox[i].job = j
                                    /\ inbox[i].out # "Verifying"}
Requests(j) == {i \in DOMAIN queue : queue[i].job = j}

(* A job is Muxing or Verifying exactly while one request of it waits,     *)
(* runs or has its Finished event on the way: no job is stuck in the mux   *)
(* and no request runs for a job that is not.  The mux of a removed job is *)
(* being cancelled.                                                        *)
MuxAccounted ==
    \A j \in Ids :
        LET pending == Cardinality(Requests(j)) + Cardinality(MuxEnds(j))
                         + (IF muxing.job = j THEN 1 ELSE 0)
        IN  CASE jobs[j].state \in InMux -> pending = 1
              [] jobs[j].state = Absent -> /\ Requests(j) = {}
                                           /\ muxing.job = j => muxing.cancel
              [] OTHER -> pending = 0

Verdicts(j) == {i \in DOMAIN inbox : /\ inbox[i].type = "probe" /\ inbox[i].job = j
                                     /\ inbox[i].out # "Writing"}

(* The engine's book-keeping of probes is right: a tracked job still waits *)
(* for its file and its verdict is coming, and no live probe of a job goes *)
(* untracked (it would be scheduled twice and its timers reset).           *)
TrackedProbesLive ==
    \A j \in Ids :
        /\ j \in tracked => /\ jobs[j].state \in Waiting
                            /\ probe[j].st \in {"live", "failing"} \/ Verdicts(j) # {}
        /\ jobs[j].state # Absent /\ probe[j].st \in {"live", "failing"} => j \in tracked

(* A finished job is left alone by every event: only the user's command    *)
(* takes it out of a terminal state.                                       *)
TerminalIsFinal ==
    [][\A j \in Ids : jobs[j].state \in Terminal /\ jobs'[j].state # jobs[j].state
          => commands' # commands]_vars

(* "the store dedupes every trigger onto one normalised output path": one  *)
(* job per path is active.                                                 *)
OneActivePerKey == \A k \in Keys : Cardinality(OfKey(E, k) \cap Active(E)) <= 1

(* Only the content that was muxed goes to the Recycle Bin.                *)
RecycledWasMuxed ==
    [][\A j \in Ids : jobs'[j].recycle = "Recycled" /\ jobs[j].recycle # "Recycled"
          => file[jobs[j].key].content = muxed[j]]_vars

(* A job on hold is never dispatched, in whatever order run, hold, preset  *)
(* changes, verdicts and settings arrive.                                  *)
HeldIsNotDispatched ==
    [][\A j \in Ids : jobs'[j].state = "Muxing" /\ jobs[j].state \notin InMux
          => ~jobs'[j].hold]_vars

(* No content is muxed by two jobs.                                        *)
MuxedOnce ==
    \A i, j \in Ids : i # j /\ muxed[i] # 0 /\ jobs[i].key = jobs[j].key => muxed[i] # muxed[j]

(* The same for one export: no stamp of a file is muxed by two jobs.       *)
StampMuxedOnce ==
    \A i, j \in Ids : i # j /\ jobs[i].key = jobs[j].key /\ muxed[i] # 0 /\ muxed[j] # 0
        => jobs[i].stamp # jobs[j].stamp

(* "The store dedupes every trigger": an export has one active job, with   *)
(* one probe, and a job that has ended stays ended whatever is reported of *)
(* it.                                                                     *)
OneJobPerExport == [](OneActivePerKey /\ TrackedProbesLive) /\ TerminalIsFinal

(* An export is muxed by one job, and what goes to the Recycle Bin after   *)
(* it is what that job muxed.                                              *)
OncePerExport == []StampMuxedOnce /\ RecycledWasMuxed

(* An SDR export gets HDR metadata only when the user chose a preset for   *)
(* it or told its transfer with one (or forced it with Run: checked        *)
(* without that command).                                                  *)
SdrNeedsPreset ==
    [][\A j \in Ids : jobs'[j].state = "Muxing" /\ jobs[j].state \notin InMux
          => jobs'[j].preset \/ jobs'[j].byUser \/ Colour[jobs'[j].key] = "hdr"]_vars

(* Every probe and every mux comes to an end.                              *)
ProbesSettle == \A j \in Ids : (j \in tracked) ~> (j \notin tracked)
MuxesSettle  == \A j \in Ids : (jobs[j].state \in InMux) ~> (jobs[j].state \notin InMux)
WorkSettles  == ProbesSettle /\ MuxesSettle
=============================================================================
