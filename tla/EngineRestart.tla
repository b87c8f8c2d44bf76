--------------------------- MODULE EngineRestart ---------------------------
(***************************************************************************)
(* What survives the end of the program: Engine::start, Engine::stop, the  *)
(* debounced save of jobs.json (core/Engine.cpp, core/JobStore.cpp), and a *)
(* crash at any moment.  A job goes from waiting for its file to muxed and *)
(* done; its probes, its request and the events about it are volatile, the *)
(* saved table, the output and the Recycle Bin are not.                    *)
(***************************************************************************)
EXTENDS Integers, Sequences, FiniteSets, SequencesExt

CONSTANTS Ids,          \* jobs
          MaxStarts,    \* bound: times the program is started
          Recycle       \* recycleMode is "auto": the export goes when its job is done

ASSUME RestartAssumption == MaxStarts \in Nat /\ Recycle \in BOOLEAN /\ 0 \notin Ids

Waiting == {"Discovered", "Encoding", "Ready"}
InMux == {"Muxing", "Verifying"}

VARIABLES phase,     \* "down", "up", then how far stop() has come
          table,     \* JobStore: the state of each job
          dirty,     \* JobStore::dirty_
          saved,     \* jobs.json
          probe,     \* FileReadiness: whose file it follows
          queue,     \* MuxWorker: requests
          mux,       \* MuxWorker: [job, stage, cancel]
          inbox,     \* events not applied yet: [job, what]
          exported,  \* the files AME wrote that are still there
          outputs,   \* how often the output of a job was put in place
          starts,
          crashed    \* history: the program ended without stop()

volatile == <<table, dirty, probe, queue, mux, inbox>>
disk == <<saved, exported, outputs>>
history == <<starts, crashed>>
sessionVars == <<phase, volatile, disk, history>>

Nobody == [job |-> 0, stage |-> "idle", cancel |-> FALSE]
Idle == mux.job = 0
Queued(j) == \E i \in DOMAIN queue : queue[i] = j
Coming(j, whats) == \E i \in DOMAIN inbox : inbox[i].job = j /\ inbox[i].what \in whats
Posts(j, what) == inbox' = Append(inbox, [job |-> j, what |-> what])

SessionInit ==
    /\ phase = "down"
    /\ table = [j \in Ids |-> "none"] /\ saved = table /\ dirty = FALSE
    /\ probe = {} /\ queue = <<>> /\ mux = Nobody /\ inbox = <<>>
    /\ exported = {} /\ outputs = [j \in Ids |-> 0]
    /\ starts = 0 /\ crashed = FALSE

-----------------------------------------------------------------------------
(* Start: load() fails what was in the mux; what waits is probed again.    *)

BugLoadedState(state) == state
LoadedState(state) == IF state \in InMux THEN "Failed" ELSE state
Rearmed(t) == {j \in Ids : t[j] \in Waiting}

Start ==
    /\ phase = "down" /\ starts < MaxStarts
    /\ starts' = starts + 1
    /\ phase' = "up"
    /\ table' = [j \in Ids |-> LoadedState(saved[j])]
    /\ dirty' = (\E j \in Ids : saved[j] \in InMux)
    /\ probe' = Rearmed(table')
    /\ queue' = <<>> /\ mux' = Nobody /\ inbox' = <<>>
    /\ UNCHANGED <<disk, crashed>>

(* The UI thread while the program runs. *)

\* AME's export is seen for the first time.
Discover(j) ==
    /\ phase = "up" /\ table[j] = "none"
    /\ table' = [table EXCEPT ![j] = "Discovered"]
    /\ exported' = exported \union {j}
    /\ probe' = probe \union {j}
    /\ dirty' = TRUE
    /\ UNCHANGED <<phase, queue, mux, inbox, saved, outputs, history>>

\* onReady() and dispatch(): a request for the mux worker, or a hold.
OnReady(j) ==
    IF table[j] \in InMux \union {"Done"}
    THEN UNCHANGED <<table, queue>>
    ELSE /\ table' = [table EXCEPT ![j] = IF j \in exported THEN "Muxing" ELSE "Held"]
         /\ queue' = IF j \in exported THEN Append(queue, j) ELSE queue

OnMux(j, what) ==
    /\ table' = IF table[j] \in InMux THEN [table EXCEPT ![j] = what] ELSE table
    /\ UNCHANGED queue

\* A done job's export is recycled in the same handler.
Apply ==
    /\ phase \in {"up", "stopped"} /\ inbox # <<>>
    /\ LET ev == Head(inbox)
           recycles == ev.what = "Done" /\ table[ev.job] \in InMux /\ Recycle
       IN  /\ \/ ev.what = "Ready" /\ OnReady(ev.job)
              \/ ev.what # "Ready" /\ OnMux(ev.job, ev.what)
           /\ exported' = IF recycles THEN exported \ {ev.job} ELSE exported
    /\ inbox' = Tail(inbox)
    /\ dirty' = (dirty \/ table' # table)
    /\ UNCHANGED <<phase, probe, mux, saved, outputs, history>>

\* tick(): the debounced save.
TickSave ==
    /\ phase = "up" /\ dirty
    /\ saved' = table /\ dirty' = FALSE
    /\ UNCHANGED <<phase, table, probe, queue, mux, inbox, exported, outputs, history>>

(* stop(): cancel, join the prober, join the mux, apply the rest, save. *)

StopCancels ==
    /\ phase = "up"
    /\ phase' = "joinReadiness"
    /\ IF Idle
       THEN UNCHANGED <<mux, table>>
       ELSE /\ mux' = [mux EXCEPT !.cancel = TRUE]
            /\ table' = IF table[mux.job] \in InMux
                        THEN [table EXCEPT ![mux.job] = "Cancelled"] ELSE table
    /\ UNCHANGED <<dirty, probe, queue, inbox, disk, history>>

\* The prober is joined; then MuxWorker::stop() cancels what runs, also what
\* the worker has taken up since.
StopReadiness ==
    /\ phase = "joinReadiness"
    /\ phase' = "joinMux"
    /\ probe' = {}
    /\ mux' = [mux EXCEPT !.cancel = ~Idle]
    /\ UNCHANGED <<table, dirty, queue, inbox, disk, history>>

\* The worker reports what it has not begun as cancelled, and ends.
StopMux ==
    /\ phase = "joinMux" /\ Idle
    /\ phase' = "stopped"
    /\ inbox' = inbox \o [i \in DOMAIN queue |-> [job |-> queue[i], what |-> "Cancelled"]]
    /\ queue' = <<>>
    /\ UNCHANGED <<table, dirty, probe, mux, disk, history>>

\* onEventMessage() has applied everything.
StopSaves ==
    /\ phase = "stopped" /\ inbox = <<>>
    /\ phase' = "down"
    /\ saved' = table /\ dirty' = FALSE
    /\ queue' = <<>>
    /\ UNCHANGED <<table, probe, mux, inbox, exported, outputs, history>>

Crash ==
    /\ phase # "down"
    /\ phase' = "down"
    /\ crashed' = TRUE
    /\ UNCHANGED <<volatile, disk, starts>>

(* The workers. *)

ProbeVerdict(j) ==
    /\ phase \in {"up", "joinReadiness"} /\ j \in probe
    /\ probe' = probe \ {j}
    /\ Posts(j, "Ready")
    /\ UNCHANGED <<phase, table, dirty, queue, mux, disk, history>>

\* Mutant: the request stays in the queue when the worker takes it.
BugMuxTake ==
    /\ phase \in {"up", "joinReadiness"} /\ Idle /\ queue # <<>>
    /\ mux' = [job |-> Head(queue), stage |-> "muxing", cancel |-> FALSE]
    /\ UNCHANGED <<phase, table, dirty, probe, queue, inbox, disk, history>>
MuxTake ==
    /\ phase \in {"up", "joinReadiness"} /\ Idle /\ queue # <<>>
    /\ mux' = [job |-> Head(queue), stage |-> "muxing", cancel |-> FALSE]
    /\ queue' = Tail(queue)
    /\ UNCHANGED <<phase, table, dirty, probe, inbox, disk, history>>

MuxVerify ==
    /\ mux.stage = "muxing" /\ phase # "down"
    /\ mux' = [mux EXCEPT !.stage = "verifying"]
    /\ Posts(mux.job, "Verifying")
    /\ UNCHANGED <<phase, table, dirty, probe, queue, disk, history>>

\* The output takes its name, and only then is the end reported.
MuxRename ==
    /\ mux.stage = "verifying" /\ ~mux.cancel /\ phase # "down"
    /\ outputs' = [outputs EXCEPT ![mux.job] = @ + 1]
    /\ mux' = [mux EXCEPT !.stage = "finished"]
    /\ UNCHANGED <<phase, table, dirty, probe, queue, inbox, saved, exported, history>>

MuxReports ==
    /\ ~Idle /\ phase # "down"
    /\ \/ mux.stage = "finished" /\ Posts(mux.job, "Done")
       \/ mux.stage # "finished" /\ Posts(mux.job, "Failed")
       \/ mux.stage # "finished" /\ mux.cancel /\ Posts(mux.job, "Cancelled")
    /\ mux' = Nobody
    /\ UNCHANGED <<phase, table, dirty, probe, queue, disk, history>>

UIStep == Apply \/ TickSave \/ StopCancels \/ StopReadiness \/ StopMux \/ StopSaves
Worker == (\E j \in Ids : ProbeVerdict(j)) \/ MuxTake \/ MuxVerify \/ MuxRename \/ MuxReports
SessionNext == Start \/ (\E j \in Ids : Discover(j)) \/ UIStep \/ Worker \/ Crash

SessionSpec == SessionInit /\ [][SessionNext]_sessionVars

-----------------------------------------------------------------------------
(* Properties. *)

(* An output is put in place once, over all sessions: only a crash between   *)
(* the rename and the save that records it lets a later one mux the export   *)
(* again (Engine::start, Engine::stop).                                      *)
MuxedOnce == \A j \in Ids : outputs[j] > 1 => crashed

(* In a running program a job that waits is being probed, and one that is in *)
(* the mux is queued, running, or its end is on its way, whatever was loaded *)
(* from the session before (Engine.cpp:487-498).                             *)
NothingForgotten ==
    phase = "up" => \A j \in Ids :
        /\ table[j] \in Waiting => j \in probe \/ Coming(j, {"Ready"})
        /\ table[j] \in InMux =>
              Queued(j) \/ mux.job = j \/ Coming(j, {"Done", "Failed", "Cancelled"})
=============================================================================
