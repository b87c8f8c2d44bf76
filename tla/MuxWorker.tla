------------------------------ MODULE MuxWorker ------------------------------
(***************************************************************************)
(* MuxWorker (src/src/core/MuxWorker.cpp): one thread that takes mux       *)
(* requests from a queue and runs each through identify, ffprobe,          *)
(* mkvmerge, verification and the rename to the final name.  The UI        *)
(* thread enqueues, cancels and stops.  Critical sections of the queue     *)
(* mutex are single steps, except the worker's pop: stop() does not take   *)
(* the mutex, so its event signals interleave with the pop's reset,        *)
(* re-check and removal.                                                   *)
(*                                                                         *)
(* A request is named by its job: the engine enqueues a job again only     *)
(* after the Finished event of its previous request.  Each job has its own *)
(* partial file and its own family of final names (name 0 is plan.hintPath, *)
(* name n the "(n)" variant that the increment policy falls back to).      *)
(***************************************************************************)
EXTENDS Naturals, Sequences, FiniteSets, SequencesExt

CONSTANTS
    Jobs,          \* job ids
    NoJob,         \* id 0
    MaxRuns,       \* bound: requests per job
    MaxForeign,    \* bound: files other programs put under a final name
    LastName,      \* bound: final names of a job are 0..LastName
    Policies,      \* values of plan.onConflict: "overwrite", "skip", "increment"
    KeepChoices    \* values of plan.keepPartialOnFailure

ASSUME NoJobAssumption == NoJob \notin Jobs
ASSUME BoundsAssumption == MaxRuns \in Nat /\ MaxForeign \in Nat /\ LastName \in Nat
ASSUME PlanAssumption == /\ Policies \subseteq {"overwrite", "skip", "increment"}
                         /\ KeepChoices \subseteq BOOLEAN

Names == 0..LastName
Plans == [onConflict : Policies, keepPartial : KeepChoices]

VARIABLES
    \* shared by the two threads
    queue,        \* queue_
    current,      \* current_ (and busy_)
    running,      \* running_
    stopEvent, cancelEvent, wakeEvent,
    \* the worker thread
    pc,           \* where it is
    request,      \* the request being processed
    outcome,      \* the outcome it is about to report
    leftovers,    \* requests it reports as cancelled on the way out
    target,       \* the final name finalizeOutput moves to
    \* the UI thread
    plan,         \* MuxRequest::plan, per job: onConflict and keepPartial
    uiPc,         \* "ready", or the rest of an enqueue, a cancel or a stop
    uiJob,        \* its argument
    \* the disk
    partial,      \* [Jobs -> content]: plan.partialPath
    final,        \* [Jobs -> [Names -> content]]
    foreigners,   \* number of foreign files that appeared
    \* history
    enqueued,     \* requests per job
    finished,     \* Finished events per job
    last,         \* outcome of the job's last Finished event
    asked,        \* the last cancel() for the job's current request, see AskedNow
    excused       \* jobs whose partial was kept on purpose or could not be deleted,
                  \* or whose request an exception ended, past every clean-up

sharedVars  == <<queue, current, running, stopEvent, cancelEvent, wakeEvent>>
workerVars  == <<pc, request, outcome, leftovers, target>>
uiVars      == <<uiPc, uiJob, plan>>
diskVars    == <<partial, final, foreigners>>
historyVars == <<enqueued, finished, last, asked, excused>>
vars == <<sharedVars, workerVars, uiVars, diskVars, historyVars>>

(* Stages of process() that end with a check of the cancel event, in order. *)
StageSet == {"sanity", "identify", "probe", "stale"}
CheckOf == [s \in StageSet |->
              CASE s = "sanity" -> "sanity?" [] s = "identify" -> "identify?"
                [] s = "probe" -> "probe?"   [] OTHER -> "stale?"]
After == [c \in {"sanity?", "identify?", "probe?", "stale?"} |->
            CASE c = "sanity?" -> "identify" [] c = "identify?" -> "probe"
              [] c = "probe?" -> "stale"     [] OTHER -> "launch"]

EarlyPcs   == StageSet \cup DOMAIN After \cup {"launch", "run"}
LatePcs    == {"verify", "finalize", "moveReplace", "moveNoReplace", "discard", "post"}
ProcessPcs == EarlyPcs \cup LatePcs
LoopPcs    == {"top", "pop", "locked", "release", "afterDrain", "leftovers", "idle", "exited"}

\* A file's content: what a foreign program wrote, a mux that is unfinished
\* or failed, or a mux that verification accepts.
Content == {"none", "foreign", "broken", "whole"}

\* The worker's critical section is the only one of more than one step.
LockFree == pc # "locked"

-----------------------------------------------------------------------------
(* The UI thread: enqueue(), cancel(), stop() *)

Enqueue(j) ==
    /\ uiPc = "ready" /\ LockFree
    /\ enqueued[j] < MaxRuns
    /\ enqueued[j] = finished[j]         \* Engine::dispatch: job not in the mux
    /\ queue' = Append(queue, j)
    /\ enqueued' = [enqueued EXCEPT ![j] = @ + 1]
    /\ asked' = [asked EXCEPT ![j] = "no"]
    /\ \E p \in Plans : plan' = [plan EXCEPT ![j] = p]
    /\ uiPc' = "wake"
    /\ UNCHANGED <<current, running, stopEvent, cancelEvent, wakeEvent, workerVars,
                   uiJob, diskVars, finished, last, excused>>

\* Mutant: the wake-up is forgotten.
BugEnqueueNoWake ==
    /\ uiPc = "wake"
    /\ uiPc' = "ready"
    /\ UNCHANGED <<sharedVars, workerVars, uiJob, plan, diskVars, historyVars>>

EnqueueWake ==
    /\ uiPc = "wake"
    /\ wakeEvent' = TRUE
    /\ uiPc' = "ready"
    /\ UNCHANGED <<queue, current, running, stopEvent, cancelEvent, workerVars,
                   uiJob, plan, diskVars, historyVars>>

\* What a cancel() that finds the job in current_ meets: a request that is
\* still to run mkvmerge to its end, one that is past it, or - between the
\* Finished event of the previous request and the lock that clears current_ -
\* the request already queued again, for which the event is reset by its pop.
AskedNow(j) == IF Contains(queue, j) THEN "stale" ELSE IF pc \in EarlyPcs THEN "early" ELSE "late"

CancelRunning(j) ==
    /\ uiPc = "ready" /\ LockFree
    /\ current = j
    /\ cancelEvent' = TRUE
    /\ asked' = [asked EXCEPT ![j] = AskedNow(j)]
    /\ UNCHANGED <<queue, current, running, stopEvent, wakeEvent, workerVars, uiVars,
                   diskVars, enqueued, finished, last, excused>>

\* std::find_if over queue_
FirstRequest(j) == CHOOSE i \in DOMAIN queue :
                      queue[i] = j /\ \A k \in 1..(i - 1) : queue[k] # j

\* Mutant: a cancelled request stays in the queue.
BugCancelQueuedKeeps(j) ==
    /\ uiPc = "ready" /\ LockFree
    /\ current # j
    /\ Contains(queue, j)
    /\ asked' = [asked EXCEPT ![j] = "early"]
    /\ uiPc' = "report" /\ uiJob' = j
    /\ UNCHANGED <<sharedVars, workerVars, plan, diskVars, enqueued, finished, last, excused>>

CancelQueued(j) ==
    /\ uiPc = "ready" /\ LockFree
    /\ current # j
    /\ Contains(queue, j)
    /\ queue' = RemoveAt(queue, FirstRequest(j))
    /\ asked' = [asked EXCEPT ![j] = "early"]
    /\ uiPc' = "report" /\ uiJob' = j
    /\ UNCHANGED <<current, running, stopEvent, cancelEvent, wakeEvent, workerVars, plan,
                   diskVars, enqueued, finished, last, excused>>

Report(j, o) == /\ finished' = [finished EXCEPT ![j] = @ + 1]
                /\ last' = [last EXCEPT ![j] = o]

\* "Cancelled before start", posted outside the lock.
CancelReport ==
    /\ uiPc = "report"
    /\ Report(uiJob, "Cancelled")
    /\ uiPc' = "ready"
    /\ UNCHANGED <<sharedVars, workerVars, uiJob, plan, diskVars, enqueued, asked, excused>>

Stop ==
    /\ uiPc = "ready"
    /\ running
    /\ running' = FALSE
    /\ stopEvent' = TRUE
    /\ uiPc' = "stopCancel"
    /\ UNCHANGED <<queue, current, cancelEvent, wakeEvent, workerVars, uiJob, plan, diskVars, historyVars>>

StopCancel ==
    /\ uiPc = "stopCancel"
    /\ cancelEvent' = TRUE
    /\ uiPc' = "stopWake"
    /\ UNCHANGED <<queue, current, running, stopEvent, wakeEvent, workerVars, uiJob, plan, diskVars, historyVars>>

StopWake ==
    /\ uiPc = "stopWake"
    /\ wakeEvent' = TRUE
    /\ uiPc' = "join"
    /\ UNCHANGED <<queue, current, running, stopEvent, cancelEvent, workerVars, uiJob, plan, diskVars, historyVars>>

StopJoin ==
    /\ uiPc = "join"
    /\ pc = "exited"
    /\ uiPc' = "stopped"
    /\ UNCHANGED <<sharedVars, workerVars, uiJob, plan, diskVars, historyVars>>

UIStep == EnqueueWake \/ CancelReport \/ StopCancel \/ StopWake \/ StopJoin

-----------------------------------------------------------------------------
(* The worker thread's loop: threadMain() *)

LoopTop ==
    /\ pc = "top"
    /\ pc' = IF stopEvent THEN "afterDrain" ELSE "pop"
    /\ UNCHANGED <<sharedVars, request, outcome, leftovers, target, uiVars, diskVars, historyVars>>

PopNothing ==
    /\ pc = "pop"
    /\ queue = <<>>
    /\ pc' = "afterDrain"
    /\ UNCHANGED <<sharedVars, request, outcome, leftovers, target, uiVars, diskVars, historyVars>>

\* The lock is taken and the cancel event reset.
PopReset ==
    /\ pc = "pop"
    /\ queue # <<>>
    /\ cancelEvent' = FALSE
    /\ pc' = "locked"
    /\ UNCHANGED <<queue, current, running, stopEvent, wakeEvent, request, outcome,
                   leftovers, target, uiVars, diskVars, historyVars>>

\* Still under the lock: stop is checked again, then the request is taken.
Pop ==
    /\ pc = "locked"
    /\ IF stopEvent
         THEN pc' = "afterDrain" /\ UNCHANGED <<request, queue, current>>
         ELSE /\ request' = Head(queue) /\ queue' = Tail(queue)
              /\ current' = Head(queue)
              /\ pc' = "sanity"
    /\ UNCHANGED <<running, stopEvent, cancelEvent, wakeEvent, outcome, leftovers, target,
                   uiVars, diskVars, historyVars>>

\* After process(): current_ and busy_ are cleared under the lock.
Release ==
    /\ pc = "release"
    /\ current' = NoJob
    /\ pc' = "top"
    /\ UNCHANGED <<queue, running, stopEvent, cancelEvent, wakeEvent, request, outcome,
                   leftovers, target, uiVars, diskVars, historyVars>>

\* The queue is empty or the thread is stopping; the leftovers are swapped out.
AfterDrain ==
    /\ pc = "afterDrain"
    /\ IF stopEvent
         THEN leftovers' = queue /\ queue' = <<>> /\ pc' = "leftovers"
         ELSE pc' = "idle" /\ UNCHANGED <<leftovers, queue>>
    /\ UNCHANGED <<current, running, stopEvent, cancelEvent, wakeEvent, request, outcome,
                   target, uiVars, diskVars, historyVars>>

ReportLeftover ==
    /\ pc = "leftovers"
    /\ IF leftovers = <<>>
         THEN pc' = "exited" /\ UNCHANGED <<leftovers, finished, last>>
         ELSE /\ Report(Head(leftovers), "Cancelled")
              /\ leftovers' = Tail(leftovers)
              /\ UNCHANGED pc
    /\ UNCHANGED <<sharedVars, request, outcome, target, uiVars, diskVars, enqueued, asked, excused>>

\* WaitForMultipleObjects: stop first, then the auto-reset wake event.
IdleWait ==
    /\ pc = "idle"
    /\ stopEvent \/ wakeEvent
    /\ wakeEvent' = (stopEvent /\ wakeEvent)
    /\ pc' = "top"
    /\ UNCHANGED <<queue, current, running, stopEvent, cancelEvent, request, outcome,
                   leftovers, target, uiVars, diskVars, historyVars>>

-----------------------------------------------------------------------------
(* process(): one request *)

PartialGone(j) == /\ partial' = [partial EXCEPT ![j] = "none"]
                  /\ excused' = excused \ {j}

PartialStays(j) == excused' = excused \cup {j} /\ UNCHANGED partial

Finish(o, label) == outcome' = o /\ pc' = label

\* A stage runs to its cancel check; deleting a stale partial may fail.
StagePasses(s) ==
    /\ pc = s
    /\ pc' = CheckOf[s]
    /\ IF s = "stale"
         THEN \/ PartialGone(request)
              \/ partial[request] # "none" /\ PartialStays(request)
         ELSE UNCHANGED <<partial, excused>>
    /\ UNCHANGED <<sharedVars, request, outcome, leftovers, target, uiVars, final, foreigners,
                   enqueued, finished, last, asked>>

\* mkvmerge, the input or the LUT is missing; the input is not usable.
StageFails(s) ==
    /\ s \in {"sanity", "identify"}
    /\ pc = s
    /\ Finish("Failed", "discard")
    /\ UNCHANGED <<sharedVars, request, leftovers, target, uiVars, diskVars, historyVars>>

CheckCancel(c) ==
    /\ pc = c
    /\ IF cancelEvent THEN Finish("Cancelled", "discard")
                      ELSE pc' = After[c] /\ UNCHANGED outcome
    /\ UNCHANGED <<sharedVars, request, leftovers, target, uiVars, diskVars, historyVars>>

\* MkvmergeRunner::run checks the event once more, then starts mkvmerge, which
\* truncates the partial; the launch itself may fail.
Launch ==
    /\ pc = "launch"
    /\ IF cancelEvent
         THEN Finish("Cancelled", "discard") /\ UNCHANGED partial
         ELSE \/ Finish("Failed", "discard") /\ UNCHANGED partial
              \/ /\ partial' = [partial EXCEPT ![request] = "broken"]
                 /\ pc' = "run" /\ UNCHANGED outcome
    /\ UNCHANGED <<sharedVars, request, leftovers, target, uiVars, final, foreigners, historyVars>>

\* The reader loop saw the cancel event: mkvmerge is terminated.
RunCancelled ==
    /\ pc = "run"
    /\ cancelEvent
    /\ Finish("Cancelled", "discard")
    /\ UNCHANGED <<sharedVars, request, leftovers, target, uiVars, diskVars, historyVars>>

\* Exit code 2, a crash, the watchdog, a broken pipe.
RunFails ==
    /\ pc = "run"
    /\ ~cancelEvent
    /\ Finish("Failed", "discard")
    /\ UNCHANGED <<sharedVars, request, leftovers, target, uiVars, diskVars, historyVars>>

\* Mutant: the loop takes the exit without looking at the event.
BugRunIgnoresCancel ==
    /\ pc = "run"
    /\ \E c \in {"broken", "whole"} : partial' = [partial EXCEPT ![request] = c]
    /\ pc' = "verify"
    /\ UNCHANGED <<sharedVars, request, outcome, leftovers, target, uiVars, final, foreigners, historyVars>>

\* Exit code 0 or 1: the output may still be unusable.
RunDone ==
    /\ pc = "run"
    /\ ~cancelEvent
    /\ \E c \in {"broken", "whole"} : partial' = [partial EXCEPT ![request] = c]
    /\ pc' = "verify"
    /\ UNCHANGED <<sharedVars, request, outcome, leftovers, target, uiVars, final, foreigners, historyVars>>

\* Mutant: a verification error is only logged.
BugVerifyPasses ==
    /\ pc = "verify"
    /\ pc' = "finalize"
    /\ UNCHANGED <<sharedVars, request, outcome, leftovers, target, uiVars, diskVars, historyVars>>

Verify ==
    /\ pc = "verify"
    /\ IF partial[request] = "whole"
         THEN pc' = "finalize" /\ UNCHANGED outcome
         ELSE Finish("Failed", "discard")
    /\ UNCHANGED <<sharedVars, request, leftovers, target, uiVars, diskVars, historyVars>>

TargetName(j) ==
    LET free == {n \in Names : final[j][n] = "none"}
    IN  IF free = {} THEN LastName ELSE CHOOSE n \in free : \A m \in free : n <= m

\* finalizeOutput: a taken name makes the skip policy fail; otherwise the name
\* to move to is fixed here and used in the next step.
Finalize ==
    /\ pc = "finalize"
    /\ IF final[request][0] # "none" /\ plan[request].onConflict = "skip"
         THEN Finish("Failed", "discard") /\ UNCHANGED target
         ELSE /\ target' = IF plan[request].onConflict = "overwrite" THEN 0 ELSE TargetName(request)
              /\ pc' = IF final[request][0] # "none" /\ plan[request].onConflict = "overwrite"
                         THEN "moveReplace" ELSE "moveNoReplace"
              /\ UNCHANGED outcome
    /\ UNCHANGED <<sharedVars, request, leftovers, uiVars, diskVars, historyVars>>

MoveToTarget ==
    /\ final' = [final EXCEPT ![request][target] = partial[request]]
    /\ partial' = [partial EXCEPT ![request] = "none"]
    /\ Finish("Done", "post")

\* Mutant: the rename replaces whatever appeared meanwhile.
BugMoveAlwaysReplaces ==
    /\ pc \in {"moveReplace", "moveNoReplace"}
    /\ MoveToTarget
    /\ UNCHANGED <<sharedVars, request, leftovers, target, uiVars, foreigners, historyVars>>

Move ==
    /\ pc \in {"moveReplace", "moveNoReplace"}
    /\ pc = "moveReplace" \/ final[request][target] = "none"
    /\ MoveToTarget
    /\ UNCHANGED <<sharedVars, request, leftovers, target, uiVars, foreigners, historyVars>>

\* The name was taken meanwhile, or the rename fails for another reason.
MoveFails ==
    /\ pc \in {"moveReplace", "moveNoReplace"}
    /\ Finish("Failed", "discard")
    /\ UNCHANGED <<sharedVars, request, leftovers, target, uiVars, diskVars, historyVars>>

\* discardPartial: the deletion may be refused (the file is held open).
Discard ==
    /\ pc = "discard"
    /\ \/ plan[request].keepPartial /\ PartialStays(request)
       \/ ~plan[request].keepPartial /\ PartialGone(request)
       \/ /\ ~plan[request].keepPartial /\ partial[request] # "none"
          /\ PartialStays(request)
    /\ pc' = "post"
    /\ UNCHANGED <<sharedVars, request, outcome, leftovers, target, uiVars, final, foreigners,
                   enqueued, finished, last, asked>>

PostFinished ==
    /\ pc = "post"
    /\ Report(request, outcome)
    /\ pc' = "release"
    /\ UNCHANGED <<sharedVars, request, outcome, leftovers, target, uiVars, diskVars,
                   enqueued, asked, excused>>

\* An exception inside process(), while it posts too: threadMain reports the
\* request as failed and goes on, and nobody discards the partial.
Throws ==
    /\ pc \in ProcessPcs
    /\ Report(request, "Failed")
    /\ PartialStays(request)
    /\ pc' = "release"
    /\ UNCHANGED <<sharedVars, request, outcome, leftovers, target, uiVars, final, foreigners,
                   enqueued, asked>>

-----------------------------------------------------------------------------

\* Another program writes a file under one of the final names.
ForeignFile(j, n) ==
    /\ foreigners < MaxForeign
    /\ final[j][n] = "none"
    /\ final' = [final EXCEPT ![j][n] = "foreign"]
    /\ foreigners' = foreigners + 1
    /\ UNCHANGED <<sharedVars, workerVars, uiVars, partial, historyVars>>

Init ==
    /\ queue = <<>> /\ current = NoJob /\ running = TRUE
    /\ stopEvent = FALSE /\ cancelEvent = FALSE /\ wakeEvent = FALSE
    /\ pc = "top" /\ request = NoJob /\ outcome = "none" /\ leftovers = <<>> /\ target = 0
    /\ uiPc = "ready" /\ uiJob = NoJob /\ plan \in [Jobs -> Plans]
    /\ partial \in [Jobs -> {"none", "broken"}]        \* a stale partial may lie around
    /\ final = [j \in Jobs |-> [n \in Names |-> "none"]]
    /\ foreigners = 0
    /\ enqueued = [j \in Jobs |-> 0] /\ finished = [j \in Jobs |-> 0]
    /\ last = [j \in Jobs |-> "none"] /\ asked = [j \in Jobs |-> "no"]
    /\ excused = {j \in Jobs : partial[j] # "none"}

LoopStep == \/ LoopTop \/ PopNothing \/ PopReset \/ Pop \/ Release
            \/ AfterDrain \/ ReportLeftover \/ IdleWait

ProcessStep == \/ \E s \in StageSet : StagePasses(s) \/ StageFails(s)
               \/ \E c \in DOMAIN After : CheckCancel(c)
               \/ Launch \/ RunCancelled \/ RunFails \/ RunDone \/ Verify
               \/ Finalize \/ Move \/ MoveFails \/ Discard \/ PostFinished \/ Throws

WorkerStep == LoopStep \/ ProcessStep

Next == \/ \E j \in Jobs : Enqueue(j) \/ CancelRunning(j) \/ CancelQueued(j)
        \/ Stop
        \/ UIStep
        \/ WorkerStep
        \/ \E j \in Jobs, n \in Names : ForeignFile(j, n)

(* Both threads run; a child process that hangs is ended by the watchdog of *)
(* MkvmergeRunner::run, so every stage of process() ends.                   *)
Spec == Init /\ [][Next]_vars /\ WF_vars(WorkerStep) /\ WF_vars(UIStep)

-----------------------------------------------------------------------------
(* Properties *)

UIPcs == {"ready", "wake", "report", "stopCancel", "stopWake", "join", "stopped"}
Outcomes == {"none", "Done", "Failed", "Cancelled"}

TypeOK ==
    /\ queue \in Seq(Jobs) /\ leftovers \in Seq(Jobs)
    /\ current \in Jobs \cup {NoJob} /\ request \in Jobs \cup {NoJob}
    /\ uiJob \in Jobs \cup {NoJob}
    /\ running \in BOOLEAN /\ stopEvent \in BOOLEAN
    /\ cancelEvent \in BOOLEAN /\ wakeEvent \in BOOLEAN
    /\ pc \in ProcessPcs \cup LoopPcs /\ uiPc \in UIPcs
    /\ plan \in [Jobs -> Plans]
    /\ outcome \in Outcomes /\ target \in Names
    /\ partial \in [Jobs -> Content] /\ final \in [Jobs -> [Names -> Content]]
    /\ foreigners \in 0..MaxForeign
    /\ enqueued \in [Jobs -> 0..MaxRuns] /\ finished \in [Jobs -> 0..MaxRuns]
    /\ last \in [Jobs -> Outcomes] /\ asked \in [Jobs -> {"no", "early", "late", "stale"}]
    /\ excused \subseteq Jobs

\* Where a request that has not been reported can be.
Queued(j)     == Contains(queue, j)
Processing(j) == pc \in ProcessPcs /\ request = j
Leaving(j)    == Contains(leftovers, j)
Reporting(j)  == uiPc = "report" /\ uiJob = j
One(place)    == IF place THEN 1 ELSE 0
Places(j)     == One(Queued(j)) + One(Processing(j)) + One(Leaving(j)) + One(Reporting(j))

(* Every request gets exactly one Finished event: between enqueue() and its *)
(* event it is in exactly one place, whatever cancel(), stop() and the      *)
(* worker do in between; afterwards it is nowhere.                          *)
OneFinishedPerRequest ==
    \A j \in Jobs : /\ enqueued[j] = finished[j] + Places(j)
                    /\ Places(j) <= 1

(* A request ends Cancelled only when cancel() named it or stop() ran: the  *)
(* event left set for one job never aborts the next.                        *)
CancelIsForTheJob ==
    \A j \in Jobs : last[j] = "Cancelled" /\ enqueued[j] = finished[j]
                        => asked[j] # "no" \/ stopEvent

(* A cancel() that finds its request waiting, or running before mkvmerge    *)
(* has ended, is never wiped out by the worker's reset: the request does    *)
(* not end Done.  (A "stale" cancel can be: it is set aside, see AskedNow.) *)
EarlyCancelWins ==
    \A j \in Jobs : last[j] = "Done" /\ enqueued[j] = finished[j] => asked[j] # "early"

(* threadMain's comment: a cancel() that lands after the lock is released    *)
(* "sets the event and is never wiped out by a late reset", so a request it *)
(* finds waiting or running does not end Done.  The code falls short of it: *)
(* see AskedNow.                                                            *)
NoCancelWipedOut ==
    \A j \in Jobs : last[j] = "Done" /\ enqueued[j] = finished[j]
                        => asked[j] \notin {"early", "stale"}

(* stop() against the reset in the pop (comment in threadMain): once stop() *)
(* has signalled both events, a request that is being processed sees the    *)
(* cancel event, so the join never waits for a whole mux.                   *)
StopReachesRunningJob ==
    pc \in EarlyPcs /\ stopEvent /\ uiPc # "stopCancel" => cancelEvent

(* After the join every request made before stop() has been reported.       *)
StopReportsAll ==
    uiPc = "stopped" => \A j \in Jobs : enqueued[j] = finished[j]

(* A final name never holds a half-written or unverified file.              *)
FinalNamesAreWhole ==
    \A j \in Jobs, n \in Names : final[j][n] # "broken"

(* Between requests a partial lies on disk only when the plan of the        *)
(* request that wrote it keeps failed partials, deleting it was refused, or *)
(* an exception ended that request: that way discardPartial() is passed by. *)
NoPartialLeft ==
    \A j \in Jobs : partial[j] # "none" /\ ~Processing(j) => j \in excused

(* Only the overwrite policy replaces a file another program put under a    *)
(* final name, even when it appears between the check and the rename.       *)
ForeignFilesSurvive ==
    [][\A j \in Jobs, n \in Names :
          final[j][n] = "foreign" /\ plan[j].onConflict # "overwrite"
             => final'[j][n] = "foreign"]_vars

(* A cancel() reaches the request it names, if it finds it in time, and     *)
(* no other; a stop() reaches the one that runs.                            *)
CancelsReach == CancelIsForTheJob /\ EarlyCancelWins /\ StopReachesRunningJob

(* What process() leaves on disk, also when an exception ends it: whole     *)
(* files under the final names, and a partial only where the plan keeps it, *)
(* its deletion was refused, or there was that exception.                   *)
FilesAreWhole == FinalNamesAreWhole /\ NoPartialLeft

(* Every request is reported in the end.                                    *)
RequestsFinish == \A j \in Jobs : (enqueued[j] > finished[j]) ~> (enqueued[j] = finished[j])
=============================================================================
