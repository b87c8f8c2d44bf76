------------------------------ MODULE MkvRun ------------------------------
(* A child process and the thread that reads it: ChildProcess (Process.cpp)  *)
(* with its pipe, under the two loops that use it, MkvmergeRunner::run which *)
(* sorts mkvmerge's lines into the record of the mux, and runCapture which   *)
(* collects the output of a probe.  The child writes, blocks on a full pipe, *)
(* dies or hangs between any two steps of the reader.                        *)
EXTENDS Naturals, SequencesExt

CONSTANTS
    MaxLines,    \* bound: lines the child writes
    PipeSize,    \* tokens the pipe holds
    LastCap,     \* kLastLinesCap
    Capture,     \* kMaxCapturedBytes, in tokens
    Patience     \* reads without output before the mux times out

(* A line is written as its text and its end; a line is named by its number. *)
Kinds == {"progress", "warning", "error", "text"}
Token(kind, line) == [kind |-> kind, line |-> line]
End == Token("end", 0)

VARIABLES
    use,       \* "run" or "capture"
    child,     \* the process: "none", "alive", "exited"
    code,      \* its exit code; "killed" when it was terminated
    held,      \* another process holds the pipe's write end
    out,       \* all the child has written
    read,      \* how much of it was read
    pipe,      \* readPipe_ is open
    cancel,    \* the cancel event
    pc,        \* the reader
    pending,   \* RunState::pending, or CaptureResult::output
    record,    \* MuxRecord
    silent,    \* reads without output
    ended,     \* why the loop was left
    status     \* MuxRunResult::Status

process == <<child, code, held, out>>
vars == <<use, process, read, pipe, cancel, pc, pending, record, silent, ended, status>>

NoRecord == [errorText |-> 0, warnings |-> <<>>, last |-> <<>>, shown |-> 0]

Init ==
    /\ use \in {"run", "capture"} /\ held \in BOOLEAN
    /\ child = "none" /\ code = "none" /\ out = <<>> /\ read = 0 /\ pipe = FALSE
    /\ cancel = FALSE /\ pc = "start" /\ pending = <<>> /\ record = NoRecord
    /\ silent = 0 /\ ended = "no" /\ status = "none"

-----------------------------------------------------------------------------
(* The lines of the output *)

LastOf(lines, line) ==
    LET all == Append(lines, line)
    IN IF Len(all) > LastCap THEN Tail(all) ELSE all

(* Progress goes to the callback, a warning to the list, the first error to  *)
(* the message, anything else to the last lines kept for diagnosis.          *)
HandleLine(rec, token) ==
    CASE token.kind = "progress" -> [rec EXCEPT !.shown = token.line]
      [] token.kind = "warning" -> [rec EXCEPT !.warnings = Append(@, token.line)]
      [] token.kind = "error" /\ rec.errorText = 0 -> [rec EXCEPT !.errorText = token.line]
      [] OTHER -> [rec EXCEPT !.last = LastOf(@, token.line)]

EndsOf(text) == {i \in DOMAIN text : text[i] = End}

\* Mutant: what is left behind the last line end of a chunk is not kept.
BugConsumeLines(rec, text) ==
    <<FoldLeft(LAMBDA r, t : IF t = End THEN r ELSE HandleLine(r, t), rec,
               IF EndsOf(text) = {} THEN <<>>
               ELSE SubSeq(text, 1, CHOOSE i \in EndsOf(text) : \A j \in EndsOf(text) : j <= i)),
      <<>>>>

(* The whole lines of the text are handled; what follows them is left.       *)
ConsumeLines(rec, text) ==
    LET cut == IF EndsOf(text) = {} THEN 0
               ELSE CHOOSE i \in EndsOf(text) : \A j \in EndsOf(text) : j <= i
    IN <<FoldLeft(LAMBDA r, t : IF t = End THEN r ELSE HandleLine(r, t), rec, SubSeq(text, 1, cut)),
         SubSeq(text, cut + 1, Len(text))>>

(* What the loops do with a chunk.                                           *)
Taken(chunk) ==
    IF use = "capture"
    THEN /\ pending' = IF Len(pending) + Len(chunk) <= Capture THEN pending \o chunk ELSE pending
         /\ UNCHANGED record
    ELSE LET done == ConsumeLines(record, pending \o chunk)
         IN record' = done[1] /\ pending' = done[2]

-----------------------------------------------------------------------------
(* The child *)

Starts(ok) ==
    /\ pc = "start"
    /\ \/ /\ ok /\ ~(use = "run" /\ cancel)
          /\ child' = "alive" /\ pipe' = TRUE /\ pc' = "peek" /\ UNCHANGED status
       \/ /\ ~ok \/ (use = "run" /\ cancel)
          /\ pc' = "done" /\ status' = IF cancel /\ use = "run" THEN "Cancelled" ELSE "Failed"
          /\ UNCHANGED <<child, pipe>>
    /\ UNCHANGED <<use, code, held, out, read, cancel, pending, record, silent, ended>>

Lines == Len(SelectSeq(out, LAMBDA t : t = End))

Writes(kind) ==
    /\ child = "alive" /\ pc # "done" /\ Len(out) - read < PipeSize
    /\ LET inLine == out # <<>> /\ Last(out) # End
       IN \/ inLine /\ kind = "end" /\ out' = Append(out, End)
          \/ ~inLine /\ kind # "end" /\ Lines < MaxLines /\ out' = Append(out, Token(kind, Lines + 1))
    /\ UNCHANGED <<use, child, code, held, read, pipe, cancel, pc, pending, record, silent, ended, status>>

Exits(c) ==
    /\ child = "alive" /\ pc # "done" /\ child' = "exited" /\ code' = c
    /\ UNCHANGED <<use, held, out, read, pipe, cancel, pc, pending, record, silent, ended, status>>

Cancels ==
    /\ use = "run" /\ ~cancel /\ cancel' = TRUE
    /\ UNCHANGED <<use, process, read, pipe, pc, pending, record, silent, ended, status>>

-----------------------------------------------------------------------------
(* readChunk *)

Available == Len(out) - read
Broken == child = "exited" /\ ~held /\ Available = 0   \* every write end is closed

Continue(chunk, waiting) ==
    /\ Taken(chunk)
    /\ silent' = IF chunk # <<>> THEN 0 ELSE waiting
    /\ \/ use = "run" /\ cancel /\ ended' = "cancelled" /\ pc' = "stop"
       \/ ~(use = "run" /\ cancel) /\ pc' = "peek" /\ UNCHANGED ended

(* The wait is over: the mux gives up on a child that was silent too long; a *)
(* probe goes on to the top of its loop, where its own limit is.             *)
TimesOut ==
    \/ (use = "capture" \/ cancel) /\ Continue(<<>>, silent)
    \/ /\ use = "run" /\ ~cancel
       /\ \/ silent + 1 >= Patience /\ ended' = "timedOut" /\ pc' = "stop" /\ UNCHANGED silent
          \/ /\ silent + 1 < Patience /\ child = "exited"
             /\ ended' = "exited" /\ pc' = "stop" /\ UNCHANGED silent
          \/ /\ silent + 1 < Patience /\ child # "exited"
             /\ silent' = silent + 1 /\ pc' = "peek" /\ UNCHANGED ended
       /\ UNCHANGED <<pending, record>>

(* The limit of a probe is the time since it was started: it may have passed *)
(* whenever the loop comes to its top, however much the child writes.        *)
LimitPasses ==
    /\ use = "capture" /\ pc = "peek" /\ ended' = "timedOut" /\ pc' = "stop"
    /\ UNCHANGED <<use, process, read, pipe, cancel, pending, record, silent, status>>

(* At the top of a call, and after each slice of its wait, the pipe is       *)
(* peeked and read; the last drain after the loop reads in the same way.     *)
Peeks ==
    /\ pc \in {"peek", "slice"}
    /\ \/ /\ pipe /\ Available > 0
          /\ \E n \in 1..Available :
                read' = read + n /\ Continue(SubSeq(out, read + 1, read + n), 0)
          /\ UNCHANGED pipe
       \/ /\ ~pipe \/ Available = 0
          /\ pipe' = (pipe /\ ~Broken)
          /\ \/ pc = "peek" /\ pc' = "wait" /\ UNCHANGED <<pending, record, silent, ended>>
             \/ pc = "slice" /\ TimesOut
          /\ UNCHANGED read
    /\ UNCHANGED <<use, process, cancel, status>>

(* drainPipe: once the process is gone nothing it wrote is left behind.      *)
Drained == IF pipe THEN SubSeq(out, read + 1, Len(out)) ELSE <<>>

Waits ==
    /\ pc = "wait"
    /\ \/ /\ child = "exited"
          /\ LET chunk == Drained
             IN /\ read' = read + Len(chunk)
                /\ IF chunk # <<>> \/ (use = "run" /\ cancel)
                   THEN Continue(chunk, silent)
                   ELSE /\ ended' = "exited" /\ pc' = "stop"
                        /\ UNCHANGED <<pending, record, silent>>
       \/ /\ child = "alive" /\ use = "run" /\ cancel
          /\ ended' = "cancelled" /\ pc' = "stop" /\ UNCHANGED <<read, pending, record, silent>>
       \/ /\ child = "alive" /\ ~cancel /\ pc' = "slice"
          /\ UNCHANGED <<read, pending, record, silent, ended>>
       \/ /\ ended' = "pipeFailed" /\ pc' = "stop"
          /\ UNCHANGED <<read, pending, record, silent>>
    /\ UNCHANGED <<use, process, pipe, cancel, status>>

-----------------------------------------------------------------------------
(* After the loop *)

(* The child is terminated when the loop gave up on it; a child that cannot  *)
(* be terminated is left after five seconds.                                 *)
Stops(dies) ==
    /\ pc = "stop" /\ pc' = "tail"
    /\ \/ child = "exited" /\ UNCHANGED <<child, code>>
       \/ child = "alive" /\ dies /\ child' = "exited" /\ code' = "killed"
       \/ child = "alive" /\ ~dies /\ UNCHANGED <<child, code>>
    /\ UNCHANGED <<use, held, out, read, pipe, cancel, pending, record, silent, ended, status>>

StatusOf ==
    CASE ended = "cancelled" -> "Cancelled"
      [] ended = "timedOut" -> "TimedOut"
      [] OTHER -> IF child = "alive" THEN "Failed"
                  ELSE CASE code = "0" -> "Done" [] code = "1" -> "DoneWithWarnings"
                         [] code = "2" -> "Failed" [] OTHER -> "Crashed"

(* The rest of the pipe is read and the last fragment handled as a line; a   *)
(* probe only reads it when it timed out.                                    *)
TailRead ==
    /\ pc = "tail" /\ pc' = "done"
    /\ LET rest == IF pipe THEN SubSeq(out, read + 1, Len(out)) ELSE <<>>
           done == ConsumeLines(record, pending \o rest \o <<End>>)
       IN IF use = "capture"
          THEN /\ pending' = IF ended = "timedOut" /\ Len(pending) < Capture
                             THEN pending \o rest ELSE pending
               /\ UNCHANGED record
          ELSE record' = done[1] /\ pending' = done[2]
    /\ read' = IF pipe THEN Len(out) ELSE read
    /\ status' = StatusOf
    /\ UNCHANGED <<use, process, pipe, cancel, silent, ended>>

Codes == {"0", "1", "2", "crash"}

Next ==
    \/ \E ok \in BOOLEAN : Starts(ok) \/ Stops(ok)
    \/ \E kind \in Kinds \cup {"end"} : Writes(kind)
    \/ \E c \in Codes : Exits(c)
    \/ Cancels
    \/ LimitPasses
    \/ Peeks
    \/ Waits
    \/ TailRead

Spec == Init /\ [][Next]_vars

-----------------------------------------------------------------------------
(* Once the child is gone the mux's record is the one of all the child wrote,*)
(* however its output was cut into chunks: no error, warning or last line    *)
(* is lost between the reads, the exit and a kill.                           *)
OutputIsRead ==
    pc = "done" /\ use = "run" /\ child = "exited"
       => record = ConsumeLines(NoRecord, out \o <<End>>)[1]

(* The output of a probe whose child ended in time, under the cap, is all of *)
(* it.                                                                       *)
CaptureIsWhole ==
    pc = "done" /\ use = "capture" /\ ended = "exited" /\ Len(out) <= Capture => pending = out
=============================================================================
