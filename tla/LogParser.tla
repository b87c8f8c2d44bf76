----------------------------- MODULE LogParser -----------------------------
(***************************************************************************)
(* The line state machine of Adobe Media Encoder's encoding log            *)
(* (core/AmeLogParser.cpp).  A line comes classified: a field, a status, a *)
(* rule of hyphens, a blank one, or text.  The parser is a record, so that *)
(* a module which follows a log keeps one per file.                        *)
(***************************************************************************)
EXTENDS Integers, Sequences

CONSTANT MaxReasonLines        \* lines a failure reason may take (kMaxReasonLines)

\* A block while its fields come in, and the record it becomes.
NoRecord == [source |-> 0, output |-> 0, result |-> "Unknown", at |-> 0,
             reason |-> {}]

\* A parser that has read nothing, which reset() restores.
NewParser == [state |-> "Idle", current |-> NoRecord, fieldIndex |-> 0,
              items |-> <<>>, queue |-> <<>>, lastQueue |-> "none",
              open |-> FALSE, lines |-> 0]

\* Finalises the block and appends it to the records.
EmitCurrent(p, result, at) ==
    [p EXCEPT !.items = Append(@, [p.current EXCEPT !.result = result,
                                                    !.at = at]),
              !.current = NoRecord, !.fieldIndex = 0]

\* A field by its English key; one with an unknown key by its position among
\* the values that look like a path (0 is a value that does not).
ApplyField(p, line) ==
    LET isSource == \/ line.key = "Source File"
                    \/ line.key = "other" /\ p.fieldIndex = 0
                                          /\ p.current.source = 0
        isOutput == \/ line.key = "Output File"
                    \/ line.key = "other" /\ p.fieldIndex = 1
                                          /\ p.current.output = 0
    IN  [p EXCEPT !.current.source = IF isSource THEN line.value ELSE @,
                  !.current.output = IF isOutput THEN line.value ELSE @,
                  !.fieldIndex = IF line.value # 0 THEN @ + 1 ELSE @]

\* The reason of a failure lies between two rules and goes to the record of
\* that failure, as long as nobody has taken it.
HasTarget(p) == p.items # <<>> /\ p.items[Len(p.items)].result = "Failed"
HasText(p) == HasTarget(p) /\ p.items[Len(p.items)].reason # {}

CollectReason(p, line) ==
    LET q == [p EXCEPT !.lines = @ + 1]
    IN  CASE line.kind = "Rule" -> [q EXCEPT !.open = ~@]
          [] line.kind = "Blank" ->
                IF ~p.open /\ HasText(p) THEN [q EXCEPT !.state = "Idle"]
                                         ELSE q
          [] OTHER ->
                IF (p.open \/ ~HasText(p)) /\ HasTarget(p)
                THEN [q EXCEPT !.items[Len(p.items)].reason =
                                   @ \union {line.value}]
                ELSE q

FieldLine(p, line) ==
    ApplyField(
        CASE p.state = "Idle" ->
                [p EXCEPT !.state = "InBlock", !.current = NoRecord,
                          !.fieldIndex = 0]
          [] p.state = "InBlock" /\ line.key = "Source File" ->
                EmitCurrent(p, "Incomplete", line.at)
          [] OTHER -> p, line)

\* A status ends the block in front of it; without one it is ignored.  A line
\* of the queue is kept only when it differs from the one before it.
StatusLine(p, line) ==
    LET result == IF line.queue # "none" THEN "Incomplete" ELSE line.result
        ended == IF p.state = "InBlock"
                 THEN [EmitCurrent(p, result, line.at) EXCEPT
                         !.state = IF result = "Failed" THEN "FailureReason"
                                                        ELSE "Idle",
                         !.open = FALSE,
                         !.lines = 0]
                 ELSE p
    IN  IF line.queue \in {"none", p.lastQueue} THEN ended
        ELSE [ended EXCEPT !.queue = Append(@, line.queue),
                           !.lastQueue = line.queue]

FeedLine(p, line) ==
    LET leave == p.state = "FailureReason" /\
                 (line.kind \in {"Field", "Status"} \/ p.lines >= MaxReasonLines)
        q == IF leave THEN [p EXCEPT !.state = "Idle", !.open = FALSE] ELSE p
    IN  CASE q.state = "FailureReason" -> CollectReason(q, line)
          [] line.kind = "Field" -> FieldLine(q, line)
          [] line.kind = "Status" -> StatusLine(q, line)
          [] OTHER -> q

\* takeItems() and takeQueueEvents() leave the parser where it is.
Taken(p) == [p EXCEPT !.items = <<>>, !.queue = <<>>]
=============================================================================
