------------------------------ MODULE LogTail ------------------------------
(***************************************************************************)
(* The thread that follows an encoding log (core/AmeLogTailer.cpp), the    *)
(* state file that lets it go on where it stopped, and Media Encoder,      *)
(* which writes the log, replaces it and truncates it whenever it likes.   *)
(*                                                                         *)
(* A log is a sequence of tokens: "bom", "nl" and the bodies of lines.     *)
(* Media Encoder writes the line end before a line, so the last line of    *)
(* every append has no end yet: it is the carry of the reader.             *)
(***************************************************************************)
EXTENDS LogParser, FiniteSets, SequencesExt

CONSTANTS Exports,        \* how many exports the log comes to mention
          FailedBlocks,   \* those that fail, and so have a reason
          Chunk,          \* tokens one ReadFile returns at most (kChunkBytes)
          MaxRewrites,    \* bound: times the log is replaced or truncated
          MaxSessions,    \* bound: times the program is started
          MaxCrashes      \* bound: times it ends without stop()

Blocks == 1 .. Exports

VARIABLES files,     \* the content of every log file there has been; the last is the log
          past,      \* of each the session in which it was created, and the offsets at
                     \* which the sessions since went on in it
          version,   \* the write time of the log: grows with every change of it
          written,   \* tokens of blocks written so far: 2 * b - 1 is block b's fields
          session,   \* the start of the program we are in, or were in last
          pc,        \* "down", or where the thread is
          asked,     \* stop() has signalled the stop event
          tail,      \* the TailState of the log, or NoTail
          handle,    \* the file that is open, 0 for none
          ident,     \* what identity() said of the path
          recreated, \* the local of readFile
          dirty,     \* stateDirty_
          saved,     \* state.json
          posted,    \* the LogItemEvents, and the session each was posted in
          twice,     \* blocks reported live a second time
          excuses    \* what has happened: "crash", "raced" (the log was replaced between
                     \* the open and identity()), "truncated", "cut" (a seed that ended
                     \* before the end of the log), "short" (another pass that did),
                     \* "carried" (a seed ended with a status in the carry)

logVars  == <<files, past, version, written>>
readVars == <<handle, ident, recreated>>
postVars == <<posted, twice>>
vars == <<logVars, session, pc, asked, tail, readVars, dirty, saved, postVars,
          excuses>>

None == [valid |-> FALSE, file |-> 0, size |-> 0, version |-> 0]
NoTail == [ident |-> None, offset |-> 0, seeded |-> FALSE, carry |-> <<>>,
           parser |-> NewParser]
NotSaved == [ident |-> None, offset |-> 0, seeded |-> FALSE]

Log == Len(files)
Text == files[Log]
Running == pc \notin {"down", "join"}
Identity == [valid |-> TRUE, file |-> Log, size |-> Len(Text), version |-> version]

-----------------------------------------------------------------------------
(* Media Encoder.                                                          *)

Nl == [kind |-> "nl"]
Bom == [kind |-> "bom"]
Line(kind, key, value, result) ==
    [kind |-> kind, key |-> key, value |-> value, result |-> result,
     queue |-> "none", at |-> session]
Fields(b) == <<Nl, Line("Field", "Source File", b, ""),
               Nl, Line("Field", "Output File", b, "")>>
StatusOf(b) ==
    IF b \in FailedBlocks
    THEN <<Nl, Line("Status", "", b, "Failed"), Nl, Line("Rule", "", 0, ""),
           Nl, Line("Text", "", b, ""), Nl, Line("Rule", "", 0, "")>>
    ELSE <<Nl, Line("Status", "", b, "Success")>>

\* An append: the fields of the next block, or the status of the last one,
\* which a line of the queue ("Queue Stopped") may follow.  The first append to
\* a file brings the byte order mark with it.
AmeWrites ==
    /\ written < 2 * Exports
    /\ \E tokens \in IF written % 2 = 0
                     THEN {Fields(written \div 2 + 1)}
                     ELSE {StatusOf(written \div 2 + 1), StatusOf(written \div 2 + 1) \o <<Nl>>} :
          files' = [files EXCEPT ![Log] = (IF @ = <<>> THEN <<Bom>> ELSE @) \o tokens]
    /\ written' = written + 1
    /\ version' = version + 1
    /\ UNCHANGED <<past, session, pc, asked, tail, readVars, dirty, saved, postVars, excuses>>

Rewrites == Log - 1 + Cardinality(excuses \intersect {"truncated"})

\* A new file at the path; a reader may still hold the old one.
AmeReplaces ==
    /\ Rewrites < MaxRewrites
    /\ files' = Append(files, <<>>)
    /\ past' = Append(past, [born |-> session, begun |-> <<>>])
    /\ version' = version + 1
    /\ excuses' = IF pc = "identify" THEN excuses \union {"raced"} ELSE excuses
    /\ UNCHANGED <<written, session, pc, asked, tail, readVars, dirty, saved, postVars>>

\* The same file, emptied: its id and its creation time stay.
AmeTruncates ==
    /\ Rewrites < MaxRewrites /\ Text # <<>>
    /\ files' = [files EXCEPT ![Log] = <<>>]
    /\ version' = version + 1
    /\ excuses' = excuses \union {"truncated"}
    /\ UNCHANGED <<past, written, session, pc, asked, tail, readVars, dirty, saved, postVars>>

-----------------------------------------------------------------------------
(* Start, stop and the state file.                                         *)

\* loadState(): an entry is kept when the file is the one it was left behind;
\* a seed that never finished starts over.  The parser starts idle.
Loaded ==
    IF saved.ident.valid /\ saved.ident.file = Log /\ Len(Text) >= saved.offset
    THEN [NoTail EXCEPT
            !.seeded = saved.seeded,
            !.offset = IF saved.seeded THEN saved.offset ELSE 0,
            !.ident = IF saved.seeded THEN saved.ident ELSE None]
    ELSE NoTail

Start ==
    /\ pc = "down" /\ session < MaxSessions
    /\ session' = session + 1
    /\ pc' = "wait" /\ asked' = FALSE
    /\ tail' = Loaded
    /\ past' = [past EXCEPT ![Log].begun = Append(@, Loaded.offset)]
    /\ handle' = 0 /\ ident' = None /\ recreated' = FALSE
    /\ dirty' = FALSE
    /\ UNCHANGED <<files, version, written, saved, postVars, excuses>>

StopSignal ==
    /\ Running /\ ~asked
    /\ asked' = TRUE
    /\ UNCHANGED <<logVars, session, pc, tail, readVars, dirty, saved, postVars, excuses>>

Persisted ==
    IF tail.ident.valid
    THEN [ident |-> tail.ident, seeded |-> tail.seeded,
          offset |-> tail.offset - Len(tail.carry)]
    ELSE NotSaved

Save ==
    /\ pc = "wait" /\ dirty
    /\ saved' = Persisted
    /\ dirty' = FALSE
    /\ UNCHANGED <<logVars, session, pc, asked, tail, readVars, postVars, excuses>>

ThreadEnds ==
    /\ pc = "wait" /\ asked
    /\ pc' = "join"
    /\ UNCHANGED <<logVars, session, asked, tail, readVars, dirty, saved, postVars, excuses>>

StopJoins ==
    /\ pc = "join"
    /\ pc' = "down"
    /\ saved' = IF dirty THEN Persisted ELSE saved
    /\ dirty' = FALSE
    /\ UNCHANGED <<logVars, session, asked, tail, readVars, postVars, excuses>>

Crash ==
    /\ pc # "down" /\ session <= MaxCrashes
    /\ pc' = "down"
    /\ excuses' = excuses \union {"crash"}
    /\ UNCHANGED <<logVars, session, asked, tail, readVars, dirty, saved, postVars>>

-----------------------------------------------------------------------------
(* The thread.                                                             *)

\* pollCandidates(): a stat, and a read when the file moved or was never read.
\* An open that fails, because Media Encoder holds the log for a moment while it
\* writes, leaves everything to the next round.
Changed == \/ ~tail.ident.valid
           \/ Len(Text) # tail.ident.size
           \/ version # tail.ident.version

Poll ==
    /\ pc = "wait" /\ ~asked
    /\ Changed
    /\ handle' = Log
    /\ pc' = "identify"
    /\ UNCHANGED <<logVars, session, asked, tail, ident, recreated, dirty, saved, postVars,
                   excuses>>

\* identity() asks the path, not the handle.  Another file, or a shorter one
\* than what was consumed, starts over; a log as young as we are is as fresh.
BugReplaced(id) == tail.ident.valid /\ id # tail.ident
Replaced(id) == tail.ident.valid /\ (id.file # tail.ident.file \/ id.size < tail.offset)
BornSince == past[Log].born = session

Reset == [NoTail EXCEPT !.ident = tail.ident]

\* At the top of an empty file there is nothing to decide on yet.  When its head
\* cannot be read the round ends, but a file that was replaced has been given up.
Identify ==
    LET start == IF Replaced(Identity) THEN Reset ELSE tail
        empty == start.offset = 0 /\ files[handle] = <<>>
    IN  /\ pc = "identify"
        /\ \/ /\ dirty' = (dirty \/ Replaced(Identity))
              /\ \/ start.offset = 0 /\ tail' = start
                 \/ empty /\ tail' = [start EXCEPT !.ident = Identity]
              /\ handle' = 0 /\ pc' = "wait"
              /\ UNCHANGED <<ident, recreated>>
           \/ /\ ~empty
              /\ dirty' = (dirty \/ Replaced(Identity) \/ start.offset = 0)
              /\ tail' = IF start.offset = 0
                         THEN [start EXCEPT !.offset = 1, !.carry = <<>>] ELSE start
              /\ ident' = Identity
              /\ recreated' = \/ Replaced(Identity)
                              \/ ~tail.ident.valid /\ ~tail.seeded /\ BornSince
              /\ pc' = "read"
              /\ UNCHANGED handle
        /\ UNCHANGED <<logVars, session, asked, saved, postVars, excuses>>

\* drainUtf16Lines(): every line with an end is fed, the rest is the carry.
Fed(p, text) == FoldLeft(LAMBDA q, t : IF t.kind = "nl" THEN q ELSE FeedLine(q, t), p, text)
LastNl(text) == Max({0} \union {i \in DOMAIN text : text[i].kind = "nl"})

\* A pass that ends here has left the rest of the log, if there is any.
EndsAt(offset) ==
    excuses' = IF offset = Len(files[handle]) THEN excuses
               ELSE excuses \union {IF tail.seeded THEN "short" ELSE "cut"}

ReadChunk ==
    LET got == SubSeq(files[handle], tail.offset + 1,
                      IF tail.offset + Chunk < Len(files[handle])
                      THEN tail.offset + Chunk ELSE Len(files[handle]))
        text == tail.carry \o got
    IN  /\ pc = "read" /\ got # <<>>
        /\ tail' = [tail EXCEPT !.offset = @ + Len(got),
                                !.parser = Fed(@, SubSeq(text, 1, LastNl(text))),
                                !.carry = SubSeq(text, LastNl(text) + 1, Len(text))]
        /\ IF asked THEN pc' = "harvest" /\ EndsAt(tail.offset + Len(got))
                    ELSE pc' = "read" /\ UNCHANGED excuses
        /\ UNCHANGED <<logVars, session, asked, readVars, dirty, saved, postVars>>

ReadFails ==
    /\ pc = "read" /\ pc' = "harvest" /\ EndsAt(tail.offset)
    /\ UNCHANGED <<logVars, session, asked, tail, readVars, dirty, saved, postVars>>

\* History, unless the file is new and the block is newer than we are.
IsSeed(record) == ~tail.seeded /\ ~(recreated /\ record.at >= session)

\* What we saw; a race with an append is corrected by the offset.
SeenIdentity == [ident EXCEPT !.size = IF tail.offset > @ THEN tail.offset ELSE @]

\* History: the lines of a block that this session has had from the log.
LinesOf(b, text) == {i \in DOMAIN text : text[i].kind \in {"Field", "Status", "Text"}
                                          /\ text[i].value = b}
FedOf(b) ==
    LET began == IF past[handle].begun = <<>> THEN 0 ELSE Last(past[handle].begun)
    IN {<<files[handle][i].kind, files[handle][i].key>> :
           i \in {j \in LinesOf(b, files[handle]) :
                    began < j /\ j <= tail.offset - Len(tail.carry)}}

Harvest ==
    LET items == tail.parser.items
        live == {i \in DOMAIN items : ~IsSeed(items[i])}
        wasLive == {e \in posted : ~e.seed}
    IN  /\ (pc = "harvest" \/ (pc = "read" /\ Len(files[handle]) <= tail.offset))
        /\ posted' = posted \union
              {[block |-> items[i].output, source |-> items[i].source,
                reason |-> items[i].reason, seed |-> IsSeed(items[i]), at |-> items[i].at,
                session |-> session, fed |-> FedOf(items[i].output)] : i \in DOMAIN items}
        /\ twice' = twice \union
              {items[i].output : i \in {j \in live :
                    \/ \E e \in wasLive : e.block = items[j].output
                    \/ \E k \in live : k < j /\ items[k].output = items[j].output}}
        /\ tail' = [tail EXCEPT !.seeded = TRUE,
                                !.parser = Taken(@),
                                !.ident = SeenIdentity]
        /\ dirty' = TRUE
        /\ handle' = 0 /\ ident' = None /\ recreated' = FALSE /\ pc' = "wait"
        /\ excuses' = IF /\ pc = "read" /\ ~tail.seeded
                         /\ tail.carry # <<>> /\ Head(tail.carry).kind = "Status"
                      THEN excuses \union {"carried"} ELSE excuses
        /\ UNCHANGED <<logVars, session, asked, saved>>

-----------------------------------------------------------------------------
Init ==
    /\ files = <<<<>>>> /\ past = <<[born |-> 0, begun |-> <<>>]>> /\ version = 1 /\ written = 0
    /\ session = 0 /\ pc = "down" /\ asked = FALSE
    /\ tail = NoTail /\ handle = 0 /\ ident = None /\ recreated = FALSE
    /\ dirty = FALSE /\ saved = NotSaved
    /\ posted = {} /\ twice = {}
    /\ excuses = {}

Ame == AmeWrites \/ AmeReplaces \/ AmeTruncates
Thread == \/ Poll \/ Identify \/ ReadChunk \/ ReadFails \/ Harvest \/ Save
          \/ ThreadEnds
Next == Ame \/ Thread \/ Start \/ StopSignal \/ StopJoins \/ Crash

Spec == Init /\ [][Next]_vars

-----------------------------------------------------------------------------
(* Properties.                                                             *)

\* An export is reported live once, whatever the appends, the stops and the
\* replacements of the log: a second report needs a crash before the offsets
\* were saved, or a log replaced between the open and identity().
LiveOnce == twice # {} => excuses \intersect {"crash", "raced"} # {}

\* The history of before the first start is never reported as live, unless
\* the first pass over it was cut short, or its last status had no line end yet
\* and so came with the next read.
HistoryIsSeed ==
    \A e \in posted : e.at = 0 /\ ~e.seed => excuses \intersect {"cut", "carried"} # {}

\* What is written to state.json of a log that is still the same file is the
\* start of a line, so that the parser of the next session never sees half of one.
SavedAtLineStart ==
    (saved.ident.valid /\ saved.ident.file = Log /\ "raced" \notin excuses
        /\ "truncated" \notin excuses) =>
    saved.offset <= 1 \/ Text[saved.offset].kind = "nl"

\* A record never mixes two exports, and has every line of its own that the
\* session was fed: the source is missing only when the session went on behind
\* it, the reason of a failure only when the pass ended before it.
RecordsAreWhole ==
    excuses \intersect {"raced", "truncated"} = {} =>
        \A e \in posted :
            /\ e.block \in Blocks
            /\ e.source = IF <<"Field", "Source File">> \in e.fed THEN e.block ELSE 0
            /\ e.reason = IF <<"Text", "">> \in e.fed THEN {e.block} ELSE {}

\* When a round finds nothing to read, every export that is whole in the log,
\* and has a line after it, has been reported, by this session or another.  Two
\* are not: one whose fields lie before an offset at which a session went on,
\* and its status behind; and one that lies behind the end of a pass that was
\* cut short, which stays unread until the log changes again.
Output(b) == CHOOSE i \in LinesOf(b, Text) : Text[i].key = "Output File"
Status(b) == CHOOSE i \in LinesOf(b, Text) : Text[i].kind = "Status"
Ended(b) == (\E i \in LinesOf(b, Text) : Text[i].key = "Output File")
            /\ (\E i \in LinesOf(b, Text) : Text[i].kind = "Status" /\ i < LastNl(Text))
Split(b) == \E o \in Range(past[Log].begun) : Output(b) <= o /\ o < Status(b)
Unread(b) == tail.offset - Len(tail.carry) < Status(b) /\ excuses \intersect {"cut", "short"} # {}
NothingLeftBehind ==
    (pc = "wait" /\ ~asked /\ ~Changed /\ excuses \intersect {"raced", "truncated"} = {}) =>
        \A b \in Blocks : Ended(b) =>
            (\E e \in posted : e.block = b) \/ Split(b) \/ Unread(b)
=============================================================================
