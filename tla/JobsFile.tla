----------------------------- MODULE JobsFile -----------------------------
(* jobs.json: how JobStore turns a job into a JSON object and back (one field *)
(* of each kind), load and save of the table with its next id, and a file that *)
(* a newer program or a user has changed in between.                           *)
EXTENDS Integers, SequencesExt, FiniteSetsExt

CONSTANTS
    MaxId,       \* bound: the ids handed out
    MaxItems,    \* kMaxArrayItems
    MaxEdits     \* bound: edits of the file by others

VARIABLES
    up,         \* the program runs
    table,      \* jobs_: the job of an id
    nextId,     \* nextId_
    dirty,      \* dirty_
    file,       \* jobs.json
    written,    \* the table at the last save that reached the file
    hurt,       \* ids whose object somebody has changed since
    numbered,   \* no load has failed and nobody has touched the file's numbers
    edits

vars == <<up, table, nextId, dirty, file, written, hurt, numbered, edits>>

-----------------------------------------------------------------------------
(* JSON values.  Numbers are as wide as the fields they go to: 64 bits are    *)
(* 0..9, 32 bits 0..3 or -2..1.                                               *)
U64 == 0..9
U32 == 0..3
Int32 == -2..1
Gone == [gone |-> TRUE]
Text(v) == [text |-> v]
Num(v) == [num |-> v]
Flag(v) == [flag |-> v]
List(v) == [list |-> v]
Holds(value, kind) == kind \in DOMAIN value

Clamp(v, S) == IF v \in S THEN v ELSE IF v < Min(S) THEN Min(S) ELSE Max(S)

JobStates == {"Discovered", "Encoding", "Ready", "Held", "Muxing", "Verifying",
              "Done", "Failed", "SkippedSdr", "Cancelled"}
Transfers == {"Unknown", "PQ", "HLG", "SDR"}

(* The getters keep what was there when the value is missing or of another    *)
(* kind, and clamp a number.                                                  *)
GetWide(value, old) == IF Holds(value, "text") THEN value.text ELSE old
GetNumber(value, S, old) == IF Holds(value, "num") THEN Clamp(value.num, S) ELSE old
GetBool(value, old) ==
    IF Holds(value, "flag") THEN value.flag
    ELSE IF Holds(value, "num") THEN value.num # 0 ELSE old
GetEnum(value, Names, old) ==
    IF Holds(value, "text") /\ value.text \in Names THEN value.text ELSE old
GetWideArray(value, old) ==
    IF ~Holds(value, "list") THEN old
    ELSE LET texts == SelectSeq(value.list, LAMBDA item : item # "number")
         IN SubSeq(texts, 1, Min({Len(texts), MaxItems}))

(* An override that was never given is the empty set.                         *)
GetOptional(value, kind) ==
    CASE kind = "text" /\ Holds(value, "text") -> {value.text}
      [] kind = "flag" /\ (Holds(value, "flag") \/ Holds(value, "num")) -> {GetBool(value, FALSE)}
      [] OTHER -> {}

-----------------------------------------------------------------------------
NewJob == [id |-> 0, generation |-> 1, state |-> "Discovered", phase |-> "", progress |-> 0,
           transfer |-> "Unknown", width |-> 0, lut |-> {}, attach |-> {}, hold |-> FALSE,
           notes |-> <<>>]
Fields == DOMAIN NewJob

Optional(S, value(_)) == IF S = {} THEN Gone ELSE value(CHOOSE v \in S : TRUE)

JobToObject(job) ==
    [id |-> Num(job.id), generation |-> Num(job.generation), state |-> Text(job.state),
     phase |-> Text(job.phase), progress |-> Num(job.progress), transfer |-> Text(job.transfer),
     width |-> Num(job.width), lut |-> Optional(job.lut, Text),
     attach |-> Optional(job.attach, Flag), hold |-> Flag(job.hold), notes |-> List(job.notes)]

(* A generation of 0 becomes 1; the progress goes from 0 to 2 halves.         *)
JobFromObject(o) ==
    [id |-> GetNumber(o.id, U64, 0),
     generation |-> Max({1, GetNumber(o.generation, U32, 1)}),
     state |-> GetEnum(o.state, JobStates, "Discovered"),
     phase |-> GetWide(o.phase, ""),
     progress |-> Clamp(GetNumber(o.progress, -9..9, 0), 0..2),
     transfer |-> GetEnum(o.transfer, Transfers, "Unknown"),
     width |-> GetNumber(o.width, Int32, 0),
     lut |-> GetOptional(o.lut, "text"), attach |-> GetOptional(o.attach, "flag"),
     hold |-> GetBool(o.hold, FALSE), notes |-> GetWideArray(o.notes, <<>>)]

Interrupted(job) ==
    IF job.state \in {"Muxing", "Verifying"}
    THEN [job EXCEPT !.state = "Failed", !.phase = "", !.progress = 0] ELSE job

-----------------------------------------------------------------------------
NoFile == [kind |-> "none", rows |-> <<>>, next |-> Gone]
NoJobs == [id \in {} |-> NewJob]

(* The jobs of the rows: one that is no object or has no id is skipped, and   *)
(* so is a second one of an id.                                               *)
LoadedJobs(rows) ==
    LET Row(jobs, row) ==
            LET job == JobFromObject(row.o)
            IN IF ~row.object \/ job.id = 0 \/ job.id \in DOMAIN jobs THEN jobs
               ELSE (job.id :> Interrupted(job)) @@ jobs
    IN FoldLeft(Row, NoJobs, rows)

BugNextOf(next, jobs) == Max({1} \union {Min({id + 1, Max(U64)}) : id \in DOMAIN jobs})
NextOf(next, jobs) ==
    Max({1, GetNumber(next, U64, 0)} \union {Min({id + 1, Max(U64)}) : id \in DOMAIN jobs})

StoredJobs(jobs) ==
    [i \in 1..Cardinality(DOMAIN jobs) |->
        LET id == CHOOSE x \in DOMAIN jobs : Cardinality({y \in DOMAIN jobs : y <= x}) = i
        IN [object |-> TRUE, o |-> JobToObject(jobs[id])]]

-----------------------------------------------------------------------------
Init ==
    /\ up = FALSE /\ table = NoJobs /\ nextId = 1 /\ dirty = FALSE
    /\ file = NoFile /\ written = NoJobs /\ hurt = {} /\ numbered = TRUE /\ edits = 0

(* JobStore::load of a new process.  A file that cannot be read or is no JSON *)
(* leaves the new store as it is.                                             *)
Load(readable) ==
    /\ ~up /\ up' = TRUE
    /\ LET loads == readable /\ file.kind # "torn"
           jobs == IF loads /\ file.kind = "jobs" THEN LoadedJobs(file.rows) ELSE NoJobs
           raw == {JobFromObject(file.rows[i].o) : i \in DOMAIN file.rows}
       IN /\ table' = jobs
          /\ nextId' = IF loads /\ file.kind = "jobs" THEN NextOf(file.next, jobs) ELSE 1
          /\ dirty' = (\E id \in DOMAIN jobs : jobs[id] \notin raw)
          /\ numbered' = (numbered /\ loads)
    /\ UNCHANGED <<file, written, hurt, edits>>

FreeId == Min({id \in nextId..(Max(U64) + 1) : id \notin DOMAIN table})
Create ==
    /\ up /\ FreeId <= MaxId
    /\ table' = (FreeId :> [NewJob EXCEPT !.id = FreeId]) @@ table
    /\ nextId' = FreeId + 1 /\ dirty' = TRUE
    /\ UNCHANGED <<up, file, written, hurt, numbered, edits>>

(* What the engine and the user make of a new job: one in a mux, one that     *)
(* was exported again, one that is held with overrides.                       *)
Change(id) ==
    /\ up /\ table[id] = [NewJob EXCEPT !.id = id] /\ dirty' = TRUE
    /\ \E job \in {[table[id] EXCEPT !.state = "Muxing", !.phase = "muxing", !.progress = 1],
                   [table[id] EXCEPT !.state = "Done", !.generation = 2, !.width = 1, !.attach = {FALSE}],
                   [table[id] EXCEPT !.state = "Held", !.lut = {""}, !.hold = TRUE, !.transfer = "PQ",
                                     !.notes = <<"a", "b">>]} :
          table' = [table EXCEPT ![id] = job]
    /\ UNCHANGED <<up, nextId, file, written, hurt, numbered, edits>>

Removes(id) ==
    /\ up /\ dirty' = TRUE /\ table' = Restrict(table, DOMAIN table \ {id})
    /\ UNCHANGED <<up, nextId, file, written, hurt, numbered, edits>>

(* JobStore::save: the whole table through a temporary file, or not at all.   *)
Save(writable) ==
    /\ up /\ dirty
    /\ IF writable
       THEN /\ file' = [kind |-> "jobs", rows |-> StoredJobs(table), next |-> Num(nextId)]
            /\ written' = table /\ hurt' = {} /\ dirty' = FALSE
       ELSE UNCHANGED <<file, written, hurt, dirty>>
    /\ UNCHANGED <<up, table, nextId, numbered, edits>>

Ends ==
    /\ up /\ up' = FALSE
    /\ table' = NoJobs /\ nextId' = 1 /\ dirty' = FALSE
    /\ UNCHANGED <<file, written, hurt, numbered, edits>>

-----------------------------------------------------------------------------
(* The file in other hands: a value that is missing, of another kind, out of  *)
(* range or of a newer version; a row that is no object; a second row of an   *)
(* id; another next id; a file that is no JSON or is gone.                    *)
Strange == {Gone, Text("newer"), Num(-9), Num(9), Flag(TRUE), List(<<"a", "number", "b", "c">>)}
IdAt(i) == JobFromObject(file.rows[i].o).id
Edited(i) == hurt' = hurt \union {IdAt(i), JobFromObject(file'.rows[i].o).id}

EditsField(i, f, value) ==
    /\ file' = [file EXCEPT !.rows[i].o[f] = value]
    /\ Edited(i) /\ numbered' = (numbered /\ f # "id")
EditsOverrides(i) ==
    /\ file' = [file EXCEPT !.rows[i].o =
                  [@ EXCEPT !.lut = Gone, !.attach = Gone, !.hold = Gone]]
    /\ Edited(i) /\ UNCHANGED numbered
EditsRow(i) ==
    /\ file' = [file EXCEPT !.rows[i].object = FALSE]
    /\ Edited(i) /\ UNCHANGED numbered
Doubles(i) ==
    /\ file' = [file EXCEPT !.rows = Append(@, [@[i] EXCEPT !.o.state = Text("Ready")])]
    /\ UNCHANGED <<hurt, numbered>>
EditsNext(value) ==
    /\ file' = [file EXCEPT !.next = value] /\ numbered' = FALSE /\ UNCHANGED hurt
Loses(kind) ==
    /\ file' = [NoFile EXCEPT !.kind = kind] /\ numbered' = FALSE
    /\ hurt' = hurt \union DOMAIN written

Edits ==
    /\ ~up /\ file.kind = "jobs" /\ edits < MaxEdits /\ edits' = edits + 1
    /\ \/ \E i \in DOMAIN file.rows :
            \/ \E f \in Fields, value \in Strange : EditsField(i, f, value)
            \/ EditsOverrides(i)
            \/ EditsRow(i)
            \/ Doubles(i)
       \/ \E value \in Strange : EditsNext(value)
       \/ \E kind \in {"none", "blank", "torn"} : Loses(kind)
    /\ UNCHANGED <<up, table, nextId, dirty, written>>

Next ==
    \/ \E readable \in BOOLEAN : Load(readable)
    \/ Create
    \/ \E id \in DOMAIN table : Change(id) \/ Removes(id)
    \/ \E writable \in BOOLEAN : Save(writable)
    \/ Ends
    \/ Edits

Spec == Init /\ [][Next]_vars

-----------------------------------------------------------------------------
(* A job whose object nobody has touched comes back from the file as it was   *)
(* saved, or failed when it was in a mux, whatever has become of the rest of  *)
(* the file: every field that is written is read, overrides that were never   *)
(* given stay so, and a bad row or value costs nothing but itself             *)
(* (JobStore.cpp:300-507, 814-839).                                           *)
JobsComeBack ==
    file.kind = "jobs" =>
        LET loaded == LoadedJobs(file.rows)
        IN /\ \A id \in DOMAIN written \ hurt :
                id \in DOMAIN loaded /\ loaded[id] = Interrupted(written[id])
           /\ DOMAIN loaded \subseteq DOMAIN written \union hurt

(* Of every step: an id that has been saved is never given to another job,   *)
(* not even after its job was removed and the program started again; unless  *)
(* the file could not be read, which starts the ids at 1                      *)
(* (JobStore.cpp:565-571, 803-846).                                           *)
IdsAreNew ==
    numbered /\ up => \A id \in DOMAIN table' \ DOMAIN table :
        id \notin DOMAIN written /\ (Holds(file.next, "num") => id >= file.next.num)
=============================================================================
