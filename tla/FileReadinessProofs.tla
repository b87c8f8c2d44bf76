------------------------- MODULE FileReadinessProofs -------------------------
(* Proofs about FileReadiness, for any jobs, any number of schedule() calls  *)
(* per job and any changes of the files: the type invariant, one verdict per *)
(* probe, a map that holds the live probe of each job, and no Ready before   *)
(* two equal looks at the size.                                              *)
EXTENDS FileReadiness, FiniteSetTheorems, TLAPS

-----------------------------------------------------------------------------
(* The inductive invariant *)

EarlyPcs == {"verdict", "exists", "open", "size"}
LatePcs == {"sidecars", "structure", "confirmation"}
RunPcs == EarlyPcs \cup LatePcs
Busy == pc \in RunPcs \cup {"merge"}

\* The worker's copy is of the probe that is in the map.
Current(j) == Busy /\ job = j /\ probes[j].gen = copy.gen

\* A probe that has not measured a size has no timers that depend on one.
InOrder(p) == p.sizeChange = "off" => p.lastSize = 0 /\ p.firstReady = "off"

(* The worker holds a probe from TakeProbe to Merge, one that was scheduled. *)
HoldsCopy ==
    /\ IF Busy THEN copy \in Probe /\ InOrder(copy) /\ fate[job][copy.gen] # "unused"
               ELSE copy = NoProbe
    /\ pc \in RunPcs => copy.due # "done"
    /\ pc \in LatePcs => copy.sizeChange # "off" /\ streak[job] = 2

(* Generations are given out in order, and the live one is in the map.       *)
Generations ==
    /\ \A j \in Jobs : \E n \in 0..MaxGen : \A g \in Gens : fate[j][g] # "unused" <=> g <= n
    /\ \A j \in Jobs : Exists(j) => fate[j][probes[j].gen] = "live" /\ probes[j].due # "done"
    /\ \A j \in Jobs, g \in Gens :
          fate[j][g] = "live" /\ uiPc # "stopped" => Exists(j) /\ probes[j].gen = g

(* A probe with a size has been looked at: the streak is of that probe, or   *)
(* of the copy that is about to replace it.  A newer probe has no size.      *)
Measured ==
    /\ \A j \in Jobs : Exists(j) /\ probes[j].sizeChange # "off" =>
          (streak[j] # 0 /\ looked[j] = probes[j].lastSize) \/ Current(j)
    /\ Busy /\ copy.sizeChange # "off" => streak[job] # 0 /\ looked[job] = copy.lastSize
    /\ Busy /\ Exists(job) /\ probes[job].gen # copy.gen => probes[job].sizeChange = "off"

(* A probe in the map has reported nothing, unless its last run waits to be  *)
(* merged.                                                                   *)
Reports ==
    /\ pc \in RunPcs => verdict[job][copy.gen] = "none"
    /\ pc = "merge" /\ copy.due # "done" => verdict[job][copy.gen] = "none"
    /\ pc = "merge" /\ copy.due = "done" => verdict[job][copy.gen] \in {"Ready", "Failed"}
    /\ \A j \in Jobs : Exists(j) =>
          \/ verdict[j][probes[j].gen] = "none"
          \/ pc = "merge" /\ copy.due = "done" /\ Current(j)
    /\ \A j \in Jobs : Exists(j) /\ probes[j].failed => told[j][probes[j].gen]
    /\ \A j \in Jobs, g \in Gens :
          /\ fate[j][g] = "unused" => verdict[j][g] = "none"
          /\ fate[j][g] = "done" => verdict[j][g] # "none"

VerdictsOf == {"none", "Ready", "Failed", "ReadyThenFailed", "FailedTwice", "other"}
Fates == {"unused", "live", "replaced", "cancelled", "done"}

Inv == TypeOK /\ HoldsCopy /\ Generations /\ Measured /\ Reports /\ OneVerdict

-----------------------------------------------------------------------------
(* Records: what a change of a probe's fields leaves *)

LEMMA DueSet ==
  ASSUME NEW c \in Probe, NEW d \in {"now", "later", "done"}
  PROVE  LET e == [c EXCEPT !.due = d]
         IN /\ e \in Probe /\ e.due = d
            /\ e.gen = c.gen /\ e.failed = c.failed /\ e.confirmed = c.confirmed
            /\ e.lastSize = c.lastSize /\ e.sizeChange = c.sizeChange /\ e.firstReady = c.firstReady
BY DEF Probe, Timers, Gens

LEMMA FirstReadySet ==
  ASSUME NEW c \in Probe, NEW t \in Timers
  PROVE  LET e == [c EXCEPT !.firstReady = t]
         IN /\ e \in Probe /\ e.firstReady = t
            /\ e.gen = c.gen /\ e.failed = c.failed /\ e.confirmed = c.confirmed /\ e.due = c.due
            /\ e.lastSize = c.lastSize /\ e.sizeChange = c.sizeChange
BY DEF Probe, Timers, Gens

LEMMA LastSeenSet ==
  ASSUME NEW c \in Probe
  PROVE  LET e == [c EXCEPT !.lastSeen = "on"]
         IN /\ e \in Probe
            /\ e.gen = c.gen /\ e.failed = c.failed /\ e.confirmed = c.confirmed /\ e.due = c.due
            /\ e.lastSize = c.lastSize /\ e.sizeChange = c.sizeChange /\ e.firstReady = c.firstReady
BY DEF Probe, Timers, Gens

Sized(c, n, t) == [c EXCEPT !.lastSize = n, !.sizeChange = t, !.firstReady = "off"]

LEMMA SizeSet ==
  ASSUME NEW c \in Probe, NEW n \in 0..2, NEW t \in Timers
  PROVE  LET e == Sized(c, n, t)
         IN /\ e \in Probe /\ e.lastSize = n /\ e.sizeChange = t /\ e.firstReady = "off"
            /\ e.gen = c.gen /\ e.failed = c.failed /\ e.confirmed = c.confirmed /\ e.due = c.due
<1> DEFINE c1 == [c EXCEPT !.lastSize = n]
           c2 == [c1 EXCEPT !.sizeChange = t]
           c3 == [c2 EXCEPT !.firstReady = "off"]
<1>1. /\ c1 \in Probe /\ c1.lastSize = n
      /\ c1.gen = c.gen /\ c1.failed = c.failed /\ c1.confirmed = c.confirmed /\ c1.due = c.due
  BY DEF Probe
<1> HIDE DEF c1
<1>2. /\ c2 \in Probe /\ c2.lastSize = c1.lastSize /\ c2.sizeChange = t
      /\ c2.gen = c1.gen /\ c2.failed = c1.failed /\ c2.confirmed = c1.confirmed /\ c2.due = c1.due
  BY <1>1 DEF Probe
<1> HIDE DEF c2
<1>3. /\ c3 \in Probe /\ c3.lastSize = c2.lastSize /\ c3.sizeChange = c2.sizeChange /\ c3.firstReady = "off"
      /\ c3.gen = c2.gen /\ c3.failed = c2.failed /\ c3.confirmed = c2.confirmed /\ c3.due = c2.due
  BY <1>2 DEF Probe, Timers
<1> HIDE DEF c3
<1>4. c3 = Sized(c, n, t)
  BY DEF c3, c2, c1, Sized
<1> QED BY <1>1, <1>2, <1>3, <1>4

LEMMA TimerSet ==
  ASSUME NEW c \in Probe, NEW field \in TimerFields, NEW t \in Timers
  PROVE  LET e == [c EXCEPT ![field] = t]
         IN /\ e \in Probe /\ e[field] = t
            /\ e.gen = c.gen /\ e.failed = c.failed /\ e.confirmed = c.confirmed /\ e.due = c.due
            /\ e.lastSize = c.lastSize
            /\ field # "sizeChange" => e.sizeChange = c.sizeChange
            /\ field # "firstReady" => e.firstReady = c.firstReady
            /\ c[field] \in Timers
BY DEF Probe, Timers, TimerFields

(* confirm() and fail() set a flag and let the probe run at once.            *)
Confirmed(c, d) == [c EXCEPT !.confirmed = TRUE, !.due = d]
Failing(c, d) == [c EXCEPT !.failed = TRUE, !.due = d]

LEMMA ConfirmedSet ==
  ASSUME NEW c \in Probe, NEW d \in {"now", "later", "done"}
  PROVE  LET e == Confirmed(c, d)
         IN /\ e \in Probe /\ e.due = d /\ e.gen = c.gen /\ e.failed = c.failed
            /\ e.lastSize = c.lastSize /\ e.sizeChange = c.sizeChange /\ e.firstReady = c.firstReady
<1> DEFINE c1 == [c EXCEPT !.confirmed = TRUE]
           c2 == [c1 EXCEPT !.due = d]
<1>1. /\ c1 \in Probe /\ c1.gen = c.gen /\ c1.failed = c.failed
      /\ c1.lastSize = c.lastSize /\ c1.sizeChange = c.sizeChange /\ c1.firstReady = c.firstReady
  BY DEF Probe
<1> HIDE DEF c1
<1>2. /\ c2 \in Probe /\ c2.due = d /\ c2.gen = c1.gen /\ c2.failed = c1.failed
      /\ c2.lastSize = c1.lastSize /\ c2.sizeChange = c1.sizeChange /\ c2.firstReady = c1.firstReady
  BY <1>1, DueSet
<1> HIDE DEF c2
<1>3. c2 = Confirmed(c, d)
  BY DEF c1, c2, Confirmed
<1> QED BY <1>1, <1>2, <1>3

LEMMA FailedSet ==
  ASSUME NEW c \in Probe, NEW d \in {"now", "later", "done"}
  PROVE  LET e == Failing(c, d)
         IN /\ e \in Probe /\ e.due = d /\ e.gen = c.gen
            /\ e.lastSize = c.lastSize /\ e.sizeChange = c.sizeChange /\ e.firstReady = c.firstReady
<1> DEFINE c1 == [c EXCEPT !.failed = TRUE]
           c2 == [c1 EXCEPT !.due = d]
<1>1. /\ c1 \in Probe /\ c1.gen = c.gen
      /\ c1.lastSize = c.lastSize /\ c1.sizeChange = c.sizeChange /\ c1.firstReady = c.firstReady
  BY DEF Probe
<1> HIDE DEF c1
<1>2. /\ c2 \in Probe /\ c2.due = d /\ c2.gen = c1.gen
      /\ c2.lastSize = c1.lastSize /\ c2.sizeChange = c1.sizeChange /\ c2.firstReady = c1.firstReady
  BY <1>1, DueSet
<1> HIDE DEF c2
<1>3. c2 = Failing(c, d)
  BY DEF c1, c2, Failing
<1> QED BY <1>1, <1>2, <1>3

MergedWith(c, l, d) == [c EXCEPT !.confirmed = l.confirmed, !.failed = l.failed, !.due = d]

LEMMA Merged ==
  ASSUME NEW c \in Probe, NEW l \in Probe, NEW d \in {"now", "later", "done"}
  PROVE  LET e == MergedWith(c, l, d)
         IN /\ e \in Probe /\ e.due = d /\ e.confirmed = l.confirmed /\ e.failed = l.failed
            /\ e.gen = c.gen /\ e.lastSize = c.lastSize
            /\ e.sizeChange = c.sizeChange /\ e.firstReady = c.firstReady
<1> DEFINE c1 == [c EXCEPT !.confirmed = l.confirmed]
           c2 == [c1 EXCEPT !.failed = l.failed]
           c3 == [c2 EXCEPT !.due = d]
<1>1. /\ c1 \in Probe /\ c1.confirmed = l.confirmed
      /\ c1.gen = c.gen /\ c1.lastSize = c.lastSize
      /\ c1.sizeChange = c.sizeChange /\ c1.firstReady = c.firstReady
  BY DEF Probe
<1> HIDE DEF c1
<1>2. /\ c2 \in Probe /\ c2.confirmed = l.confirmed /\ c2.failed = l.failed
      /\ c2.gen = c1.gen /\ c2.lastSize = c1.lastSize
      /\ c2.sizeChange = c1.sizeChange /\ c2.firstReady = c1.firstReady
  BY <1>1 DEF Probe
<1> HIDE DEF c2
<1>3. /\ c3 \in Probe /\ c3.due = d /\ c3.confirmed = c2.confirmed /\ c3.failed = c2.failed
      /\ c3.gen = c2.gen /\ c3.lastSize = c2.lastSize
      /\ c3.sizeChange = c2.sizeChange /\ c3.firstReady = c2.firstReady
  BY <1>2, DueSet
<1> HIDE DEF c3
<1>4. c3 = MergedWith(c, l, d)
  BY DEF c1, c2, c3, MergedWith
<1> QED BY <1>1, <1>2, <1>3, <1>4

LEMMA NoProbeFacts == NoProbe \notin Probe /\ NoProbe.gen = 0
BY DEF NoProbe, Probe, Gens

LEMMA NewProbeFacts ==
  ASSUME NEW g \in Gens, NEW b \in BOOLEAN
  PROVE  LET e == NewProbe(g, b)
         IN /\ e \in Probe /\ e.gen = g /\ ~e.failed /\ e.due = "now"
            /\ e.sizeChange = "off" /\ e.lastSize = 0 /\ e.firstReady = "off"
BY DEF NewProbe, Probe, Timers

-----------------------------------------------------------------------------
(* What every check of runProbe does: it goes on to a later check, puts the  *)
(* probe back, or ends it with its first verdict.                            *)

GoesOn == /\ pc' \in RunPcs /\ copy'.due # "done" /\ UNCHANGED verdict
          /\ pc' \in LatePcs => copy'.sizeChange # "off" /\ streak'[job] = 2
PutsBack == pc' = "merge" /\ copy'.due = "later" /\ UNCHANGED verdict
Ends == /\ pc' = "merge" /\ copy'.due = "done"
        /\ \E kind \in {"Ready", "Failed"} :
              /\ verdict' = [verdict EXCEPT ![job][copy.gen] = kind]
              /\ kind = "Ready" => streak[job] = 2

Outcome ==
    /\ pc \in RunPcs
    /\ UNCHANGED <<probes, uiVars, due, job, diskVars, fate, told>>
    /\ copy' \in Probe /\ copy'.gen = copy.gen /\ InOrder(copy')
    /\ seenSize' \in 0..2
    /\ streak' \in [Jobs -> 0..2] /\ \A j \in Jobs : j # job => streak'[j] = streak[j]
    /\ looked' \in [Jobs -> 0..2] /\ \A j \in Jobs : j # job => looked'[j] = looked[j]
    /\ copy'.sizeChange # "off" => streak'[job] # 0 /\ looked'[job] = copy'.lastSize
    /\ GoesOn \/ PutsBack \/ Ends

LEMMA AgainFacts ==
  ASSUME NEW c \in Probe, c.gen = copy.gen, InOrder(c), Again(c)
  PROVE  /\ copy' \in Probe /\ copy'.gen = copy.gen /\ InOrder(copy')
         /\ copy'.sizeChange = c.sizeChange /\ copy'.lastSize = c.lastSize
         /\ PutsBack
BY DueSet DEF Again, PutsBack, InOrder

LEMMA EndFacts ==
  ASSUME Inv, pc \in RunPcs, NEW kind \in {"Ready", "Failed"}, End(kind),
         kind = "Ready" => streak[job] = 2
  PROVE  /\ copy' \in Probe /\ copy'.gen = copy.gen /\ InOrder(copy')
         /\ copy'.sizeChange = copy.sizeChange /\ copy'.lastSize = copy.lastSize
         /\ Ends
<1>1. copy \in Probe /\ InOrder(copy) /\ verdict[job][copy.gen] = "none"
  BY DEF Inv, HoldsCopy, Reports, Busy
<1>2. /\ copy' \in Probe /\ copy'.gen = copy.gen /\ InOrder(copy')
      /\ copy'.sizeChange = copy.sizeChange /\ copy'.lastSize = copy.lastSize /\ copy'.due = "done"
  BY <1>1, DueSet DEF End, InOrder
<1>3. job \in Jobs /\ copy.gen \in Gens /\ verdict \in [Jobs -> [Gens -> VerdictsOf]]
  BY <1>1 DEF Inv, TypeOK, Probe, VerdictsOf
<1>4. verdict' = [verdict EXCEPT ![job][copy.gen] = kind]
  BY <1>1, <1>3 DEF End, Post, Said
<1> QED BY <1>2, <1>4 DEF End, Ends

LEMMA CheckOutcome ==
  ASSUME Inv,
         \/ CheckVerdict \/ CheckExists \/ CheckOpen \/ CheckSize
         \/ CheckSidecars \/ CheckBoxes \/ CheckConfirmation
  PROVE  Outcome
<1> DEFINE Held == /\ copy \in Probe /\ InOrder(copy) /\ copy.due # "done"
                   /\ copy.sizeChange # "off" => streak[job] # 0 /\ looked[job] = copy.lastSize
<1>1. pc \in RunPcs => Held
  BY DEF Inv, HoldsCopy, Measured, Busy
<1>2. /\ job \in Jobs /\ file[job] \in File /\ seenSize \in 0..2
      /\ streak \in [Jobs -> 0..2] /\ looked \in [Jobs -> 0..2]
      /\ pc \in LatePcs => copy.sizeChange # "off" /\ streak[job] = 2
  BY DEF Inv, TypeOK, HoldsCopy
<1>3. Held => LET c == [copy EXCEPT !.firstReady = "off"]
              IN /\ c \in Probe /\ c.gen = copy.gen /\ InOrder(c)
                 /\ c.sizeChange = copy.sizeChange /\ c.lastSize = copy.lastSize
  BY FirstReadySet DEF InOrder, Timers
<1> HIDE DEF Held
<1>4. CASE CheckVerdict
  <2>1. pc \in RunPcs /\ Held /\ UNCHANGED <<streak, looked, seenSize>>
    BY <1>1, <1>4 DEF CheckVerdict, RunPcs, EarlyPcs, lookVars
  <2>2. CASE copy.failed \/ copy.start = "over"
    BY <1>2, <1>4, <2>1, <2>2, EndFacts DEF CheckVerdict, Outcome, Frame, Held
  <2>3. CASE ~(copy.failed \/ copy.start = "over")
    BY <1>2, <1>4, <2>1, <2>3 DEF CheckVerdict, Outcome, Frame, Held, GoesOn, RunPcs, EarlyPcs, LatePcs
  <2> QED BY <2>2, <2>3
<1>5. CASE CheckExists
  <2>1. pc \in RunPcs /\ Held
    BY <1>1, <1>5 DEF CheckExists, RunPcs, EarlyPcs
  <2>2. CASE file[job].state = "absent" /\ copy.lastSeen = "over"
    BY <1>2, <1>5, <2>1, <2>2, EndFacts DEF CheckExists, Outcome, Frame, Held, lookVars
  <2>3. CASE file[job].state = "absent" /\ copy.lastSeen # "over"
    <3> DEFINE c == [copy EXCEPT !.lastSize = 0, !.sizeChange = "off", !.firstReady = "off"]
    <3>1. c \in Probe /\ c.gen = copy.gen /\ InOrder(c) /\ c.sizeChange = "off"
      <4>1. /\ copy \in Probe /\ 0 \in 0..2 /\ "off" \in Timers
            /\ c = Sized(copy, 0, "off")
        BY <2>1 DEF Held, Timers, Sized
      <4> HIDE DEF c
      <4>2. c \in Probe /\ c.gen = copy.gen /\ c.lastSize = 0 /\ c.sizeChange = "off" /\ c.firstReady = "off"
        BY <4>1, SizeSet
      <4> QED BY <4>2 DEF InOrder
    <3>2. Again(c) /\ streak' = [streak EXCEPT ![job] = 0] /\ UNCHANGED <<seenSize, looked>>
      BY <1>5, <2>3 DEF CheckExists
    <3> HIDE DEF c
    <3> QED BY <1>2, <1>5, <2>1, <3>1, <3>2, AgainFacts DEF CheckExists, Outcome, Frame
  <2>4. CASE file[job].state = "directory"
    BY <1>2, <1>5, <2>1, <2>4, EndFacts DEF CheckExists, Outcome, Frame, Held, lookVars
  <2>5. CASE file[job].state \notin {"absent", "directory"}
    <3>1. /\ copy' = [copy EXCEPT !.lastSeen = "on"] /\ seenSize' = SizeOf(file[job])
          /\ pc' = "open" /\ UNCHANGED <<verdict, streak, looked>>
      BY <1>5, <2>5 DEF CheckExists, lookVars
    <3>2. SizeOf(file[job]) \in 0..2
      BY <1>2 DEF File, SizeOf
    <3>3. /\ copy' \in Probe /\ copy'.gen = copy.gen /\ InOrder(copy') /\ copy'.due # "done"
          /\ copy'.sizeChange = copy.sizeChange /\ copy'.lastSize = copy.lastSize
      BY <2>1, <3>1, LastSeenSet DEF Held, InOrder
    <3> QED BY <1>2, <1>5, <2>1, <3>1, <3>2, <3>3 DEF CheckExists, Outcome, Frame, Held, GoesOn, RunPcs, EarlyPcs, LatePcs
  <2> QED BY <2>2, <2>3, <2>4, <2>5
<1>6. CASE CheckOpen
  <2>1. pc \in RunPcs /\ Held /\ UNCHANGED <<streak, looked, seenSize>>
    BY <1>1, <1>6 DEF CheckOpen, RunPcs, EarlyPcs, lookVars
  <2>2. CASE End("Failed")
    BY <1>2, <1>6, <2>1, <2>2, EndFacts DEF CheckOpen, Outcome, Frame, Held
  <2>3. CASE Again([copy EXCEPT !.firstReady = "off"])
    BY <1>2, <1>3, <1>6, <2>1, <2>3, AgainFacts DEF CheckOpen, Outcome, Frame, Held
  <2>4. CASE pc' = "size" /\ UNCHANGED <<copy, verdict>>
    BY <1>2, <1>6, <2>1, <2>4 DEF CheckOpen, Outcome, Frame, Held, GoesOn, RunPcs, EarlyPcs, LatePcs
  <2> QED BY <1>6, <2>2, <2>3, <2>4 DEF CheckOpen
<1>7. CASE CheckSize
  <2> DEFINE changed == copy.sizeChange = "off" \/ seenSize # copy.lastSize
  <2>1. /\ pc \in RunPcs /\ Held /\ seenSize' = seenSize
        /\ streak' = [streak EXCEPT ![job] = IF @ > 0 /\ looked[job] = seenSize THEN 2 ELSE 1]
        /\ looked' = [looked EXCEPT ![job] = seenSize]
    BY <1>1, <1>7 DEF CheckSize, Look, RunPcs, EarlyPcs
  <2>2. /\ streak' \in [Jobs -> 0..2] /\ streak'[job] # 0
        /\ looked' \in [Jobs -> 0..2] /\ looked'[job] = seenSize
        /\ \A j \in Jobs : j # job => streak'[j] = streak[j] /\ looked'[j] = looked[j]
        /\ ~changed => copy.sizeChange # "off" /\ streak'[job] = 2
    BY <1>2, <2>1 DEF Held
  <2>3. CASE changed
    <3> DEFINE c == [copy EXCEPT !.lastSize = seenSize, !.sizeChange = "on", !.firstReady = "off"]
    <3>1. c \in Probe /\ c.gen = copy.gen /\ InOrder(c) /\ c.lastSize = seenSize
      <4>1. /\ copy \in Probe /\ seenSize \in 0..2 /\ "on" \in Timers
            /\ c = Sized(copy, seenSize, "on")
        BY <1>2, <2>1 DEF Held, Timers, Sized
      <4> HIDE DEF c
      <4>2. c \in Probe /\ c.gen = copy.gen /\ c.lastSize = seenSize /\ c.sizeChange = "on" /\ c.firstReady = "off"
        BY <4>1, SizeSet, SMTT(30)
      <4> QED BY <4>2 DEF InOrder
    <3>2. Again(c)
      BY <1>7, <2>3 DEF CheckSize
    <3> HIDE DEF c
    <3> QED BY <1>2, <1>7, <2>1, <2>2, <3>1, <3>2, AgainFacts DEF CheckSize, Outcome, Frame
  <2>4. CASE ~changed /\ Again([copy EXCEPT !.firstReady = "off"])
    BY <1>2, <1>3, <1>7, <2>1, <2>2, <2>4, AgainFacts DEF CheckSize, Outcome, Frame
  <2>5. CASE ~changed /\ pc' = "sidecars" /\ UNCHANGED <<copy, verdict>>
    BY <1>2, <1>7, <2>1, <2>2, <2>5 DEF CheckSize, Outcome, Frame, Held, GoesOn, RunPcs, LatePcs
  <2> QED BY <1>7, <2>3, <2>4, <2>5 DEF CheckSize
<1>8. CASE CheckSidecars
  <2>1. /\ pc \in RunPcs /\ pc \in LatePcs /\ Held /\ UNCHANGED <<streak, looked, seenSize>>
    BY <1>1, <1>8 DEF CheckSidecars, RunPcs, LatePcs, lookVars
  <2>2. CASE Again([copy EXCEPT !.firstReady = "off"])
    BY <1>2, <1>3, <1>8, <2>1, <2>2, AgainFacts DEF CheckSidecars, Outcome, Frame, Held
  <2>3. CASE pc' = "structure" /\ UNCHANGED <<copy, verdict>>
    BY <1>2, <1>8, <2>1, <2>3 DEF CheckSidecars, Outcome, Frame, Held, GoesOn, RunPcs, LatePcs
  <2> QED BY <1>8, <2>2, <2>3 DEF CheckSidecars
<1>9. CASE CheckBoxes
  <2>1. /\ pc \in RunPcs /\ pc \in LatePcs /\ Held /\ UNCHANGED <<streak, looked, seenSize>>
    BY <1>1, <1>9 DEF CheckBoxes, RunPcs, LatePcs, lookVars
  <2>2. CASE Again([copy EXCEPT !.firstReady = "off"])
    BY <1>2, <1>3, <1>9, <2>1, <2>2, AgainFacts DEF CheckBoxes, Outcome, Frame, Held
  <2>3. CASE pc' = "confirmation" /\ UNCHANGED <<copy, verdict>>
    BY <1>2, <1>9, <2>1, <2>3 DEF CheckBoxes, Outcome, Frame, Held, GoesOn, RunPcs, LatePcs
  <2> QED BY <1>9, <2>2, <2>3 DEF CheckBoxes
<1>10. CASE CheckConfirmation
  <2> DEFINE c == [copy EXCEPT !.firstReady = IF @ = "off" THEN "on" ELSE @]
  <2>1. /\ pc \in RunPcs /\ pc \in LatePcs /\ Held /\ UNCHANGED <<streak, looked, seenSize>>
    BY <1>1, <1>10 DEF CheckConfirmation, RunPcs, LatePcs, lookVars
  <2>2. copy.firstReady \in Timers
    BY <2>1 DEF Held, Probe
  <2>3. /\ c \in Probe /\ c.gen = copy.gen /\ InOrder(c)
        /\ c.sizeChange = copy.sizeChange /\ c.lastSize = copy.lastSize
    <3> DEFINE t == IF copy.firstReady = "off" THEN "on" ELSE copy.firstReady
    <3>1. copy \in Probe /\ t \in Timers /\ copy.sizeChange # "off"
      BY <1>2, <2>1, <2>2 DEF Held, Timers
    <3>2. c = [copy EXCEPT !.firstReady = t]
      OBVIOUS
    <3> HIDE DEF c, t
    <3> QED BY <3>1, <3>2, FirstReadySet DEF InOrder
  <2>4. Again(c) \/ End("Ready")
    BY <1>10 DEF CheckConfirmation
  <2>5. CASE Again(c)
    <3> HIDE DEF c
    <3> QED BY <1>2, <1>10, <2>1, <2>3, <2>5, AgainFacts DEF CheckConfirmation, Outcome, Frame, Held
  <2>6. CASE End("Ready")
    BY <1>2, <1>10, <2>1, <2>6, EndFacts DEF CheckConfirmation, Outcome, Frame, Held
  <2> QED BY <2>4, <2>5, <2>6
<1> QED BY <1>4, <1>5, <1>6, <1>7, <1>8, <1>9, <1>10

-----------------------------------------------------------------------------
(* The invariant holds at the start *)

LEMMA InitInv == Init => Inv
<1> SUFFICES ASSUME Init PROVE Inv
  OBVIOUS
<1>1. TypeOK
  <2>1. /\ changes \in 0..MaxChanges /\ seenSize \in 0..2
        /\ streak \in [Jobs -> 0..2] /\ looked \in [Jobs -> 0..2]
    BY BoundsAssumption DEF Init
  <2> QED BY <2>1 DEF Init, TypeOK, Exists
<1>2. HoldsCopy /\ Measured /\ Reports /\ OneVerdict
  BY DEF Init, HoldsCopy, Measured, Reports, OneVerdict, Busy, RunPcs, EarlyPcs, LatePcs, Exists
<1>3. Generations
  <2>1. \A j \in Jobs : \A g \in Gens : fate[j][g] # "unused" <=> g <= 0
    BY BoundsAssumption DEF Init, Gens
  <2>2. 0 \in 0..MaxGen
    BY BoundsAssumption
  <2>3. \A j \in Jobs : \E n \in 0..MaxGen : \A g \in Gens : fate[j][g] # "unused" <=> g <= n
    BY <2>1, <2>2
  <2> QED BY <2>3 DEF Init, Generations, Exists
<1> QED BY <1>1, <1>2, <1>3 DEF Inv

(* schedule() takes the next generation, which is not used yet.              *)
LEMMA NextGenIsNew ==
  ASSUME Inv, NEW j \in Jobs, NextGen(j) <= MaxGen
  PROVE  /\ NextGen(j) \in Gens
         /\ \A g \in Gens : fate[j][g] # "unused" <=> g < NextGen(j)
<1>1. PICK n \in 0..MaxGen : \A g \in Gens : fate[j][g] # "unused" <=> g <= n
  BY DEF Inv, Generations
<1>2. {g \in Gens : fate[j][g] # "unused"} = 1..n
  BY <1>1, BoundsAssumption DEF Gens
<1>3. Cardinality(1..n) = n
  BY FS_Interval
<1>4. NextGen(j) = n + 1
  BY <1>2, <1>3 DEF NextGen
<1> QED BY <1>1, <1>4, BoundsAssumption DEF Gens

-----------------------------------------------------------------------------
(* The UI thread *)

LEMMA ScheduleKeeps ==
  ASSUME Inv, NEW j \in Jobs, Schedule(j)
  PROVE  Inv'
<1> DEFINE g0 == NextGen(j)
<1>1. /\ g0 \in Gens /\ \A g \in Gens : fate[j][g] # "unused" <=> g < g0
  BY NextGenIsNew DEF Schedule
<1>2. PICK b \in BOOLEAN : probes' = [probes EXCEPT ![j] = NewProbe(g0, b)]
  BY DEF Schedule
<1>3. /\ probes \in [Jobs -> Probe \cup {NoProbe}] /\ fate \in [Jobs -> [Gens -> Fates]]
      /\ fate' = [fate EXCEPT ![j] = [g \in Gens |->
                   IF g = g0 THEN "live" ELSE IF fate[j][g] = "live" THEN "replaced" ELSE fate[j][g]]]
  BY DEF Inv, TypeOK, Schedule, Fates
<1>4. UNCHANGED <<running, uiPc, pc, due, job, copy, seenSize, file, changes, touched, told, verdict, streak, looked>> /\ uiPc = "ready"
  BY DEF Schedule, uiVars, workerVars, diskVars, lookVars
<1> HIDE DEF g0
<1>5. LET p == NewProbe(g0, b)
      IN /\ p \in Probe /\ p # NoProbe /\ p.gen = g0 /\ ~p.failed /\ p.due = "now"
         /\ p.sizeChange = "off" /\ p.lastSize = 0 /\ p.firstReady = "off"
  BY <1>1, NewProbeFacts, NoProbeFacts
<1>6. /\ probes'[j] = NewProbe(g0, b) /\ \A k \in Jobs : k # j => probes'[k] = probes[k] /\ fate'[k] = fate[k]
      /\ \A g \in Gens : /\ fate'[j][g] = "live" <=> g = g0
                         /\ fate'[j][g] = "unused" <=> fate[j][g] = "unused" /\ g # g0
                         /\ fate'[j][g] = "done" <=> fate[j][g] = "done"
  <2>1. probes'[j] = NewProbe(g0, b) /\ \A k \in Jobs : k # j => probes'[k] = probes[k] /\ fate'[k] = fate[k]
    BY <1>2, <1>3
  <2>2. \A g \in Gens : fate'[j][g] = IF g = g0 THEN "live" ELSE IF fate[j][g] = "live" THEN "replaced" ELSE fate[j][g]
    BY <1>3
  <2>3. \A g \in Gens : fate[j][g] = "live" => g < g0
    BY <1>1
  <2>4. fate[j][g0] = "unused"
    BY <1>1 DEF Gens
  <2> QED BY <2>1, <2>2, <2>4
<1>7. TypeOK'
  BY <1>2, <1>3, <1>4, <1>5, <1>6 DEF Inv, TypeOK, Exists
<1>8. HoldsCopy'
  <2>1. Busy => job \in Jobs /\ copy.gen \in Gens
    BY DEF Inv, TypeOK, HoldsCopy, Probe
  <2> QED BY <1>1, <1>4, <1>6, <2>1 DEF Inv, HoldsCopy, Busy
<1>9. Generations'
  <2>1. \A k \in Jobs : \E n \in 0..MaxGen : \A g \in Gens : fate'[k][g] # "unused" <=> g <= n
    <3> SUFFICES ASSUME NEW k \in Jobs PROVE \E n \in 0..MaxGen : \A g \in Gens : fate'[k][g] # "unused" <=> g <= n
      OBVIOUS
    <3>1. CASE k = j
      <4>1. g0 \in 0..MaxGen /\ \A g \in Gens : fate'[k][g] # "unused" <=> g <= g0
        BY <1>1, <1>6, <3>1, BoundsAssumption DEF Gens
      <4> QED BY <4>1
    <3>2. CASE k # j
      BY <1>6, <3>2 DEF Inv, Generations
    <3> QED BY <3>1, <3>2
  <2>2. \A k \in Jobs : Exists(k)' => fate'[k][probes'[k].gen] = "live" /\ probes'[k].due # "done"
    BY <1>1, <1>5, <1>6 DEF Inv, Generations, Exists
  <2>3. \A k \in Jobs, g \in Gens : fate'[k][g] = "live" /\ uiPc' # "stopped" => Exists(k)' /\ probes'[k].gen = g
    BY <1>1, <1>4, <1>5, <1>6 DEF Inv, Generations, Exists
  <2> QED BY <2>1, <2>2, <2>3 DEF Generations
<1>10. Measured'
  <2>1. Measured /\ Busy' = Busy /\ \A k \in Jobs : k # j => Exists(k)' = Exists(k) /\ Current(k)' = Current(k)
    BY <1>4, <1>6 DEF Inv, Busy, Current, Exists
  <2>2. \A k \in Jobs : Exists(k)' /\ probes'[k].sizeChange # "off" =>
          (streak'[k] # 0 /\ looked'[k] = probes'[k].lastSize) \/ Current(k)'
    BY <1>4, <1>5, <1>6, <2>1 DEF Measured
  <2>3. Busy' /\ Exists(job)' /\ probes'[job].gen # copy'.gen => probes'[job].sizeChange = "off"
    BY <1>4, <1>5, <1>6, <2>1 DEF Inv, TypeOK, Measured, Exists
  <2> QED BY <1>4, <2>1, <2>2, <2>3 DEF Measured
<1>11. Reports'
  <2>1. verdict[j][g0] = "none"
    BY <1>1 DEF Inv, Reports, Gens
  <2> QED BY <1>1, <1>4, <1>5, <1>6, <2>1 DEF Inv, Reports, Busy, Current, Exists
<1>12. OneVerdict'
  BY <1>4 DEF Inv, OneVerdict
<1> QED BY <1>7, <1>8, <1>9, <1>10, <1>11, <1>12 DEF Inv

(* What a step may do to a probe of the map, or to the copy, in place.       *)
Alike(e, c) ==
    /\ e \in Probe /\ c \in Probe /\ InOrder(e)
    /\ e.gen = c.gen
    /\ e.sizeChange = "off" <=> c.sizeChange = "off"
    /\ e.lastSize = c.lastSize

LEMMA EditKeeps ==
  ASSUME Inv, NEW j \in Jobs, Exists(j), NEW p, Alike(p, probes[j]), p.due # "done",
         probes' = [probes EXCEPT ![j] = p],
         told' \in [Jobs -> [Gens -> BOOLEAN]],
         \A k \in Jobs, g \in Gens : told[k][g] => told'[k][g],
         p.failed => told'[j][p.gen],
         copy' = copy \/ (Alike(copy', copy) /\ copy'.due = copy.due),
         UNCHANGED <<running, uiPc, pc, due, job, seenSize, file, changes, touched, fate, verdict, streak, looked>>
  PROVE  Inv'
<1>1. /\ probes \in [Jobs -> Probe \cup {NoProbe}] /\ p \in Probe /\ p # NoProbe /\ p.gen = probes[j].gen
      /\ probes'[j] = p /\ \A k \in Jobs : k # j => probes'[k] = probes[k]
      /\ \A k \in Jobs : probes'[k].gen = probes[k].gen /\ Exists(k)' = Exists(k)
      /\ p.sizeChange = "off" <=> probes[j].sizeChange = "off"
      /\ p.lastSize = probes[j].lastSize
  BY NoProbeFacts DEF Inv, TypeOK, Alike, Exists
<1>2. /\ copy'.gen = copy.gen /\ copy'.due = copy.due
      /\ copy'.sizeChange = "off" <=> copy.sizeChange = "off"
      /\ copy'.sizeChange # "off" => copy'.lastSize = copy.lastSize
      /\ copy' \in Probe \cup {NoProbe}
      /\ copy \in Probe => copy' \in Probe
      /\ copy \in Probe /\ InOrder(copy) => InOrder(copy')
      /\ copy = NoProbe => copy' = NoProbe
  BY NoProbeFacts DEF Alike, Inv, TypeOK
<1>3. Busy' = Busy /\ job' = job /\ \A k \in Jobs : Current(k)' = Current(k)
  BY <1>1, <1>2 DEF Busy, Current
<1>4. TypeOK'
  <2>1. \A k \in Jobs : Exists(k)' /\ probes'[k].sizeChange = "off" => probes'[k].lastSize = 0 /\ probes'[k].firstReady = "off"
    BY <1>1 DEF Inv, TypeOK, Exists, Alike, InOrder
  <2> QED BY <1>1, <1>2, <2>1 DEF Inv, TypeOK
<1>5. HoldsCopy'
  BY <1>2, <1>3 DEF Inv, HoldsCopy
<1>6. Generations'
  BY <1>1 DEF Inv, Generations, Exists
<1>7. Measured'
  <2>1. \A k \in Jobs : /\ probes'[k].sizeChange = "off" <=> probes[k].sizeChange = "off"
                        /\ Exists(k) => probes'[k].lastSize = probes[k].lastSize
    BY <1>1
  <2>2. \A k \in Jobs : Exists(k)' /\ probes'[k].sizeChange # "off" =>
          (streak'[k] # 0 /\ looked'[k] = probes'[k].lastSize) \/ Current(k)'
    BY <1>1, <1>3, <2>1 DEF Inv, Measured
  <2>3. Busy' /\ copy'.sizeChange # "off" => streak'[job'] # 0 /\ looked'[job'] = copy'.lastSize
    BY <1>2, <1>3 DEF Inv, Measured
  <2>4. Busy /\ Exists(job) /\ probes'[job].gen # copy'.gen => probes'[job].sizeChange = "off"
    BY <1>1, <1>2, <2>1 DEF Inv, TypeOK, Measured
  <2> QED BY <1>1, <1>3, <2>2, <2>3, <2>4 DEF Measured, Inv, TypeOK, Exists
<1>8. Reports'
  <2>1. \A k \in Jobs : Exists(k)' /\ probes'[k].failed => told'[k][probes'[k].gen]
    <3>1. \A k \in Jobs : Exists(k) => probes[k].gen \in Gens
      BY <1>1 DEF Exists, Probe
    <3> QED BY <1>1, <3>1 DEF Inv, Reports, Exists
  <2> QED BY <1>1, <1>2, <1>3, <2>1 DEF Inv, Reports
<1>9. OneVerdict'
  BY DEF Inv, OneVerdict
<1> QED BY <1>4, <1>5, <1>6, <1>7, <1>8, <1>9 DEF Inv

LEMMA ProbeInMap ==
  ASSUME Inv, NEW j \in Jobs, Exists(j)
  PROVE  /\ probes[j] \in Probe /\ InOrder(probes[j]) /\ probes[j].due \in {"now", "later"}
         /\ probes[j].gen \in Gens /\ (probes[j].failed => told[j][probes[j].gen])
BY DEF Inv, TypeOK, Exists, InOrder, Generations, Reports, Probe

LEMMA ConfirmKeeps ==
  ASSUME Inv, NEW j \in Jobs, Confirm(j)
  PROVE  Inv'
<1> DEFINE p == Confirmed(probes[j], "now")
<1>1. /\ Exists(j) /\ probes[j] \in Probe /\ InOrder(probes[j]) /\ probes[j].due \in {"now", "later"}
      /\ probes[j].gen \in Gens /\ (probes[j].failed => told[j][probes[j].gen])
  BY ProbeInMap DEF Confirm
<1>2. probes' = [probes EXCEPT ![j] = p]
  BY <1>1 DEF Confirm, Confirmed, Inv, TypeOK
<1>3. /\ p \in Probe /\ p.due = "now" /\ p.gen = probes[j].gen /\ p.failed = probes[j].failed
      /\ p.lastSize = probes[j].lastSize /\ p.sizeChange = probes[j].sizeChange /\ p.firstReady = probes[j].firstReady
  BY <1>1, ConfirmedSet
<1> HIDE DEF p
<1>4. Alike(p, probes[j])
  BY <1>1, <1>3 DEF Alike, InOrder
<1> QED BY <1>1, <1>2, <1>3, <1>4, EditKeeps DEF Confirm, uiVars, workerVars, diskVars, lookVars, historyVars, Inv, TypeOK

LEMMA FailKeeps ==
  ASSUME Inv, NEW j \in Jobs, Fail(j)
  PROVE  Inv'
<1> DEFINE p == Failing(probes[j], "now")
<1>1. /\ Exists(j) /\ probes[j] \in Probe /\ InOrder(probes[j]) /\ probes[j].due \in {"now", "later"}
      /\ probes[j].gen \in Gens
  BY ProbeInMap DEF Fail
<1>2. probes' = [probes EXCEPT ![j] = p]
  BY <1>1 DEF Fail, Failing, Inv, TypeOK
<1>3. /\ p \in Probe /\ p.due = "now" /\ p.gen = probes[j].gen
      /\ p.lastSize = probes[j].lastSize /\ p.sizeChange = probes[j].sizeChange /\ p.firstReady = probes[j].firstReady
  BY <1>1, FailedSet
<1> HIDE DEF p
<1>4. Alike(p, probes[j])
  BY <1>1, <1>3 DEF Alike, InOrder
<1>5. /\ told' \in [Jobs -> [Gens -> BOOLEAN]] /\ told'[j][p.gen]
      /\ \A k \in Jobs, g \in Gens : told[k][g] => told'[k][g]
  BY <1>1, <1>3 DEF Fail, Inv, TypeOK
<1> QED BY <1>1, <1>2, <1>3, <1>4, <1>5, EditKeeps DEF Fail, uiVars, workerVars, diskVars, lookVars

LEMMA ProbeDueKeeps ==
  ASSUME Inv, NEW j \in Jobs, ProbeDue(j)
  PROVE  Inv'
<1> DEFINE p == [probes[j] EXCEPT !.due = "now"]
<1>1. /\ Exists(j) /\ probes[j] \in Probe /\ InOrder(probes[j]) /\ probes[j].due \in {"now", "later"}
      /\ probes[j].gen \in Gens /\ (probes[j].failed => told[j][probes[j].gen])
  BY ProbeInMap DEF ProbeDue
<1>2. probes' = [probes EXCEPT ![j] = p]
  BY <1>1 DEF ProbeDue, Inv, TypeOK
<1>3. /\ p \in Probe /\ p.due = "now" /\ p.gen = probes[j].gen /\ p.failed = probes[j].failed
      /\ p.lastSize = probes[j].lastSize /\ p.sizeChange = probes[j].sizeChange /\ p.firstReady = probes[j].firstReady
  BY <1>1, DueSet
<1> HIDE DEF p
<1>4. Alike(p, probes[j])
  BY <1>1, <1>3 DEF Alike, InOrder
<1> QED BY <1>1, <1>2, <1>3, <1>4, EditKeeps DEF ProbeDue, uiVars, workerVars, diskVars, lookVars, historyVars, Inv, TypeOK

(* A timer that runs out was on: a probe without a size has none but the     *)
(* ones that do not depend on it.                                            *)
LEMMA TimerAlike ==
  ASSUME NEW c \in Probe, InOrder(c), NEW field \in TimerFields, NEW t \in Timers,
         c[field] = "off" <=> t = "off"
  PROVE  /\ Alike([c EXCEPT ![field] = t], c)
         /\ [c EXCEPT ![field] = t].due = c.due /\ [c EXCEPT ![field] = t].failed = c.failed
<1> DEFINE e == [c EXCEPT ![field] = t]
<1>1. /\ e \in Probe /\ e[field] = t
      /\ e.gen = c.gen /\ e.failed = c.failed /\ e.due = c.due /\ e.lastSize = c.lastSize
      /\ field # "sizeChange" => e.sizeChange = c.sizeChange
      /\ field # "firstReady" => e.firstReady = c.firstReady
  BY TimerSet
<1> HIDE DEF e
<1>2. Alike(e, c) /\ e.due = c.due /\ e.failed = c.failed
  BY <1>1 DEF Alike, InOrder, TimerFields
<1> QED BY <1>2 DEF e

LEMMA TimerOverKeeps ==
  ASSUME Inv, NEW j \in Jobs, NEW field \in TimerFields, TimerOver(j, field)
  PROVE  Inv'
<1> DEFINE p == [probes[j] EXCEPT ![field] = "over"]
<1>1. /\ Exists(j) /\ probes[j] \in Probe /\ InOrder(probes[j]) /\ probes[j].due \in {"now", "later"}
      /\ probes[j].gen \in Gens /\ (probes[j].failed => told[j][probes[j].gen])
  BY ProbeInMap DEF TimerOver
<1>2. probes' = [probes EXCEPT ![j] = p]
  BY <1>1 DEF TimerOver, Inv, TypeOK
<1>3. Alike(p, probes[j]) /\ p.gen = probes[j].gen /\ p.due = probes[j].due /\ p.failed = probes[j].failed
  BY <1>1, TimerAlike DEF TimerOver, Timers, Alike
<1>4. copy' = copy \/ (Alike(copy', copy) /\ copy'.due = copy.due)
  <2>1. CASE job = j /\ copy.gen = probes[j].gen
    <3>1. copy \in Probe /\ InOrder(copy)
      BY <1>1, <2>1, NoProbeFacts DEF Inv, HoldsCopy, Gens
    <3>2. copy' = [copy EXCEPT ![field] = Over(copy[field])]
      BY <2>1 DEF TimerOver
    <3>3. Over(copy[field]) \in Timers /\ (copy[field] = "off" <=> Over(copy[field]) = "off")
      BY <3>1, TimerSet DEF Over, Timers
    <3> QED BY <3>1, <3>2, <3>3, TimerAlike
  <2>2. CASE ~(job = j /\ copy.gen = probes[j].gen)
    BY <2>2 DEF TimerOver
  <2> QED BY <2>1, <2>2
<1> HIDE DEF p
<1> QED BY <1>1, <1>2, <1>3, <1>4, EditKeeps DEF TimerOver, uiVars, diskVars, lookVars, historyVars, Inv, TypeOK

LEMMA CancelKeeps ==
  ASSUME Inv, NEW j \in Jobs, Cancel(j)
  PROVE  Inv'
<1> DEFINE g0 == probes[j].gen
<1>1. g0 \in Gens /\ fate[j][g0] = "live" /\ uiPc = "ready"
  BY ProbeInMap DEF Cancel, Inv, Generations
<1>2. /\ probes' = [probes EXCEPT ![j] = NoProbe] /\ fate' = [fate EXCEPT ![j][g0] = "cancelled"]
      /\ UNCHANGED <<running, uiPc, pc, due, job, copy, seenSize, file, changes, touched, told, verdict, streak, looked>>
  BY DEF Cancel, uiVars, workerVars, diskVars, lookVars
<1>3. /\ probes \in [Jobs -> Probe \cup {NoProbe}]
      /\ fate \in [Jobs -> [Gens -> Fates]]
  BY DEF Inv, TypeOK, Fates
<1> HIDE DEF g0
<1>4. /\ ~Exists(j)' /\ \A k \in Jobs : k # j => probes'[k] = probes[k]
      /\ \A k \in Jobs : Exists(k)' => k # j /\ Exists(k)
  BY <1>2, <1>3 DEF Exists
<1>5. /\ \A k \in Jobs, g \in Gens : k # j \/ g # g0 => fate'[k][g] = fate[k][g]
      /\ fate'[j][g0] = "cancelled" /\ fate' \in [Jobs -> [Gens -> Fates]]
  BY <1>1, <1>2, <1>3 DEF Fates
<1>6. TypeOK'
  BY <1>2, <1>3, <1>4, <1>5 DEF Inv, TypeOK, Exists
<1>7. HoldsCopy'
  <2>1. Busy => job \in Jobs /\ copy.gen \in Gens
    BY DEF Inv, TypeOK, HoldsCopy, Probe
  <2> QED BY <1>1, <1>2, <1>5, <2>1 DEF Inv, HoldsCopy, Busy
<1>8. Generations'
  <2>1. \A k \in Jobs, g \in Gens : fate'[k][g] # "unused" <=> fate[k][g] # "unused"
    BY <1>1, <1>5
  <2>2. \A k \in Jobs : Exists(k)' => fate'[k][probes'[k].gen] = "live" /\ probes'[k].due # "done"
    BY <1>4, <1>5, ProbeInMap DEF Inv, Generations
  <2>3. \A k \in Jobs, g \in Gens : fate'[k][g] = "live" /\ uiPc' # "stopped" => Exists(k)' /\ probes'[k].gen = g
    BY <1>1, <1>2, <1>4, <1>5 DEF Inv, Generations, Exists
  <2> QED BY <2>1, <2>2, <2>3 DEF Inv, Generations
<1>9. Measured'
  BY <1>2, <1>4 DEF Inv, TypeOK, Measured, Busy, Current, Exists
<1>10. Reports'
  <2>1. Busy => job \in Jobs /\ copy.gen \in Gens
    BY DEF Inv, TypeOK, HoldsCopy, Probe
  <2>2. \A k \in Jobs, g \in Gens : /\ fate'[k][g] = "unused" => fate[k][g] = "unused"
                                    /\ fate'[k][g] = "done" => fate[k][g] = "done"
    BY <1>1, <1>5
  <2> QED BY <1>2, <1>4, <2>1, <2>2 DEF Inv, Reports, Busy, Current, Exists
<1>11. OneVerdict'
  BY <1>2 DEF Inv, OneVerdict
<1> QED BY <1>6, <1>7, <1>8, <1>9, <1>10, <1>11 DEF Inv

LEMMA StopKeeps ==
  ASSUME Inv, Stop \/ StopJoin
  PROVE  Inv'
<1>1. CASE Stop
  <2>1. /\ running' = FALSE /\ uiPc = "ready" /\ uiPc' = "join"
        /\ UNCHANGED <<probes, pc, due, job, copy, seenSize, file, changes, touched, fate, told, verdict, streak, looked>>
    BY <1>1 DEF Stop, workerVars, diskVars, lookVars, historyVars
  <2>2. TypeOK' /\ HoldsCopy' /\ OneVerdict'
    BY <2>1 DEF Inv, TypeOK, HoldsCopy, OneVerdict, Busy, Exists
  <2>3. Generations'
    BY <2>1 DEF Inv, Generations, Exists
  <2>4. Measured'
    BY <2>1 DEF Inv, Measured, Exists, Current, Busy
  <2>5. Reports'
    BY <2>1 DEF Inv, Reports, Exists, Current, Busy
  <2> QED BY <2>2, <2>3, <2>4, <2>5 DEF Inv
<1>2. CASE StopJoin
  <2>1. /\ probes' = [j \in Jobs |-> NoProbe] /\ uiPc' = "stopped" /\ pc = "exited" /\ ~Busy
        /\ UNCHANGED <<running, pc, due, job, copy, seenSize, file, changes, touched, fate, told, verdict, streak, looked>>
    BY <1>2 DEF StopJoin, workerVars, diskVars, lookVars, historyVars, Busy, RunPcs, EarlyPcs, LatePcs
  <2>2. \A j \in Jobs : ~Exists(j)'
    BY <2>1 DEF Exists
  <2>3. TypeOK' /\ HoldsCopy' /\ OneVerdict'
    BY <2>1, <2>2 DEF Inv, TypeOK, HoldsCopy, OneVerdict, Busy
  <2>4. Generations'
    BY <2>1, <2>2 DEF Inv, Generations
  <2>5. Measured'
    BY <2>1, <2>2 DEF Inv, Measured, Busy
  <2>6. Reports'
    BY <2>1, <2>2 DEF Inv, Reports
  <2> QED BY <2>3, <2>4, <2>5, <2>6 DEF Inv
<1> QED BY <1>1, <1>2

LEMMA FileChangeKeeps ==
  ASSUME Inv, NEW j \in Jobs, FileChange(j)
  PROVE  Inv'
<1>1. file' \in [Jobs -> File] /\ changes' \in 0..MaxChanges /\ touched' \in BOOLEAN
  BY BoundsAssumption DEF FileChange, Inv, TypeOK
<1>2. UNCHANGED <<probes, running, uiPc, pc, due, job, copy, seenSize, fate, told, verdict, streak, looked>>
  BY DEF FileChange, uiVars, workerVars, historyVars, lookVars
<1> QED BY <1>1, <1>2 DEF Inv, TypeOK, HoldsCopy, Generations, Measured, Reports, OneVerdict, Busy, Current, Exists

-----------------------------------------------------------------------------
(* The worker *)

LEMMA WaitKeeps ==
  ASSUME Inv, Wait \/ SnapshotDone
  PROVE  Inv'
<1>1. /\ pc \in {"wait", "next"} /\ pc' \in {"wait", "exited", "next"} /\ due' \subseteq Jobs
      /\ UNCHANGED <<probes, running, uiPc, job, copy, seenSize, file, changes, touched, fate, told, verdict, streak, looked>>
  BY DEF Wait, SnapshotDone, uiVars, diskVars, lookVars, historyVars, DueNow, Inv, TypeOK
<1>2. ~Busy /\ ~Busy'
  BY <1>1 DEF Busy, RunPcs, EarlyPcs, LatePcs
<1>3. TypeOK' /\ HoldsCopy' /\ OneVerdict'
  BY <1>1, <1>2 DEF Inv, TypeOK, HoldsCopy, OneVerdict, Exists, Busy, RunPcs
<1>4. Generations'
  BY <1>1 DEF Inv, Generations, Exists
<1>5. Measured'
  BY <1>1, <1>2 DEF Inv, Measured, Exists, Current
<1>6. Reports'
  BY <1>1, <1>2 DEF Inv, Reports, Exists, Current, Busy
<1> QED BY <1>3, <1>4, <1>5, <1>6 DEF Inv

LEMMA TakeProbeKeeps ==
  ASSUME Inv, NEW j \in Jobs, TakeProbe(j)
  PROVE  Inv'
<1>1. /\ pc = "next" /\ ~Busy /\ due' \subseteq Jobs
      /\ UNCHANGED <<probes, running, uiPc, seenSize, file, changes, touched, fate, told, verdict, looked>>
  BY DEF TakeProbe, uiVars, diskVars, lookVars, Busy, RunPcs, EarlyPcs, LatePcs, Inv, TypeOK
<1>2. CASE Exists(j)
  <2>1. job' = j /\ copy' = probes[j] /\ pc' = "verdict"
    BY <1>2 DEF TakeProbe
  <2>2. Busy' /\ pc' \in RunPcs /\ pc' \notin LatePcs
    BY <2>1 DEF Busy, RunPcs, EarlyPcs, LatePcs
  <2>3. /\ probes[j] \in Probe /\ InOrder(probes[j]) /\ probes[j].due \in {"now", "later"}
        /\ probes[j].gen \in Gens /\ fate[j][probes[j].gen] = "live"
    BY <1>2, ProbeInMap DEF Inv, Generations
  <2>4. /\ streak' \in [Jobs -> 0..2] /\ \A k \in Jobs : k # j => streak'[k] = streak[k]
        /\ probes[j].sizeChange # "off" => streak'[j] = streak[j]
    <3>1. streak' = [streak EXCEPT ![j] = 0] \/ streak' = streak
      BY <1>2 DEF TakeProbe
    <3>2. streak \in [Jobs -> 0..2] /\ (probes[j].sizeChange # "off" => streak' = streak)
      BY <1>2 DEF TakeProbe, Inv, TypeOK
    <3> QED BY <3>1, <3>2
  <2>5. TypeOK'
    BY <1>1, <2>1, <2>3, <2>4 DEF Inv, TypeOK, Exists
  <2>6. HoldsCopy'
    BY <1>1, <2>1, <2>2, <2>3 DEF HoldsCopy
  <2>7. Generations'
    BY <1>1 DEF Inv, Generations, Exists
  <2>8. Measured'
    <3>1. probes[j].sizeChange # "off" => streak[j] # 0 /\ looked[j] = probes[j].lastSize
      BY <1>1, <1>2 DEF Inv, Measured, Current
    <3> QED BY <1>1, <1>2, <2>1, <2>4, <3>1 DEF Inv, Measured, Exists, Current
  <2>9. Reports'
    <3>1. verdict[j][probes[j].gen] = "none"
      BY <1>1, <1>2 DEF Inv, Reports
    <3> QED BY <1>1, <2>1, <3>1 DEF Inv, Reports, Exists, Current
  <2>10. OneVerdict'
    BY <1>1 DEF Inv, OneVerdict
  <2> QED BY <2>5, <2>6, <2>7, <2>8, <2>9, <2>10 DEF Inv
<1>3. CASE ~Exists(j)
  <2>1. UNCHANGED <<job, copy, pc, streak, looked>>
    BY <1>3 DEF TakeProbe
  <2> QED BY <1>1, <2>1 DEF Inv, TypeOK, HoldsCopy, Generations, Measured, Reports, OneVerdict, Busy, Current, Exists
<1> QED BY <1>2, <1>3

LEMMA RunKeeps ==
  ASSUME Inv, Outcome
  PROVE  Inv'
<1>1. /\ pc \in RunPcs /\ Busy /\ UNCHANGED <<probes, running, uiPc, due, job, file, changes, touched, fate, told>>
      /\ copy' \in Probe /\ copy'.gen = copy.gen /\ InOrder(copy') /\ seenSize' \in 0..2
      /\ streak' \in [Jobs -> 0..2] /\ looked' \in [Jobs -> 0..2]
      /\ \A j \in Jobs : j # job => streak'[j] = streak[j] /\ looked'[j] = looked[j]
  BY DEF Outcome, uiVars, diskVars, lookVars, Busy
<1>2. /\ job \in Jobs /\ copy.gen \in Gens /\ verdict[job][copy.gen] = "none"
      /\ fate[job][copy.gen] # "unused" /\ verdict \in [Jobs -> [Gens -> VerdictsOf]]
  BY <1>1 DEF Inv, TypeOK, HoldsCopy, Reports, Probe, VerdictsOf
<1>3. Busy' /\ \A j \in Jobs : Current(j)' = Current(j)
  BY <1>1 DEF Outcome, GoesOn, PutsBack, Ends, Busy, Current
<1>4. /\ pc' \in RunPcs => copy'.due # "done" /\ verdict' = verdict
      /\ pc' = "merge" /\ copy'.due # "done" => verdict' = verdict
      /\ pc' = "merge" /\ copy'.due = "done" =>
            \E kind \in {"Ready", "Failed"} : verdict' = [verdict EXCEPT ![job][copy.gen] = kind]
      /\ pc' \in RunPcs \cup {"merge"}
  BY DEF Outcome, GoesOn, PutsBack, Ends, RunPcs, EarlyPcs, LatePcs
<1>5. /\ verdict' \in [Jobs -> [Gens -> VerdictsOf]]
      /\ verdict'[job][copy.gen] \in {"none", "Ready", "Failed"}
      /\ \A j \in Jobs, g \in Gens : j # job \/ g # copy.gen => verdict'[j][g] = verdict[j][g]
      /\ pc' \in RunPcs \/ copy'.due # "done" => verdict'[job][copy.gen] = "none"
      /\ pc' = "merge" /\ copy'.due = "done" => verdict'[job][copy.gen] # "none"
  <2>1. CASE verdict' = verdict /\ ~(pc' = "merge" /\ copy'.due = "done")
    BY <1>2, <2>1
  <2>2. CASE pc' = "merge" /\ copy'.due = "done"
    <3>1. PICK kind \in {"Ready", "Failed"} : verdict' = [verdict EXCEPT ![job][copy.gen] = kind]
      BY <1>4, <2>2
    <3> QED BY <1>2, <2>2, <3>1 DEF VerdictsOf, RunPcs, EarlyPcs, LatePcs
  <2> QED BY <1>4, <2>1, <2>2
<1>6. TypeOK'
  BY <1>1, <1>4, <1>5 DEF Inv, TypeOK, Exists, RunPcs, EarlyPcs, LatePcs, VerdictsOf
<1>7. HoldsCopy'
  <2>1. pc' \in LatePcs => copy'.sizeChange # "off" /\ streak'[job] = 2
    BY DEF Outcome, GoesOn, PutsBack, Ends, LatePcs
  <2> QED BY <1>1, <1>2, <1>3, <1>4, <2>1 DEF HoldsCopy
<1>8. Generations'
  BY <1>1 DEF Inv, Generations, Exists
<1>9. Measured'
  <2>1. copy'.sizeChange # "off" => streak'[job] # 0 /\ looked'[job] = copy'.lastSize
    BY DEF Outcome
  <2>2. \A j \in Jobs : Exists(j)' /\ probes'[j].sizeChange # "off" =>
          (streak'[j] # 0 /\ looked'[j] = probes'[j].lastSize) \/ Current(j)'
    <3> SUFFICES ASSUME NEW j \in Jobs, Exists(j)', probes'[j].sizeChange # "off"
                 PROVE  (streak'[j] # 0 /\ looked'[j] = probes'[j].lastSize) \/ Current(j)'
      OBVIOUS
    <3>0. Exists(j) /\ probes[j].sizeChange # "off"
      BY <1>1 DEF Exists
    <3>3. Current(j)' = Current(j)
      BY <1>3
    <3>1. CASE j # job
      BY <1>1, <3>0, <3>1 DEF Inv, Measured, Current
    <3>2. CASE j = job
      BY <1>3, <1>1, <3>0, <3>2, <3>3 DEF Inv, Measured, Current
    <3> QED BY <3>1, <3>2
  <2> QED BY <1>1, <1>2, <2>1, <2>2 DEF Inv, Measured, Exists
<1>10. Reports'
  <2>1. \A j \in Jobs : Exists(j)' => \/ verdict'[j][probes'[j].gen] = "none"
                                      \/ pc' = "merge" /\ copy'.due = "done" /\ Current(j)'
    <3> SUFFICES ASSUME NEW j \in Jobs, Exists(j)
                 PROVE  \/ verdict'[j][probes[j].gen] = "none"
                        \/ pc' = "merge" /\ copy'.due = "done" /\ Current(j)
      BY <1>1, <1>3 DEF Exists
    <3>1. probes[j].gen \in Gens /\ verdict[j][probes[j].gen] = "none"
      BY <1>1, ProbeInMap DEF Inv, Reports, RunPcs, EarlyPcs, LatePcs
    <3>2. CASE j = job /\ probes[j].gen = copy.gen
      BY <1>1, <1>4, <1>5, <3>2 DEF Current
    <3>3. CASE j # job \/ probes[j].gen # copy.gen
      BY <1>5, <3>1, <3>3
    <3> QED BY <3>2, <3>3
  <2>2. \A j \in Jobs, g \in Gens : /\ fate'[j][g] = "unused" => verdict'[j][g] = "none"
                                    /\ fate'[j][g] = "done" => verdict'[j][g] # "none"
    <3>1. fate[job][copy.gen] # "done"
      BY <1>2 DEF Inv, Reports
    <3> QED BY <1>1, <1>2, <1>5, <3>1 DEF Inv, Reports
  <2>3. \A j \in Jobs : Exists(j)' /\ probes'[j].failed => told'[j][probes'[j].gen]
    BY <1>1 DEF Inv, Reports, Exists
  <2> QED BY <1>1, <1>4, <1>5, <2>1, <2>2, <2>3 DEF Reports
<1>11. OneVerdict'
  BY <1>1, <1>2, <1>5 DEF Inv, OneVerdict
<1> QED BY <1>6, <1>7, <1>8, <1>9, <1>10, <1>11 DEF Inv

(* The merge finds the probe gone or newer, drops it with its last verdict,  *)
(* or puts the copy back under what was said meanwhile.                      *)
LEMMA MergeKeeps ==
  ASSUME Inv, Merge
  PROVE  Inv'
<1> DEFINE live == probes[job]
           mine == Exists(job) /\ live.gen = copy.gen
<1>1. /\ pc = "merge" /\ pc' = "next" /\ copy' = NoProbe /\ seenSize' = 0 /\ Busy /\ ~Busy'
      /\ touched' \in BOOLEAN
      /\ UNCHANGED <<running, uiPc, due, job, file, changes, told, streak, looked>>
  BY DEF Merge, uiVars, diskVars, lookVars, Busy, RunPcs, EarlyPcs, LatePcs
<1>2. /\ job \in Jobs /\ copy \in Probe /\ InOrder(copy) /\ copy.gen \in Gens /\ copy.due \in {"now", "later", "done"}
      /\ fate[job][copy.gen] # "unused" /\ verdict \in [Jobs -> [Gens -> VerdictsOf]]
      /\ probes \in [Jobs -> Probe \cup {NoProbe}]
      /\ fate \in [Jobs -> [Gens -> Fates]]
  BY <1>1 DEF Inv, TypeOK, HoldsCopy, Probe, VerdictsOf, Fates
<1>3. HoldsCopy'
  BY <1>1 DEF HoldsCopy, RunPcs, EarlyPcs, LatePcs
<1>4. \A j \in Jobs : Current(j) => j = job /\ live.gen = copy.gen
  BY DEF Current
<1>5. CASE ~mine
  <2>1. UNCHANGED <<probes, verdict, fate>>
    BY <1>5 DEF Merge
  <2>2. TypeOK' /\ OneVerdict'
    BY <1>1, <2>1 DEF Inv, TypeOK, OneVerdict, Exists
  <2>3. Generations'
    BY <1>1, <2>1 DEF Inv, Generations, Exists
  <2>4. Measured'
    <3>1. \A j \in Jobs : Exists(j) /\ probes[j].sizeChange # "off" => streak[j] # 0 /\ looked[j] = probes[j].lastSize
      BY <1>1, <1>4, <1>5 DEF Inv, Measured
    <3> QED BY <1>1, <2>1, <3>1 DEF Measured, Exists
  <2>5. Reports'
    <3>1. \A j \in Jobs : Exists(j) => verdict[j][probes[j].gen] = "none"
      BY <1>1, <1>4, <1>5 DEF Inv, Reports
    <3> QED BY <1>1, <2>1, <3>1 DEF Inv, Reports, Exists, RunPcs, EarlyPcs, LatePcs
  <2> QED BY <1>3, <2>2, <2>3, <2>4, <2>5 DEF Inv
<1>6. CASE mine /\ copy.due = "done"
  <2>1. /\ probes' = [probes EXCEPT ![job] = NoProbe] /\ fate' = [fate EXCEPT ![job][copy.gen] = "done"]
        /\ IF live.failed /\ ~copy.failed THEN Post("Failed") ELSE UNCHANGED verdict
    BY <1>6 DEF Merge
  <2>2. /\ ~Exists(job)' /\ \A j \in Jobs : j # job => probes'[j] = probes[j]
        /\ \A j \in Jobs : Exists(j)' => j # job /\ Exists(j)
    BY <1>1, <1>2, <2>1 DEF Exists
  <2>3. verdict[job][copy.gen] \in {"Ready", "Failed"} /\ (live.failed => told[job][copy.gen])
    BY <1>1, <1>2, <1>6 DEF Inv, Reports
  <2>4. /\ verdict' \in [Jobs -> [Gens -> VerdictsOf]]
        /\ \A j \in Jobs, g \in Gens : j # job \/ g # copy.gen => verdict'[j][g] = verdict[j][g]
        /\ verdict'[job][copy.gen] \in {"Ready", "Failed", "ReadyThenFailed", "FailedTwice"}
        /\ verdict'[job][copy.gen] \in {"ReadyThenFailed", "FailedTwice"} => told[job][copy.gen]
    <3>1. CASE live.failed /\ ~copy.failed
      <4>1. verdict' = [verdict EXCEPT ![job][copy.gen] = Said(@, "Failed")]
        BY <2>1, <3>1 DEF Post
      <4>2. Said(verdict[job][copy.gen], "Failed") \in {"ReadyThenFailed", "FailedTwice"}
        BY <2>3 DEF Said
      <4> QED BY <1>2, <2>3, <3>1, <4>1, <4>2 DEF VerdictsOf
    <3>2. CASE ~(live.failed /\ ~copy.failed)
      BY <1>2, <2>1, <2>3, <3>2
    <3> QED BY <3>1, <3>2
  <2>5. /\ fate' \in [Jobs -> [Gens -> Fates]]
        /\ fate'[job][copy.gen] = "done"
        /\ \A j \in Jobs, g \in Gens : j # job \/ g # copy.gen => fate'[j][g] = fate[j][g]
    BY <1>2, <2>1 DEF Fates
  <2>6. TypeOK'
    BY <1>1, <1>2, <2>1, <2>2, <2>4, <2>5 DEF Inv, TypeOK, Exists, VerdictsOf, Fates
  <2>7. OneVerdict'
    BY <1>1, <2>3, <2>4 DEF Inv, OneVerdict
  <2>8. Generations'
    <3>1. \A j \in Jobs, g \in Gens : fate'[j][g] # "unused" <=> fate[j][g] # "unused"
      BY <1>2, <2>5
    <3>2. \A j \in Jobs : Exists(j)' => fate'[j][probes'[j].gen] = "live" /\ probes'[j].due # "done"
      BY <2>2, <2>5, ProbeInMap DEF Inv, Generations
    <3>3. \A j \in Jobs, g \in Gens : fate'[j][g] = "live" /\ uiPc' # "stopped" => Exists(j)' /\ probes'[j].gen = g
      <4> SUFFICES ASSUME NEW j \in Jobs, NEW g \in Gens, fate'[j][g] = "live", uiPc # "stopped"
                   PROVE  Exists(j)' /\ probes'[j].gen = g
        BY <1>1
      <4>1. j # job \/ g # copy.gen
        BY <2>5
      <4>2. Exists(j) /\ probes[j].gen = g
        BY <2>5, <4>1 DEF Inv, Generations
      <4>3. j # job
        BY <1>6, <4>1, <4>2
      <4> QED BY <2>2, <4>2, <4>3 DEF Exists
    <3> QED BY <3>1, <3>2, <3>3 DEF Inv, Generations
  <2>9. Measured'
    BY <1>1, <1>4, <2>2 DEF Inv, Measured
  <2>10. Reports'
    <3>1. \A j \in Jobs : Exists(j)' => verdict'[j][probes'[j].gen] = "none"
      BY <1>4, <2>2, <2>4, ProbeInMap DEF Inv, Reports
    <3>2. \A j \in Jobs : Exists(j)' /\ probes'[j].failed => told'[j][probes'[j].gen]
      BY <1>1, <2>2 DEF Inv, Reports
    <3>3. \A j \in Jobs, g \in Gens : /\ fate'[j][g] = "unused" => verdict'[j][g] = "none"
                                      /\ fate'[j][g] = "done" => verdict'[j][g] # "none"
      BY <2>4, <2>5 DEF Inv, Reports
    <3> QED BY <1>1, <3>1, <3>2, <3>3 DEF Reports, RunPcs, EarlyPcs, LatePcs
  <2> QED BY <1>3, <2>6, <2>7, <2>8, <2>9, <2>10 DEF Inv
<1>7. CASE mine /\ copy.due # "done"
  <2> DEFINE d == IF \/ live.confirmed /\ ~copy.confirmed
                     \/ live.failed /\ ~copy.failed THEN "now" ELSE copy.due
             p == MergedWith(copy, live, d)
  <2>1. probes' = [probes EXCEPT ![job] = p] /\ UNCHANGED <<verdict, fate>>
    BY <1>7 DEF Merge, MergedWith
  <2>2. /\ live \in Probe /\ live.confirmed \in BOOLEAN /\ live.failed \in BOOLEAN
        /\ d \in {"now", "later"}
    BY <1>2, <1>7, ProbeInMap DEF Probe
  <2>3. /\ p \in Probe /\ p.due = d /\ p.failed = live.failed
        /\ p.gen = copy.gen /\ p.lastSize = copy.lastSize
        /\ p.sizeChange = copy.sizeChange /\ p.firstReady = copy.firstReady
    <3>1. copy \in Probe /\ live \in Probe /\ d \in {"now", "later", "done"}
      BY <1>2, <2>2
    <3>2. p = MergedWith(copy, live, d)
      OBVIOUS
    <3> HIDE DEF d, live, p
    <3> QED BY <3>1, <3>2, Merged
  <2> HIDE DEF p, d
  <2>4. /\ probes'[job] = p /\ p # NoProbe /\ \A j \in Jobs : j # job => probes'[j] = probes[j]
        /\ \A j \in Jobs : (Exists(j)' <=> Exists(j)) /\ probes'[j].gen = probes[j].gen
    BY <1>2, <1>7, <2>1, <2>3, NoProbeFacts DEF Exists
  <2>5. TypeOK'
    BY <1>1, <1>2, <2>1, <2>3, <2>4 DEF Inv, TypeOK, InOrder, Exists
  <2>6. OneVerdict'
    BY <1>1, <2>1 DEF Inv, OneVerdict
  <2>7. Generations'
    <3>1. \A j \in Jobs : Exists(j)' => fate'[j][probes'[j].gen] = "live" /\ probes'[j].due # "done"
      BY <2>1, <2>2, <2>3, <2>4 DEF Inv, Generations
    <3> QED BY <1>1, <2>1, <2>4, <3>1 DEF Inv, Generations
  <2>8. Measured'
    <3>1. \A j \in Jobs : Exists(j)' /\ probes'[j].sizeChange # "off" => streak[j] # 0 /\ looked[j] = probes'[j].lastSize
      BY <1>1, <1>4, <2>3, <2>4 DEF Inv, Measured
    <3> QED BY <1>1, <3>1 DEF Measured
  <2>9. Reports'
    <3>1. \A j \in Jobs : Exists(j) => verdict[j][probes[j].gen] = "none"
      BY <1>7 DEF Inv, Reports
    <3>2. \A j \in Jobs : Exists(j)' /\ probes'[j].failed => told'[j][probes'[j].gen]
      BY <1>1, <1>7, <2>3, <2>4 DEF Inv, Reports
    <3> QED BY <1>1, <2>1, <2>4, <3>1, <3>2 DEF Inv, Reports, RunPcs, EarlyPcs, LatePcs
  <2> QED BY <1>3, <2>5, <2>6, <2>7, <2>8, <2>9 DEF Inv
<1> QED BY <1>5, <1>6, <1>7

LEMMA StepKeeps == Inv /\ [Next]_vars => Inv'
<1> SUFFICES ASSUME Inv, [Next]_vars PROVE Inv'
  OBVIOUS
<1>1. CASE \E j \in Jobs : Schedule(j) \/ Confirm(j) \/ Fail(j) \/ Cancel(j)
  BY <1>1, ScheduleKeeps, ConfirmKeeps, FailKeeps, CancelKeeps
<1>2. CASE Stop \/ StopJoin
  BY <1>2, StopKeeps
<1>3. CASE \E j \in Jobs : ProbeDue(j) \/ FileChange(j)
  BY <1>3, ProbeDueKeeps, FileChangeKeeps
<1>4. CASE \E j \in Jobs, field \in TimerFields : TimerOver(j, field)
  BY <1>4, TimerOverKeeps
<1>5. CASE WorkerStep
  <2>1. CASE Wait \/ SnapshotDone
    BY <2>1, WaitKeeps
  <2>2. CASE \E j \in Jobs : TakeProbe(j)
    BY <2>2, TakeProbeKeeps
  <2>3. CASE \/ CheckVerdict \/ CheckExists \/ CheckOpen \/ CheckSize
             \/ CheckSidecars \/ CheckBoxes \/ CheckConfirmation
    BY <2>3, CheckOutcome, RunKeeps
  <2>4. CASE Merge
    BY <2>4, MergeKeeps
  <2> QED BY <1>5, <2>1, <2>2, <2>3, <2>4 DEF WorkerStep
<1>6. CASE UNCHANGED vars
  <2>1. UNCHANGED <<probes, running, uiPc, pc, due, job, copy, seenSize, file, changes, touched, fate, told, verdict, streak, looked>>
    BY <1>6 DEF vars, uiVars, workerVars, diskVars, lookVars, historyVars
  <2>2. TypeOK' /\ HoldsCopy' /\ OneVerdict'
    BY <2>1 DEF Inv, TypeOK, HoldsCopy, OneVerdict, Busy, Exists
  <2>3. Generations'
    BY <2>1 DEF Inv, Generations, Exists
  <2>4. Measured'
    BY <2>1 DEF Inv, Measured, Exists, Current, Busy
  <2>5. Reports'
    BY <2>1 DEF Inv, Reports, Exists, Current, Busy
  <2> QED BY <2>2, <2>3, <2>4, <2>5 DEF Inv
<1> QED BY <1>1, <1>2, <1>3, <1>4, <1>5, <1>6 DEF Next

LEMMA Invariance == Spec => []Inv
BY InitInv, StepKeeps, PTL DEF Spec

-----------------------------------------------------------------------------
(* The theorems *)

(* Probes, timers, the worker and the history have the shape the code gives  *)
(* them, for any jobs, files and number of schedule() calls.                 *)
THEOREM TypeCorrect == Spec => []TypeOK
<1>1. Inv => TypeOK
  BY DEF Inv
<1> QED BY <1>1, Invariance, PTL

(* A probe posts one verdict.  Only a fail() that is accepted while the run  *)
(* that posted the first waits to be merged adds a second, and that is a     *)
(* Failed: a Ready is never told twice, nor after a Failed.  And the map     *)
(* holds the probe that was scheduled last and is still waited for: a merge  *)
(* neither brings back one that was replaced or cancelled while the worker   *)
(* had its copy, nor drops one that has not reported.                        *)
THEOREM ProbesAreAccounted == Spec => []ProbesAccounted
<1>1. Inv => OneVerdict
  BY DEF Inv
<1>2. Inv => MapHoldsLiveProbe
  BY DEF Inv, Generations, Reports, MapHoldsLiveProbe
<1> QED BY <1>1, <1>2, Invariance, PTL DEF ProbesAccounted

(* What the checks before it have found in the file stays so until the next *)
(* one, or the file is changed during the run.                               *)
FileChecked ==
    /\ pc \in {"open", "size"} \cup LatePcs => SizeOf(file[job]) = seenSize
    /\ pc \in {"size"} \cup LatePcs => file[job].state \notin {"absent", "directory", "locked", "denied"}
    /\ pc \in {"structure", "confirmation"} => file[job].state # "sidecars"
    /\ pc = "confirmation" /\ CheckStructure => file[job].state # "cut"

Seen ==
    /\ touched \/ FileChecked
    /\ pc \in {"open"} => touched \/ file[job].state \notin {"absent", "directory"}
    /\ pc \in LatePcs => looked[job] = seenSize /\ seenSize > 0

LEMMA SeenInit == Init => Seen
BY DEF Init, Seen, FileChecked, LatePcs

LEMMA SeenKeeps ==
  ASSUME Inv, Seen, [Next]_vars
  PROVE  Seen'
<1>0. /\ job \in Jobs /\ file[job] \in File /\ seenSize \in 0..2 /\ looked \in [Jobs -> 0..2]
      /\ file[job].state \in AllStates
  BY StatesAssumption DEF Inv, TypeOK, File
<1>1. CASE \/ \E j \in Jobs : Schedule(j) \/ Confirm(j) \/ Fail(j) \/ Cancel(j) \/ ProbeDue(j)
           \/ Stop \/ StopJoin \/ UNCHANGED vars
           \/ \E j \in Jobs, field \in TimerFields : TimerOver(j, field)
  <2>1. UNCHANGED <<pc, job, seenSize, file, touched, looked>>
    BY <1>1 DEF Schedule, Confirm, Fail, Cancel, ProbeDue, Stop, StopJoin, TimerOver,
                vars, uiVars, workerVars, diskVars, historyVars, lookVars
  <2> QED BY <2>1 DEF Seen, FileChecked
<1>2. ASSUME NEW j \in Jobs, FileChange(j)
      PROVE  Seen'
  <2>1. /\ UNCHANGED <<pc, job, seenSize, looked>>
        /\ touched' = (touched \/ (j = job /\ pc \in {"open", "size", "sidecars", "structure", "confirmation"}))
        /\ \A k \in Jobs : k # j => file'[k] = file[k]
    BY <1>2 DEF FileChange, workerVars, historyVars, lookVars, Inv, TypeOK
  <2>2. CASE pc \in {"open"} \cup {"size"} \cup LatePcs /\ j = job
    BY <2>1, <2>2 DEF Seen, LatePcs
  <2>3. CASE pc \in {"open"} \cup {"size"} \cup LatePcs /\ j # job
    BY <1>0, <2>1, <2>3 DEF Seen, FileChecked
  <2>4. CASE pc \notin {"open"} \cup {"size"} \cup LatePcs
    BY <2>1, <2>4 DEF Seen, FileChecked, LatePcs
  <2> QED BY <2>2, <2>3, <2>4
<1>3. CASE Wait \/ SnapshotDone \/ Merge \/ \E j \in Jobs : TakeProbe(j)
  <2>1. pc' \in {"wait", "exited", "next", "verdict"}
    BY <1>3 DEF Wait, SnapshotDone, Merge, TakeProbe
  <2> QED BY <2>1 DEF Seen, FileChecked, LatePcs
<1>4. CASE CheckVerdict
  <2>1. pc' \in {"exists", "merge"}
    BY <1>4 DEF CheckVerdict, End
  <2> QED BY <2>1 DEF Seen, FileChecked, LatePcs
<1>5. CASE CheckExists
  <2>1. /\ UNCHANGED <<job, file, touched>>
        /\ \/ pc' = "merge"
           \/ /\ pc' = "open" /\ seenSize' = SizeOf(file[job])
              /\ file[job].state \notin {"absent", "directory"}
    BY <1>5 DEF CheckExists, End, Again, Frame, diskVars
  <2> QED BY <2>1 DEF Seen, FileChecked, LatePcs, SizeOf
<1>6. CASE CheckOpen
  <2>1. /\ UNCHANGED <<job, file, touched, seenSize>> /\ pc = "open"
        /\ \/ pc' = "merge"
           \/ pc' = "size" /\ file[job].state \notin {"absent", "directory", "locked", "denied"}
    BY <1>6 DEF CheckOpen, End, Again, Frame, diskVars
  <2> QED BY <2>1 DEF Seen, FileChecked, LatePcs, SizeOf
<1>7. CASE CheckSize
  <2>1. /\ UNCHANGED <<job, file, touched, seenSize>> /\ pc = "size"
        /\ looked' = [looked EXCEPT ![job] = seenSize]
        /\ pc' = "merge" \/ (pc' = "sidecars" /\ seenSize # 0)
    BY <1>7 DEF CheckSize, Look, Again, Frame, diskVars
  <2>2. looked'[job'] = seenSize'
    BY <1>0, <2>1
  <2>3. CASE pc' = "merge"
    BY <2>3 DEF Seen, FileChecked, LatePcs
  <2>4. CASE pc' = "sidecars" /\ seenSize # 0
    <3>1. seenSize' > 0
      BY <1>0, <2>1, <2>4
    <3>2. touched' \/ FileChecked'
      BY <2>1, <2>4 DEF Seen, FileChecked, SizeOf
    <3> QED BY <2>2, <2>4, <3>1, <3>2 DEF Seen
  <2> QED BY <2>1, <2>3, <2>4
<1>8. CASE CheckSidecars \/ CheckBoxes \/ CheckConfirmation
  <2>1. /\ UNCHANGED <<job, file, touched, seenSize, looked>>
        /\ \/ pc' = "merge"
           \/ pc = "sidecars" /\ pc' = "structure" /\ file[job].state # "sidecars"
           \/ /\ pc = "structure" /\ pc' = "confirmation"
              /\ CheckStructure => file[job].state # "cut"
    BY <1>8 DEF CheckSidecars, CheckBoxes, CheckConfirmation, End, Again, Frame, diskVars, lookVars
  <2> QED BY <2>1 DEF Seen, FileChecked, LatePcs, SizeOf
<1> QED BY <1>1, <1>2, <1>3, <1>4, <1>5, <1>6, <1>7, <1>8 DEF Next, WorkerStep

LEMMA SeenInvariance == Spec => [](Inv /\ Seen)
<1>1. Init => Inv /\ Seen
  BY InitInv, SeenInit
<1>2. Inv /\ Seen /\ [Next]_vars => (Inv /\ Seen)'
  BY StepKeeps, SeenKeeps
<1> QED BY <1>1, <1>2, PTL DEF Spec

(* A Ready is posted only by a run whose read of the size at step 3 gave     *)
(* what the last one before it had given there, no run between them having   *)
(* found nothing at its first look; and the file then has that size, is      *)
(* openable, has no sidecar and, with CheckStructure, a complete box chain,  *)
(* unless it was changed during this very run.                               *)
THEOREM TwoLooks == Spec => ReadyAfterTwoLooks
<1>1. ASSUME Inv, Seen, [Next]_vars, NEW j \in Jobs, NEW g \in Gens,
             verdict[j][g] = "none", verdict'[j][g] = "Ready"
      PROVE  /\ streak[j] = 2 /\ looked[j] > 0
             /\ touched \/ (Muxable(file[j]) /\ SizeOf(file[j]) = looked[j])
  <2>0. /\ verdict \in [Jobs -> [Gens -> VerdictsOf]] /\ job \in Jobs /\ seenSize \in 0..2
        /\ file[job] \in File /\ file[job].state \in AllStates
    BY <1>1, StatesAssumption DEF Inv, TypeOK, VerdictsOf, File
  <2>1. \/ CheckConfirmation
        \/ UNCHANGED verdict
        \/ Post("Failed")
    BY <1>1 DEF Next, WorkerStep, Wait, SnapshotDone, TakeProbe, Schedule, Confirm, Fail, Cancel, Stop, StopJoin,
                ProbeDue, FileChange, TimerOver, vars, historyVars, Merge, CheckVerdict, CheckExists, CheckOpen,
                CheckSize, CheckSidecars, CheckBoxes, End, Again
  <2>2. ~UNCHANGED verdict
    BY <1>1
  <2>3. ~Post("Failed")
    <3> SUFFICES ASSUME Post("Failed") PROVE FALSE
      OBVIOUS
    <3>1. verdict' = [verdict EXCEPT ![job][copy.gen] = Said(@, "Failed")]
      BY DEF Post
    <3>2. Said("none", "Failed") = "Failed"
      BY DEF Said
    <3> QED BY <1>1, <2>0, <3>1, <3>2
  <2>4. CheckConfirmation
    BY <2>1, <2>2, <2>3
  <2>5. j = job
    <3>1. verdict' = [verdict EXCEPT ![job][copy.gen] = Said(@, "Ready")] \/ UNCHANGED verdict
      BY <2>4 DEF CheckConfirmation, End, Again, Post
    <3> QED BY <1>1, <2>0, <3>1
  <2>6. pc = "confirmation" /\ pc \in LatePcs /\ streak[job] = 2 /\ looked[job] = seenSize /\ seenSize > 0
    BY <1>1, <2>4 DEF CheckConfirmation, LatePcs, Inv, HoldsCopy, Seen
  <2>7. touched \/ (Muxable(file[job]) /\ SizeOf(file[job]) = looked[job])
    <3> SUFFICES ASSUME ~touched PROVE Muxable(file[job]) /\ SizeOf(file[job]) = looked[job]
      OBVIOUS
    <3>1. FileChecked
      BY <1>1 DEF Seen
    <3>2. file[job].state # "tiny"
      BY <2>6, <3>1 DEF FileChecked, SizeOf
    <3> QED BY <2>0, <2>6, <3>1, <3>2 DEF FileChecked, Muxable, AllStates
  <2> QED BY <2>5, <2>6, <2>7
<1>2. Inv /\ Seen /\ [Next]_vars => \A j \in Jobs, g \in Gens :
         verdict[j][g] = "none" /\ verdict'[j][g] = "Ready" =>
            /\ streak[j] = 2 /\ looked[j] > 0
            /\ touched \/ (Muxable(file[j]) /\ SizeOf(file[j]) = looked[j])
  BY <1>1
<1>3. Inv /\ Seen /\ [Next]_vars => [\A j \in Jobs, g \in Gens :
         verdict[j][g] = "none" /\ verdict'[j][g] = "Ready" =>
            /\ streak[j] = 2 /\ looked[j] > 0
            /\ touched \/ (Muxable(file[j]) /\ SizeOf(file[j]) = looked[j])]_vars
  BY <1>2
<1> QED BY <1>3, SeenInvariance, PTL DEF Spec, ReadyAfterTwoLooks
=============================================================================
