-------------------------- MODULE JobEngineExports --------------------------
(* What JobEngine muxes and what it recycles: of an SDR export only what the *)
(* user chose, of an original the content that was muxed, and of an export   *)
(* one mux.                                                                  *)
EXTENDS JobEngineOnce

-----------------------------------------------------------------------------
(* What a handler does to the rows, the probes and the requests *)

\* The transfer says HDR, and not because the user said so.
Bare(r) == r.transfer = "hdr" /\ ~r.byUser

RowKept(r, s) ==
    /\ s.key = r.key /\ s.gen = r.gen
    /\ s.state = Absent <=> r.state = Absent
    /\ s.recycle = "Recycled" => r.recycle = "Recycled"
    /\ Bare(s) => Bare(r) \/ Colour[s.key] = "hdr"

\* A probe reads the file of its job.
ProbeKept(e, f, i) ==
    f.probe[i].st # "none" => \/ e.probe[i].st # "none" /\ f.probe[i].key = e.probe[i].key
                              \/ Present(f, i) /\ f.probe[i].key = f.jobs[i].key

\* And a request names it.
QueueKept(e, f) ==
    \A n \in 1..Len(f.queue) :
        \/ \E m \in 1..Len(e.queue) : f.queue[n] = e.queue[m]
        \/ f.queue[n].job \in Ids /\ f.queue[n].key = f.jobs[f.queue[n].job].key

\* No row is made, removed, stamped or recycled, and only those in D are Done
\* that were not; in the first a job may lose its stamp.
Loose(e, f, D) ==
    /\ \A i \in Ids : /\ RowKept(e.jobs[i], f.jobs[i]) /\ ProbeKept(e, f, i)
                      /\ f.jobs[i].stamp = e.jobs[i].stamp \/ f.jobs[i].stamp = NoStamp
                      /\ f.jobs[i].state = "Done" => e.jobs[i].state = "Done" \/ i \in D
    /\ QueueKept(e, f) /\ f.forced \subseteq e.forced
    /\ f.file = e.file /\ f.inbox = e.inbox /\ f.muxing = e.muxing /\ f.nextId = e.nextId
Plain(e, f, D) == Loose(e, f, D) /\ \A i \in Ids : f.jobs[i].stamp = e.jobs[i].stamp

LEMMA PlainItself == ASSUME NEW e, NEW D PROVE Plain(e, e, D)
BY DEF Plain, Loose, RowKept, ProbeKept, QueueKept

LEMMA LooseTwice ==
  ASSUME NEW e, NEW f, NEW g, NEW D, Loose(e, f, D), Loose(f, g, D) PROVE Loose(e, g, D)
<1>1. ASSUME NEW i \in Ids PROVE RowKept(e.jobs[i], g.jobs[i])
  BY DEF Loose, RowKept
<1>2. ASSUME NEW i \in Ids PROVE ProbeKept(e, g, i)
  <2>1. ProbeKept(e, f, i) /\ ProbeKept(f, g, i) /\ RowKept(f.jobs[i], g.jobs[i])
    BY DEF Loose
  <2> QED
    BY <2>1 DEF ProbeKept, RowKept, Present
<1>3. QueueKept(e, g)
  <2> SUFFICES ASSUME NEW n \in 1..Len(g.queue),
                      ~(g.queue[n].job \in Ids /\ g.queue[n].key = g.jobs[g.queue[n].job].key)
               PROVE  \E m \in 1..Len(e.queue) : g.queue[n] = e.queue[m]
    BY DEF QueueKept
  <2>1. PICK m \in 1..Len(f.queue) : g.queue[n] = f.queue[m]
    BY DEF Loose, QueueKept
  <2>2. ~(f.queue[m].job \in Ids /\ f.queue[m].key = f.jobs[f.queue[m].job].key)
    BY <2>1 DEF Loose, RowKept
  <2> QED
    BY <2>1, <2>2 DEF Loose, QueueKept
<1>4. ASSUME NEW i \in Ids
      PROVE  /\ g.jobs[i].stamp = e.jobs[i].stamp \/ g.jobs[i].stamp = NoStamp
             /\ g.jobs[i].state = "Done" => e.jobs[i].state = "Done" \/ i \in D
  BY DEF Loose
<1> QED
  BY <1>1, <1>2, <1>3, <1>4 DEF Loose

LEMMA PlainTwice ==
  ASSUME NEW e, NEW f, NEW g, NEW D, Plain(e, f, D), Plain(f, g, D) PROVE Plain(e, g, D)
BY LooseTwice DEF Plain

LEMMA EditPlain ==
  ASSUME NEW e, Sound(e), NEW D, NEW j \in Ids, NEW r, RowKept(e.jobs[j], r),
         r.stamp = e.jobs[j].stamp, r.state = "Done" => e.jobs[j].state = "Done" \/ j \in D,
         NEW f, f = [e EXCEPT !.jobs = [e.jobs EXCEPT ![j] = r]]
  PROVE  Plain(e, f, D)
<1>1. /\ f.probe = e.probe /\ f.queue = e.queue /\ f.forced = e.forced
      /\ f.file = e.file /\ f.inbox = e.inbox /\ f.muxing = e.muxing /\ f.nextId = e.nextId
      /\ \A i \in Ids : f.jobs[i] = IF i = j THEN r ELSE e.jobs[i]
  BY DEF Sound, Engine
<1>2. \A i \in Ids : RowKept(e.jobs[i], e.jobs[i])
  BY DEF RowKept
<1> QED
  BY <1>1, <1>2 DEF Plain, Loose, ProbeKept, QueueKept

\* The table stays as it is.
LEMMA AsidePlain ==
  ASSUME NEW e, NEW f, NEW D, f.jobs = e.jobs, f.queue = e.queue, f.file = e.file,
         f.inbox = e.inbox, f.muxing = e.muxing, f.nextId = e.nextId, f.forced \subseteq e.forced,
         \A i \in Ids : ProbeKept(e, f, i)
  PROVE  Plain(e, f, D)
BY DEF Plain, Loose, RowKept, QueueKept

LEMMA CancelProbePlain ==
  ASSUME NEW e, Sound(e), NEW D, NEW j \in Ids, NEW f, f = CancelProbe(e, j)
  PROVE  Plain(e, f, D)
<1>1. CASE j \notin e.tracked
  BY <1>1, PlainItself DEF CancelProbe
<1>2. CASE j \in e.tracked
  <2>1. f = [e EXCEPT !.probe = [e.probe EXCEPT ![j] = NoProbe], !.tracked = e.tracked \ {j}]
    BY <1>2 DEF CancelProbe, Sound, Engine
  <2>2. /\ f.jobs = e.jobs /\ f.queue = e.queue /\ f.file = e.file /\ f.forced = e.forced
        /\ f.inbox = e.inbox /\ f.muxing = e.muxing /\ f.nextId = e.nextId
        /\ \A i \in Ids : f.probe[i] = IF i = j THEN NoProbe ELSE e.probe[i]
    BY <2>1 DEF Sound, Engine
  <2>3. \A i \in Ids : ProbeKept(e, f, i)
    BY <2>2 DEF ProbeKept, NoProbe
  <2> QED
    BY <2>2, <2>3, AsidePlain
<1> QED
  BY <1>1, <1>2

LEMMA SchedulePlain ==
  ASSUME NEW e, Sound(e), NEW D, NEW j, Present(e, j), NEW f, f = Schedule(e, j)
  PROVE  Plain(e, f, D)
<1> DEFINE n == [st |-> "live", key |-> e.jobs[j].key]
<1>1. f = [e EXCEPT !.probe = [e.probe EXCEPT ![j] = n], !.tracked = e.tracked \cup {j}]
  BY DEF Schedule, Sound, Engine
<1>2. n.key = e.jobs[j].key /\ j \in Ids
  BY DEF Present
<1> HIDE DEF n
<1>3. /\ f.jobs = e.jobs /\ f.queue = e.queue /\ f.file = e.file /\ f.forced = e.forced
      /\ f.inbox = e.inbox /\ f.muxing = e.muxing /\ f.nextId = e.nextId
      /\ \A i \in Ids : f.probe[i] = IF i = j THEN n ELSE e.probe[i]
  BY <1>1 DEF Sound, Engine
<1>4. \A i \in Ids : ProbeKept(e, f, i)
  BY <1>2, <1>3 DEF ProbeKept, Present
<1> QED
  BY <1>3, <1>4, AsidePlain

LEMMA ScheduleIfWaitingPlain ==
  ASSUME NEW e, Sound(e), NEW D, NEW j, Present(e, j), NEW f, f = ScheduleIfWaiting(e, j)
  PROVE  Plain(e, f, D)
BY SchedulePlain, PlainItself DEF ScheduleIfWaiting

LEMMA FailProbePlain ==
  ASSUME NEW e, Sound(e), NEW D, NEW j \in Ids, NEW f, f = FailProbe(e, j)
  PROVE  Plain(e, f, D)
<1> DEFINE st == CASE e.probe[j].st = "live" -> "failing" [] e.probe[j].st = "judged" -> "judgedFailing"
                   [] OTHER -> e.probe[j].st
           n == [e.probe[j] EXCEPT !.st = st]
<1>1. f = [e EXCEPT !.probe = [e.probe EXCEPT ![j] = n]]
  BY DEF FailProbe, Sound, Engine
<1>2. n.key = e.probe[j].key /\ (n.st # "none" => e.probe[j].st # "none")
  <2>1. e.probe[j] \in ProbeRecord
    BY DEF Sound, Engine
  <2>2. st = "none" <=> e.probe[j].st = "none"
    OBVIOUS
  <2> HIDE DEF st
  <2> QED
    BY <2>1, <2>2 DEF ProbeRecord
<1> HIDE DEF n
<1>3. /\ f.jobs = e.jobs /\ f.queue = e.queue /\ f.file = e.file /\ f.forced = e.forced
      /\ f.inbox = e.inbox /\ f.muxing = e.muxing /\ f.nextId = e.nextId
      /\ \A i \in Ids : f.probe[i] = IF i = j THEN n ELSE e.probe[i]
  BY <1>1 DEF Sound, Engine
<1>4. \A i \in Ids : ProbeKept(e, f, i)
  BY <1>2, <1>3 DEF ProbeKept
<1> QED
  BY <1>3, <1>4, AsidePlain

LEMMA UntrackPlain ==
  ASSUME NEW e, Sound(e), NEW D, NEW j, NEW f, f = Untrack(e, j)
  PROVE  Plain(e, f, D)
<1>1. /\ f.jobs = e.jobs /\ f.queue = e.queue /\ f.file = e.file /\ f.forced = e.forced
      /\ f.inbox = e.inbox /\ f.muxing = e.muxing /\ f.nextId = e.nextId /\ f.probe = e.probe
  BY DEF Untrack, Sound, Engine
<1> QED
  BY <1>1, AsidePlain DEF ProbeKept

LEMMA LessForcedPlain ==
  ASSUME NEW e, Sound(e), NEW D, NEW S, NEW f, f = [e EXCEPT !.forced = S], S \subseteq e.forced
  PROVE  Plain(e, f, D)
<1>1. /\ f.jobs = e.jobs /\ f.queue = e.queue /\ f.file = e.file /\ f.forced = S
      /\ f.inbox = e.inbox /\ f.muxing = e.muxing /\ f.nextId = e.nextId /\ f.probe = e.probe
  BY DEF Sound, Engine
<1> QED
  BY <1>1, AsidePlain DEF ProbeKept

LEMMA TransitionPlain ==
  ASSUME NEW e, Sound(e), NEW D, NEW j, Present(e, j), NEW s \in States \ {Absent}, NEW w \in Reasons,
         s = "Done" => j \in D, NEW f, f = Transition(e, j, s, w)
  PROVE  Plain(e, f, D)
<1>1. /\ e \in Engine /\ j \in Ids /\ e.jobs[j] \in JobRecord /\ e.jobs[j].state # Absent
      /\ JobSound(e, j)
  BY DEF Sound, Engine, Present
<1> DEFINE r == [e.jobs[j] EXCEPT !.state = s, !.why = w]
           moved == [e EXCEPT !.jobs[j].state = s, !.jobs[j].why = w]
<1>2. /\ r \in JobRecord /\ r.state = s /\ r.key = e.jobs[j].key /\ r.gen = e.jobs[j].gen
      /\ r.stamp = e.jobs[j].stamp /\ r.recycle = e.jobs[j].recycle
      /\ r.transfer = e.jobs[j].transfer /\ r.byUser = e.jobs[j].byUser
      /\ (r \in Holding => e.jobs[j] \in Holding)
  BY <1>1 DEF JobRecord, Holding
<1>3. moved = [e EXCEPT !.jobs = [e.jobs EXCEPT ![j] = r]]
  BY <1>1 DEF Engine
<1>4. f = IF s \in Terminal THEN [CancelProbe(moved, j) EXCEPT !.forced = @ \ {j}] ELSE moved
  BY DEF Transition
<1> HIDE DEF r, moved
<1>5. Sound(moved)
  BY <1>1, <1>2, <1>3, EditJob DEF JobSound
<1>6. Plain(e, moved, D)
  <2>1. RowKept(e.jobs[j], r)
    BY <1>1, <1>2 DEF RowKept, Bare
  <2> QED
    BY <1>1, <1>2, <1>3, <2>1, EditPlain
<1>7. CASE s \notin Terminal
  BY <1>4, <1>6, <1>7
<1>8. CASE s \in Terminal
  <2> DEFINE c == CancelProbe(moved, j)
             S == c.forced \ {j}
  <2>1. Sound(c) /\ Plain(moved, c, D)
    BY <1>1, <1>5, CancelProbeKeeps, CancelProbePlain
  <2>2. f = [c EXCEPT !.forced = S]
    BY <1>4, <1>8, <2>1 DEF Sound, Engine
  <2> HIDE DEF c
  <2>3. Plain(c, f, D)
    BY <2>1, <2>2, LessForcedPlain
  <2> QED
    BY <1>6, <2>1, <2>3, PlainTwice
<1> QED
  BY <1>7, <1>8

LEMMA LearnPlain ==
  ASSUME NEW e, Sound(e), NEW D, NEW j, Present(e, j), NEW f,
         f = Learn(e, j) \/ f = Correct(e, j)
  PROVE  Plain(e, f, D)
<1>1. j \in Ids /\ e \in Engine /\ e.jobs[j] \in JobRecord /\ e.jobs[j].key \in Keys
  BY KeyOfPresent
<1>2. CASE f = Learn(e, j)
  <2> DEFINE t == IF e.jobs[j].transfer = "unknown" THEN Colour[e.jobs[j].key]
                                                    ELSE e.jobs[j].transfer
             r == [e.jobs[j] EXCEPT !.transfer = t]
  <2>1. f = [e EXCEPT !.jobs = [e.jobs EXCEPT ![j] = r]]
    BY <1>1, <1>2 DEF Learn, Engine
  <2>2. t = "hdr" => e.jobs[j].transfer = "hdr" \/ Colour[e.jobs[j].key] = "hdr"
    OBVIOUS
  <2> HIDE DEF t
  <2>3. /\ r.state = e.jobs[j].state /\ r.key = e.jobs[j].key /\ r.gen = e.jobs[j].gen
        /\ r.stamp = e.jobs[j].stamp /\ r.recycle = e.jobs[j].recycle
        /\ r.transfer = t /\ r.byUser = e.jobs[j].byUser
    BY <1>1 DEF JobRecord
  <2> HIDE DEF r
  <2>4. RowKept(e.jobs[j], r)
    BY <2>2, <2>3 DEF RowKept, Bare
  <2> QED
    BY <1>1, <2>1, <2>3, <2>4, EditPlain
<1>3. CASE f = Correct(e, j)
  <2> DEFINE t == Colour[e.jobs[j].key]
             r == [e.jobs[j] EXCEPT !.transfer = t, !.byUser = FALSE]
  <2>1. f = [e EXCEPT !.jobs = [e.jobs EXCEPT ![j] = r]]
    BY <1>1, <1>3 DEF Correct, Engine
  <2>3. /\ r.state = e.jobs[j].state /\ r.key = e.jobs[j].key /\ r.gen = e.jobs[j].gen
        /\ r.stamp = e.jobs[j].stamp /\ r.recycle = e.jobs[j].recycle /\ r.transfer = t
    BY <1>1 DEF JobRecord
  <2> HIDE DEF r
  <2>4. RowKept(e.jobs[j], r)
    BY <2>3 DEF RowKept, Bare
  <2> QED
    BY <1>1, <2>1, <2>3, <2>4, EditPlain
<1> QED
  BY <1>2, <1>3

\* A choice of the user, or how recycling went, is written into a row.
LEMMA ChoicePlain ==
  ASSUME NEW e, Sound(e), NEW D, NEW j, Present(e, j), NEW f,
         \/ \E h \in BOOLEAN : f = [e EXCEPT !.jobs[j].hold = h]
         \/ \E s \in {"NotRequested", "Pending", "KeptSourceChanged", "KeptNoBin", "KeptDisabled",
                      "Failed"} : f = [e EXCEPT !.jobs[j].recycle = s]
         \/ f \in Selections(e, j)
  PROVE  Plain(e, f, D)
<1>1. j \in Ids /\ e \in Engine /\ e.jobs[j] \in JobRecord
  BY KeyOfPresent
<1>2. ASSUME NEW h \in BOOLEAN, f = [e EXCEPT !.jobs[j].hold = h] PROVE Plain(e, f, D)
  <2> DEFINE r == [e.jobs[j] EXCEPT !.hold = h]
  <2>1. f = [e EXCEPT !.jobs = [e.jobs EXCEPT ![j] = r]]
    BY <1>1, <1>2 DEF Engine
  <2>2. /\ r.state = e.jobs[j].state /\ r.key = e.jobs[j].key /\ r.gen = e.jobs[j].gen
        /\ r.stamp = e.jobs[j].stamp /\ r.recycle = e.jobs[j].recycle
        /\ r.transfer = e.jobs[j].transfer /\ r.byUser = e.jobs[j].byUser
    BY <1>1 DEF JobRecord
  <2> HIDE DEF r
  <2>3. RowKept(e.jobs[j], r)
    BY <2>2 DEF RowKept, Bare
  <2> QED
    BY <1>1, <2>1, <2>2, <2>3, EditPlain
<1>3. ASSUME NEW s, s # "Recycled", f = [e EXCEPT !.jobs[j].recycle = s] PROVE Plain(e, f, D)
  <2> DEFINE r == [e.jobs[j] EXCEPT !.recycle = s]
  <2>1. f = [e EXCEPT !.jobs = [e.jobs EXCEPT ![j] = r]]
    BY <1>1, <1>3 DEF Engine
  <2>2. /\ r.state = e.jobs[j].state /\ r.key = e.jobs[j].key /\ r.gen = e.jobs[j].gen
        /\ r.stamp = e.jobs[j].stamp /\ r.recycle = s
        /\ r.transfer = e.jobs[j].transfer /\ r.byUser = e.jobs[j].byUser
    BY <1>1 DEF JobRecord
  <2> HIDE DEF r
  <2>3. RowKept(e.jobs[j], r)
    BY <1>3, <2>2 DEF RowKept, Bare
  <2> QED
    BY <1>1, <2>1, <2>2, <2>3, EditPlain
<1>4. CASE f = [e EXCEPT !.jobs[j].preset = FALSE]
  <2> DEFINE r == [e.jobs[j] EXCEPT !.preset = FALSE]
  <2>1. f = [e EXCEPT !.jobs = [e.jobs EXCEPT ![j] = r]]
    BY <1>1, <1>4 DEF Engine
  <2>2. /\ r.state = e.jobs[j].state /\ r.key = e.jobs[j].key /\ r.gen = e.jobs[j].gen
        /\ r.stamp = e.jobs[j].stamp /\ r.recycle = e.jobs[j].recycle
        /\ r.transfer = e.jobs[j].transfer /\ r.byUser = e.jobs[j].byUser
    BY <1>1 DEF JobRecord
  <2> HIDE DEF r
  <2>3. RowKept(e.jobs[j], r)
    BY <2>2 DEF RowKept, Bare
  <2> QED
    BY <1>1, <2>1, <2>2, <2>3, EditPlain
<1>5. ASSUME NEW kind \in {"unknown", "hdr", "sdr"},
             f = [e EXCEPT !.jobs[j] = WithPreset(e.jobs[j], kind)]
      PROVE  Plain(e, f, D)
  <2> DEFINE old == e.jobs[j]
             r == WithPreset(old, kind)
             fills == old.transfer = "unknown"
             t == IF fills THEN kind ELSE old.transfer
             u == old.byUser \/ (fills /\ kind # "unknown")
  <2>1. f = [e EXCEPT !.jobs = [e.jobs EXCEPT ![j] = r]]
    BY <1>1, <1>5 DEF Engine
  <2>2. r = [old EXCEPT !.preset = TRUE, !.transfer = t, !.byUser = u]
    BY <1>1 DEF WithPreset, JobRecord
  <2>3. t = "hdr" /\ ~u => Bare(old)
    BY DEF Bare
  <2> HIDE DEF r, t, u, fills
  <2>4. /\ r.state = old.state /\ r.key = old.key /\ r.gen = old.gen
        /\ r.stamp = old.stamp /\ r.recycle = old.recycle
        /\ r.transfer = t /\ r.byUser = u
    BY <1>1, <2>2 DEF JobRecord
  <2>5. RowKept(old, r)
    BY <2>3, <2>4 DEF RowKept, Bare
  <2> QED
    BY <1>1, <2>1, <2>4, <2>5, EditPlain
<1> QED
  BY <1>2, <1>3, <1>4, <1>5, PlainItself DEF Selections

-----------------------------------------------------------------------------
(* onReady *)

\* The user's preset, or what is known of the transfer, asks for HDR metadata.
Chosen(r) == r.preset \/ r.transfer = "hdr"

LEMMA TransitionState ==
  ASSUME NEW e, Sound(e), NEW j, Present(e, j), NEW s \in States \ {Absent}, NEW w \in Reasons,
         NEW f, f = Transition(e, j, s, w)
  PROVE  f.jobs[j].state = s /\ (Chosen(e.jobs[j]) => Chosen(f.jobs[j]))
<1>1. e \in Engine /\ j \in Ids /\ e.jobs[j] \in JobRecord
  BY DEF Sound, Engine, Present
<1> DEFINE r == [e.jobs[j] EXCEPT !.state = s, !.why = w]
           moved == [e EXCEPT !.jobs[j].state = s, !.jobs[j].why = w]
<1>2. /\ r \in JobRecord /\ r.state = s /\ r.key = e.jobs[j].key /\ r.gen = e.jobs[j].gen
      /\ r.preset = e.jobs[j].preset /\ r.transfer = e.jobs[j].transfer
      /\ (r \in Holding => e.jobs[j] \in Holding)
  BY <1>1 DEF JobRecord, Holding
<1>3. moved = [e EXCEPT !.jobs = [e.jobs EXCEPT ![j] = r]]
  BY <1>1 DEF Engine
<1>4. f = IF s \in Terminal THEN [CancelProbe(moved, j) EXCEPT !.forced = @ \ {j}] ELSE moved
  BY DEF Transition
<1> HIDE DEF r, moved
<1>5. Sound(moved) /\ moved.jobs[j] = r
  <2>1. JobSound(e, j) /\ e.jobs[j].state # Absent
    BY <1>1 DEF Sound, Present
  <2> QED
    BY <1>1, <1>2, <1>3, <2>1, EditJob DEF JobSound
<1>6. f.jobs = moved.jobs
  <2>1. Sound(CancelProbe(moved, j)) /\ CancelProbe(moved, j).jobs = moved.jobs
    BY <1>1, <1>5, CancelProbeKeeps
  <2> QED
    BY <1>4, <2>1 DEF Sound, Engine
<1> QED
  BY <1>2, <1>5, <1>6 DEF Chosen

LEMMA DispatchPlain ==
  ASSUME NEW e, Sound(e), NEW j, Present(e, j), NEW f, f = Dispatch(e, j)
  PROVE  /\ Plain(e, f, {})
         /\ Chosen(e.jobs[j]) => f.jobs[j].state = "Held" \/ Chosen(f.jobs[j])
<1>1. "mkvmerge" \in Reasons /\ "source" \in Reasons /\ "" \in Reasons
      /\ "Held" \in States \ {Absent} /\ "Muxing" \in States \ {Absent}
  BY StateFacts DEF Reasons, Calm
<1>2. CASE ~(e.tool /\ Exists(e, e.jobs[j].key))
  <2>1. PICK w \in {"mkvmerge", "source"} : f = Transition(e, j, "Held", w)
    BY <1>2 DEF Dispatch
  <2> DEFINE s == "Held"
  <2>2. s \in States \ {Absent} /\ w \in Reasons /\ s # "Done" /\ f = Transition(e, j, s, w)
    BY <1>1, <2>1
  <2> HIDE DEF s
  <2>3. Plain(e, f, {})
    BY <2>2, TransitionPlain
  <2>4. f.jobs[j].state = s
    BY <2>2, TransitionState
  <2> QED
    BY <2>3, <2>4 DEF s
<1>3. CASE e.tool /\ Exists(e, e.jobs[j].key)
  <2> DEFINE s == "Muxing"
             w == ""
             t == Transition(e, j, s, w)
             r == [job |-> j, key |-> e.jobs[j].key]
  <2>1. f = [t EXCEPT !.queue = Append(@, r)]
    BY <1>3 DEF Dispatch
  <2>2. s \in States \ {Absent} /\ w \in Reasons /\ s # "Done"
    BY <1>1
  <2>3. r \in Request /\ r.job = j /\ j \in Ids /\ r.key = e.jobs[j].key
    BY KeyOfPresent DEF Request
  <2> HIDE DEF s, w, r
  <2>4. /\ Sound(t) /\ Plain(e, t, {}) /\ (Chosen(e.jobs[j]) => Chosen(t.jobs[j]))
    BY <2>2, TransitionKeeps, TransitionPlain, TransitionState
  <2> HIDE DEF t
  <2>5. /\ t.queue \in Seq(Request) /\ f.queue = Append(t.queue, r) /\ f.jobs = t.jobs
        /\ f.probe = t.probe /\ f.file = t.file /\ f.inbox = t.inbox /\ f.muxing = t.muxing
        /\ f.nextId = t.nextId /\ f.forced = t.forced
    BY <2>1, <2>4 DEF Sound, Engine
  <2>6. QueueKept(t, f)
    <3> SUFFICES ASSUME NEW n \in 1..Len(f.queue)
                 PROVE  \/ \E m \in 1..Len(t.queue) : f.queue[n] = t.queue[m]
                        \/ f.queue[n].job \in Ids /\ f.queue[n].key = f.jobs[f.queue[n].job].key
      BY DEF QueueKept
    <3>1. /\ Len(f.queue) = Len(t.queue) + 1 /\ Len(t.queue) \in Nat
          /\ \A m \in 1..Len(t.queue) : f.queue[m] = t.queue[m]
          /\ f.queue[Len(t.queue) + 1] = r
      BY <2>3, <2>5, AppendProperties, LenProperties
    <3>2. CASE n \in 1..Len(t.queue)
      BY <3>1, <3>2
    <3>3. CASE n = Len(t.queue) + 1
      <4>1. t.jobs[j].key = e.jobs[j].key
        BY <2>3, <2>4 DEF Plain, Loose, RowKept
      <4> QED
        BY <2>3, <2>5, <3>1, <3>3, <4>1
    <3> QED
      BY <3>1, <3>2, <3>3
  <2>7. Plain(t, f, {})
    BY <2>5, <2>6 DEF Plain, Loose, RowKept, ProbeKept
  <2> QED
    BY <2>4, <2>5, <2>7, PlainTwice
<1> QED
  BY <1>2, <1>3

LEMMA PoliciesPlain ==
  ASSUME NEW e, Sound(e), NEW j, Present(e, j), NEW S, NEW f, f = Policies(e, j, j \in S)
  PROVE  /\ Plain(e, f, {})
         /\ j \notin S /\ HoldUnknown /\ SdrPolicy \in {"skip", "hold"} =>
              f.jobs[j].state # "Muxing" \/ Chosen(f.jobs[j])
<1>1. CASE f = Dispatch(e, j) /\ ~(\/ /\ e.jobs[j].transfer = "sdr" /\ ~e.jobs[j].preset /\ j \notin S
                                      /\ SdrPolicy \in {"skip", "hold"}
                                   \/ /\ e.jobs[j].transfer = "unknown" /\ HoldUnknown
                                      /\ ~e.jobs[j].preset)
  <2>1. e.jobs[j].transfer \in {"unknown", "hdr", "sdr"}
    BY KeyOfPresent DEF JobRecord
  <2>2. j \notin S /\ HoldUnknown /\ SdrPolicy \in {"skip", "hold"} => Chosen(e.jobs[j])
    BY <1>1, <2>1 DEF Chosen
  <2> QED
    BY <1>1, <2>2, DispatchPlain
<1>2. ASSUME NEW s \in {"Held", "SkippedSdr"}, NEW w \in {"sdr", "unknown", "waiting"},
             f = Transition(e, j, s, w)
      PROVE  Plain(e, f, {}) /\ f.jobs[j].state # "Muxing"
  <2>1. s \in States \ {Absent} /\ w \in Reasons
    BY StateFacts DEF Reasons, Calm
  <2>2. s # "Done" /\ s # "Muxing"
    OBVIOUS
  <2>3. Plain(e, f, {})
    BY <1>2, <2>1, <2>2, TransitionPlain
  <2>4. f.jobs[j].state = s
    BY <1>2, <2>1, TransitionState
  <2> QED
    BY <2>2, <2>3, <2>4
<1>3. \/ f = Transition(e, j, "SkippedSdr", "sdr") \/ f = Transition(e, j, "Held", "sdr")
      \/ f = Transition(e, j, "Held", "unknown") \/ f = Transition(e, j, "Held", "waiting")
      \/ /\ f = Dispatch(e, j) 
         /\ ~(\/ /\ e.jobs[j].transfer = "sdr" /\ ~e.jobs[j].preset /\ j \notin S
                 /\ SdrPolicy \in {"skip", "hold"}
              \/ /\ e.jobs[j].transfer = "unknown" /\ HoldUnknown
                 /\ ~e.jobs[j].preset)
  BY DEF Policies
<1> QED
  BY <1>1, <1>2, <1>3

LEMMA OnReadyPlain ==
  ASSUME NEW e, Sound(e), NEW j, Present(e, j), NEW f, f \in OnReady(e, j)
  PROVE  /\ Plain(e, f, {})
         /\ j \notin e.forced /\ HoldUnknown /\ SdrPolicy \in {"skip", "hold"} =>
              f.jobs[j].state # "Muxing" \/ Chosen(f.jobs[j])
<1> DEFINE d == e.forced \ {j}
           a == [e EXCEPT !.forced = d]
           s == "Ready"
           w == ""
           b == Transition(a, j, s, w)
<1>1. s \in States \ {Absent} /\ w \in Reasons /\ s # "Done" /\ j \in Ids
  BY StateFacts DEF Reasons, Calm, Present
<1>2. d \in SUBSET Ids /\ d \subseteq e.forced /\ \A i \in d : e.jobs[i] \notin Holding
  BY DEF Sound, Engine, JobSound
<1>3. [e EXCEPT !.forced = @ \ {j}] = a
  BY DEF Sound, Engine
<1> HIDE DEF d
<1>4. Sound(a) /\ a.jobs = e.jobs /\ Plain(e, a, {})
  BY <1>2, ForcedKeeps, LessForcedPlain
<1>5. PICK r : r \in {b, Learn(b, j)} /\ f = Policies(r, j, j \in e.forced)
  BY <1>3 DEF OnReady
<1> HIDE DEF a, s, w
<1>6. Present(a, j)
  BY <1>1, <1>4 DEF Present
<1>7. Sound(b) /\ Plain(a, b, {}) /\ Present(b, j)
  BY <1>1, <1>4, <1>6, TransitionKeeps, TransitionPlain
<1> HIDE DEF b
<1>8. Sound(r) /\ Plain(b, r, {}) /\ Present(r, j)
  BY <1>5, <1>7, LearnQuiet, LearnPlain, PlainItself
<1>9. Plain(r, f, {}) /\ (j \notin e.forced /\ HoldUnknown /\ SdrPolicy \in {"skip", "hold"} =>
                            f.jobs[j].state # "Muxing" \/ Chosen(f.jobs[j]))
  BY <1>5, <1>8, PoliciesPlain
<1> QED
  BY <1>4, <1>7, <1>8, <1>9, PlainTwice

-----------------------------------------------------------------------------
(* The triggers *)

\* A row is made, one generation above the others of its key.
Born(e, f, k) ==
    /\ Sound(f) /\ k \in Keys /\ e.nextId \in Ids /\ e.jobs[e.nextId].state = Absent
    /\ f.nextId = e.nextId + 1
    /\ \A i \in Ids \ {e.nextId} : f.jobs[i] = e.jobs[i]
    /\ f.jobs[e.nextId].key = k /\ f.jobs[e.nextId].stamp = NoStamp
    /\ f.jobs[e.nextId].state = "Discovered" /\ f.jobs[e.nextId].recycle = "NotRequested"
    /\ ~Bare(f.jobs[e.nextId])
    /\ \A i \in Ids : e.jobs[i].key = k => e.jobs[i].gen < f.jobs[e.nextId].gen
    /\ f.queue = e.queue /\ f.probe = e.probe /\ f.forced = e.forced
    /\ f.file = e.file /\ f.inbox = e.inbox /\ f.muxing = e.muxing

\* The newest job of the key is not about the file that is there now.
Fresh(e, k) == FindByKey(e, k) = 0 \/ ~Unchanged(e, FindByKey(e, k))

\* An event joins the job of its file or makes one; in the first only when the
\* file is a new one.
JoinsFresh(e, f) == \/ Plain(e, f, {})
                    \/ \E k \in Keys : \E g : Born(e, g, k) /\ Fresh(e, k) /\ Plain(g, f, {})
Joins(e, f) == Plain(e, f, {}) \/ \E k \in Keys : \E g : Born(e, g, k) /\ Plain(g, f, {})

LEMMA CreateBorn ==
  ASSUME NEW e, Sound(e), e.nextId \in Ids, NEW k \in Keys, NEW source \in Sources,
         NEW f, f = Create(e, k, source)
  PROVE  Born(e, f, k)
<1> DEFINE b == FindByKey(e, k)
           gen == IF b = 0 THEN 1 ELSE e.jobs[b].gen + 1
           r == [NoJob EXCEPT !.key = k, !.gen = gen, !.state = "Discovered", !.source = source]
           j == e.nextId
<1>1. e \in Engine /\ Ids \subseteq Nat /\ \A i \in Ids : e.jobs[i] \in JobRecord
  BY BoundsAssumption DEF Sound, Engine, Ids
<1>2. f = [e EXCEPT !.jobs = [e.jobs EXCEPT ![j] = r], !.nextId = j + 1]
  BY <1>1 DEF Create, Engine
<1>3. \A i \in Ids : e.jobs[i].key = k => e.jobs[i].gen < gen
  <2> SUFFICES ASSUME NEW i \in Ids, e.jobs[i].key = k PROVE e.jobs[i].gen < gen
    OBVIOUS
  <2>1. OfKey(e, k) \subseteq Ids /\ i \in OfKey(e, k)
    BY DEF OfKey
  <2>2. b \in OfKey(e, k) /\ b # 0 /\ \A m \in OfKey(e, k) \ {b} : Outranks(e, b, m)
    BY <2>1, BestIsMember DEF FindByKey
  <2> HIDE DEF b
  <2>3. gen = e.jobs[b].gen + 1 /\ b \in Ids
    BY <2>1, <2>2
  <2>4. i = b \/ e.jobs[b].gen > e.jobs[i].gen \/ e.jobs[b].gen = e.jobs[i].gen
    BY <2>1, <2>2 DEF Outranks
  <2>5. e.jobs[b].gen \in Nat /\ e.jobs[i].gen \in Nat
    BY <1>1, <2>3 DEF JobRecord
  <2> HIDE DEF gen
  <2> QED
    BY <2>3, <2>4, <2>5
<1> HIDE DEF gen
<1>4. /\ r.key = k /\ r.gen = gen /\ r.state = "Discovered" /\ r.stamp = NoStamp
      /\ r.recycle = "NotRequested" /\ ~Bare(r)
  BY DEF NoJob, Bare
<1> HIDE DEF r
<1>5. /\ \A i \in Ids : f.jobs[i] = IF i = j THEN r ELSE e.jobs[i]
      /\ f.nextId = j + 1 /\ f.queue = e.queue /\ f.probe = e.probe /\ f.forced = e.forced
      /\ f.file = e.file /\ f.inbox = e.inbox /\ f.muxing = e.muxing
  BY <1>1, <1>2 DEF Engine
<1>6. e.jobs[j].state = Absent
  <2>1. JobSound(e, j)
    BY DEF Sound
  <2>2. j \in Nat /\ j = e.nextId
    BY <1>1
  <2> HIDE DEF j
  <2>3. j >= e.nextId
    BY <2>2
  <2> QED
    BY <2>1, <2>3 DEF JobSound
<1>7. Sound(f)
  BY CreateMakes
<1> HIDE DEF j
<1> QED
  BY <1>3, <1>4, <1>5, <1>6, <1>7 DEF Born, j

LEMMA EnsureBorn ==
  ASSUME NEW e, Sound(e), e.nextId \in Ids, NEW k \in Keys, NEW source \in Sources,
         NEW f, f = Ensure(e, k, source), NEW j, j = EnsuredId(e, k)
  PROVE  /\ Sound(f) /\ Present(f, j)
         /\ f = e \/ (FindActiveByKey(e, k) = 0 /\ Born(e, f, k))
<1>1. Sound(f) /\ Present(f, j)
  BY EnsureMakes DEF QuietOrMakes
<1>2. f = e \/ (FindActiveByKey(e, k) = 0 /\ f = Create(e, k, source))
  BY DEF Ensure
<1> QED
  BY <1>1, <1>2, CreateBorn

LEMMA JoinsThenPlain ==
  ASSUME NEW e, NEW k \in Keys, NEW g, NEW f, g = e \/ (FindActiveByKey(e, k) = 0 /\ Born(e, g, k)),
         Plain(g, f, {})
  PROVE  Joins(e, f) /\ (g = e \/ Fresh(e, k) => JoinsFresh(e, f))
BY DEF Joins, JoinsFresh

LEMMA LogSuccessJoins ==
  ASSUME NEW e, Sound(e), e.nextId \in Ids, NEW k \in Keys, NEW f, f \in LogSuccess(e, k)
  PROVE  JoinsFresh(e, f)
<1> DEFINE j == EnsuredId(e, k)
           made == Ensure(e, k, "log")
           learned == Learn(made, j)
<1>1. \/ f = e
      \/ /\ f = ScheduleIfWaiting(learned, j)
         /\ FindActiveByKey(e, k) = 0 => 
              FindByKey(e, k) = 0 \/ ~SameFile(e.jobs[FindByKey(e, k)].stamp, Stamp(e, k))
  BY DEF LogSuccess
<1>2. /\ Sound(made) /\ Present(made, j)
      /\ made = e \/ (FindActiveByKey(e, k) = 0 /\ Born(e, made, k))
  BY EnsureBorn DEF Sources
<1> HIDE DEF made, j
<1>3. Sound(learned) /\ Present(learned, j) /\ Plain(made, learned, {})
  BY <1>2, LearnQuiet, LearnPlain
<1> HIDE DEF learned
<1>4. CASE f = e
  BY <1>4, PlainItself DEF JoinsFresh
<1>5. CASE f = ScheduleIfWaiting(learned, j)
  <2>1. Plain(made, f, {})
    BY <1>3, <1>5, ScheduleIfWaitingPlain, PlainTwice
  <2>2. CASE made = e
    BY <2>1, <2>2 DEF JoinsFresh
  <2>3. CASE FindActiveByKey(e, k) = 0 /\ Born(e, made, k)
    <3>1. CASE f = e
      BY <3>1, PlainItself DEF JoinsFresh
    <3>2. CASE f # e
      <4>1. FindByKey(e, k) = 0 \/ ~SameFile(e.jobs[FindByKey(e, k)].stamp, Stamp(e, k))
        BY <1>1, <2>3, <3>2
      <4>2. FindByKey(e, k) # 0 => e.jobs[FindByKey(e, k)].key = k
        BY BestIsMember DEF FindByKey, OfKey
      <4>3. Fresh(e, k)
        BY <4>1, <4>2 DEF Fresh, Unchanged
      <4> QED
        BY <2>1, <2>3, <4>3 DEF JoinsFresh
    <3> QED
      BY <3>1, <3>2
  <2> QED
    BY <1>2, <2>2, <2>3
<1> QED
  BY <1>1, <1>4, <1>5

LEMMA ReportFailurePlain ==
  ASSUME NEW e, Sound(e), NEW j, Present(e, j), NEW f, f = ReportFailure(e, j)
  PROVE  Plain(e, f, {})
<1>1. f = e \/ f = FailProbe(e, j) \/ f = Transition(e, j, "Failed", "reported")
  BY DEF ReportFailure
<1>2. "Failed" \in States \ {Absent} /\ "reported" \in Reasons /\ j \in Ids
  BY StateFacts DEF Reasons, Calm, Present
<1> QED
  BY <1>1, <1>2, PlainItself, FailProbePlain, TransitionPlain

LEMMA LogFailedPlain ==
  ASSUME NEW e, Sound(e), NEW k \in Keys, NEW f, f \in LogFailed(e, k)
  PROVE  Plain(e, f, {})
BY FindFacts, ReportFailurePlain, PlainItself DEF LogFailed, Present

LEMMA CatchUpJoins ==
  ASSUME NEW e, Sound(e), e.nextId \in Ids, NEW k \in Keys, NEW newer, NEW f,
         f \in CatchUp(e, k, newer)
  PROVE  JoinsFresh(e, f)
<1> DEFINE j == e.nextId
           made == Create(e, k, "catchUp")
           learned == Learn(made, j)
<1>1. \/ f = e
      \/ /\ f = Transition(learned, j, "Held", "catchUp")
         /\ FindByKey(e, k) = 0 \/ ~SameFile(e.jobs[FindByKey(e, k)].stamp, Stamp(e, k))
  BY DEF CatchUp
<1>2. CASE f = e
  BY <1>2, PlainItself DEF JoinsFresh
<1>3. CASE /\ f = Transition(learned, j, "Held", "catchUp")
           /\ FindByKey(e, k) = 0 \/ ~SameFile(e.jobs[FindByKey(e, k)].stamp, Stamp(e, k))
  <2>1. FindByKey(e, k) # 0 => e.jobs[FindByKey(e, k)].key = k
    BY BestIsMember DEF FindByKey, OfKey
  <2>2. Fresh(e, k)
    BY <1>3, <2>1 DEF Fresh, Unchanged
  <2>3. Sound(made) /\ Present(made, j) /\ Born(e, made, k)
    BY CreateMakes, CreateBorn DEF Sources
  <2> HIDE DEF made, j
  <2>4. Sound(learned) /\ Present(learned, j) /\ Plain(made, learned, {})
    BY <2>3, LearnQuiet, LearnPlain
  <2> HIDE DEF learned
  <2>5. "Held" \in States \ {Absent} /\ "catchUp" \in Reasons
    BY StateFacts DEF Reasons, Calm
  <2>6. Plain(learned, f, {})
    BY <1>3, <2>4, <2>5, TransitionPlain
  <2>7. Plain(made, f, {})
    BY <2>4, <2>6, PlainTwice
  <2> QED
    BY <2>2, <2>3, <2>7 DEF JoinsFresh
<1> QED
  BY <1>1, <1>2, <1>3

LEMMA BegunPlain ==
  ASSUME NEW e, Sound(e), NEW j, Present(e, j),
         NEW f, f = IF e.jobs[j].state = "Discovered" THEN Transition(e, j, "Encoding", "") ELSE e
  PROVE  Plain(e, f, {})
<1>1. "Encoding" \in States \ {Absent} /\ "" \in Reasons
  BY StateFacts DEF Reasons, Calm
<1> QED
  BY <1>1, PlainItself, TransitionPlain

LEMMA CepJoins ==
  ASSUME NEW e, Sound(e), e.nextId \in Ids, NEW k \in Keys, NEW ok, NEW f,
         f \in CepStarted(e, k) \/ f \in CepComplete(e, k, ok)
  PROVE  Joins(e, f)
<1> DEFINE j == EnsuredId(e, k)
           made == Ensure(e, k, "cep")
<1>1. \/ f = IF made.jobs[j].state = "Discovered" THEN Transition(made, j, "Encoding", "") ELSE made
      \/ f = ScheduleIfWaiting(made, j) \/ f = ReportFailure(made, j)
  BY DEF CepStarted, CepComplete
<1>2. /\ Sound(made) /\ Present(made, j)
      /\ made = e \/ (FindActiveByKey(e, k) = 0 /\ Born(e, made, k))
  BY EnsureBorn DEF Sources
<1> HIDE DEF made, j
<1>3. Plain(made, f, {})
  BY <1>1, <1>2, BegunPlain, ScheduleIfWaitingPlain, ReportFailurePlain
<1> QED
  BY <1>2, <1>3, JoinsThenPlain

LEMMA OnSidecarJoins ==
  ASSUME NEW e, Sound(e), e.nextId \in Ids, NEW ev, ev.key \in Keys, NEW f, f \in OnSidecar(e, ev)
  PROVE  Joins(e, f)
<1> DEFINE found == FindActiveByStem(e, ev.key)
           g == Guess[ev.key]
           made == IF found = 0 THEN Ensure(e, g, "folder") ELSE e
           j == IF found = 0 THEN EnsuredId(e, g) ELSE found
<1>1. f = IF made.jobs[j].state = "Discovered" THEN Transition(made, j, "Encoding", "") ELSE made
  BY DEF OnSidecar
<1>2. g \in Keys /\ "folder" \in Sources
  BY KeysAssumption DEF Sources
<1> HIDE DEF g
<1>3. /\ Sound(made) /\ Present(made, j)
      /\ made = e \/ (FindActiveByKey(e, g) = 0 /\ Born(e, made, g))
  <2>1. CASE found = 0
    <3>1. LET m == Ensure(e, g, "folder")
          IN  /\ Sound(m) /\ Present(m, EnsuredId(e, g))
              /\ m = e \/ (FindActiveByKey(e, g) = 0 /\ Born(e, m, g))
      BY <1>2, EnsureBorn
    <3> QED
      BY <2>1, <3>1
  <2>2. CASE found # 0
    BY <2>2, FindFacts DEF Present
  <2> QED
    BY <2>1, <2>2
<1> HIDE DEF made, j
<1>4. Plain(made, f, {})
  BY <1>1, <1>3, BegunPlain
<1> QED
  BY <1>2, <1>3, <1>4, JoinsThenPlain

LEMMA OutputRemovedPlain ==
  ASSUME NEW e, Sound(e), NEW k \in Keys, NEW f, f \in OutputRemoved(e, k)
  PROVE  Plain(e, f, {})
<1> DEFINE j == FindActiveByKey(e, k)
           c == CancelProbe(e, j)
<1>1. \/ f = e
      \/ j # 0 /\ f = Transition(e, j, "Failed", "removed")
      \/ j # 0 /\ f = Transition(c, j, "Failed", "source")
  BY DEF OutputRemoved
<1>2. "Failed" \in States \ {Absent} /\ "removed" \in Reasons /\ "source" \in Reasons
  BY StateFacts DEF Reasons, Calm
<1>3. CASE f = e
  BY <1>3, PlainItself
<1>4. CASE j # 0
  <2>1. Present(e, j) /\ j \in Ids
    BY <1>4, FindFacts DEF Present
  <2> HIDE DEF j
  <2>2. Sound(c) /\ c.jobs = e.jobs /\ Plain(e, c, {})
    BY <2>1, CancelProbeKeeps, CancelProbePlain
  <2>3. Present(c, j)
    BY <2>1, <2>2 DEF Present
  <2> HIDE DEF c
  <2> QED
    BY <1>1, <1>2, <2>1, <2>2, <2>3, PlainItself, PlainTwice, TransitionPlain
<1> QED
  BY <1>1, <1>3, <1>4

LEMMA OutputSeenJoins ==
  ASSUME NEW e, Sound(e), e.nextId \in Ids, NEW k \in Keys, NEW action, NEW scan,
         NEW f, f \in OutputSeen(e, k, action, scan)
  PROVE  JoinsFresh(Upgrade(e, k), f)
<1> DEFINE up == Upgrade(e, k)
           j == EnsuredId(up, k)
           made == Ensure(up, k, "folder")
<1>1. Sound(up) /\ up.nextId \in Ids
  BY UpgradeKeeps DEF Quiet
<1>2. \/ f = up
      \/ /\ f = Transition(made, j, "Held", "catchUp") \/ f = ScheduleIfWaiting(made, j)
         /\ FindActiveByKey(up, k) = 0 => FindByKey(up, k) = 0 \/ ~Unchanged(up, FindByKey(up, k))
  BY DEF OutputSeen, OldNews
<1> HIDE DEF up
<1>3. /\ Sound(made) /\ Present(made, j)
      /\ made = up \/ (FindActiveByKey(up, k) = 0 /\ Born(up, made, k))
  BY <1>1, EnsureBorn DEF Sources
<1> HIDE DEF made, j
<1>4. CASE f = up
  BY <1>4, PlainItself DEF JoinsFresh, up
<1>5. CASE f # up
  <2>1. "Held" \in States \ {Absent} /\ "catchUp" \in Reasons
    BY StateFacts DEF Reasons, Calm
  <2>2. Plain(made, f, {})
    BY <1>2, <1>3, <1>5, <2>1, TransitionPlain, ScheduleIfWaitingPlain
  <2>3. FindActiveByKey(up, k) = 0 => Fresh(up, k)
    BY <1>2, <1>5 DEF Fresh
  <2> QED
    BY <1>3, <2>2, <2>3 DEF JoinsFresh, up
<1> QED
  BY <1>4, <1>5

-----------------------------------------------------------------------------
(* Verdicts *)

\* A row takes the stamp of a verdict.
Stamped(e, f, j, t) ==
    /\ Sound(f) /\ Present(e, j) /\ e.jobs[j].state \notin InMux \cup {"Done"}
    /\ \A i \in Ids \ {j} : f.jobs[i] = e.jobs[i]
    /\ RowKept(e.jobs[j], f.jobs[j])
    /\ f.jobs[j].stamp = t /\ f.jobs[j].state = e.jobs[j].state
    /\ f.queue = e.queue /\ f.probe = e.probe /\ f.forced = e.forced
    /\ f.file = e.file /\ f.inbox = e.inbox /\ f.muxing = e.muxing /\ f.nextId = e.nextId

\* A job that is sent to the mux was chosen for it.
Sent(e, f, j) == f.jobs[j].state = "Muxing" /\ e.jobs[j].state \notin InMux => Chosen(f.jobs[j])
Minded(e, j) == j \notin e.forced /\ HoldUnknown /\ SdrPolicy \in {"skip", "hold"}

LEMMA StampStamped ==
  ASSUME NEW e, Sound(e), NEW j, Present(e, j), e.jobs[j].state \notin InMux \cup {"Done"},
         NEW t \in Stamps, NEW f, f = [e EXCEPT !.jobs[j].stamp = t]
  PROVE  Stamped(e, f, j, t)
<1>1. j \in Ids /\ e \in Engine /\ e.jobs[j] \in JobRecord /\ e.jobs[j].key \in Keys
  BY KeyOfPresent
<1> DEFINE r == [e.jobs[j] EXCEPT !.stamp = t]
<1>2. f = [e EXCEPT !.jobs = [e.jobs EXCEPT ![j] = r]]
  BY <1>1 DEF Engine
<1>3. /\ r.state = e.jobs[j].state /\ r.key = e.jobs[j].key /\ r.gen = e.jobs[j].gen
      /\ r.stamp = t /\ r.recycle = e.jobs[j].recycle
      /\ r.transfer = e.jobs[j].transfer /\ r.byUser = e.jobs[j].byUser
  BY <1>1 DEF JobRecord
<1> HIDE DEF r
<1>4. /\ f.probe = e.probe /\ f.queue = e.queue /\ f.forced = e.forced
      /\ f.file = e.file /\ f.inbox = e.inbox /\ f.muxing = e.muxing /\ f.nextId = e.nextId
      /\ \A i \in Ids : f.jobs[i] = IF i = j THEN r ELSE e.jobs[i]
  BY <1>1, <1>2 DEF Engine
<1>5. Sound(f)
  BY StampQuiet
<1> QED
  BY <1>1, <1>3, <1>4, <1>5 DEF Stamped, RowKept, Bare

LEMMA StampedAfter ==
  ASSUME NEW e, NEW u, NEW f, NEW j, NEW t, Stamped(u, f, j, t), u.jobs = e.jobs,
         u.queue = e.queue, u.probe = e.probe, u.forced = e.forced, u.file = e.file,
         u.inbox = e.inbox, u.muxing = e.muxing, u.nextId = e.nextId
  PROVE  Stamped(e, f, j, t)
BY DEF Stamped, Present

LEMMA StaysOut ==
  ASSUME NEW e, Sound(e), NEW j, Present(e, j), NEW s \in States \ {Absent, "Muxing", "Done"},
         NEW w \in Reasons, NEW f, f = Transition(e, j, s, w)
  PROVE  Plain(e, f, {}) /\ f.jobs[j].state # "Muxing"
<1>1. Plain(e, f, {})
  BY TransitionPlain
<1>2. f.jobs[j].state = s
  BY TransitionState
<1> QED
  BY <1>1, <1>2

LEMMA OnProbeStamps ==
  ASSUME NEW e, Sound(e), NEW ev \in ProbeEvents, NEW f, f \in OnProbe(e, ev)
  PROVE  /\ \/ Plain(e, f, {}) /\ (f.jobs[ev.job].state = "Muxing" => e.jobs[ev.job].state = "Muxing")
            \/ ev.out = "Ready" /\ \E r : Stamped(e, r, ev.job, ev.stamp) /\ Plain(r, f, {})
         /\ Minded(e, ev.job) => Sent(e, f, ev.job)
<1> DEFINE j == ev.job
           u == Untrack(e, j)
           r == [u EXCEPT !.jobs[j].stamp = ev.stamp]
<1>1. j \in Ids /\ ev.out \in {"Writing", "Failed", "Ready"} /\ (ev.out = "Ready" => ev.stamp \in Stamps)
  BY DEF ProbeEvents
<1>2. Sound(u) /\ u.jobs = e.jobs /\ Plain(e, u, {})
  BY <1>1, UntrackKeeps, UntrackPlain
<1>u. /\ u.queue = e.queue /\ u.probe = e.probe /\ u.forced = e.forced /\ u.file = e.file
      /\ u.inbox = e.inbox /\ u.muxing = e.muxing /\ u.nextId = e.nextId
  BY DEF Untrack, Sound, Engine
<1>3. CASE f = u \/ f = e
  <2>1. f.jobs = e.jobs /\ Plain(e, f, {})
    BY <1>2, <1>3, PlainItself
  <2> QED
    BY <2>1, StateFacts DEF Sent, InMux
<1>4. ASSUME NEW v, NEW s \in {"Failed", "Encoding"}, NEW w \in {"probe", ""}, f = Transition(v, j, s, w),
             Sound(v), Plain(e, v, {}), Present(v, j)
      PROVE  Plain(e, f, {}) /\ f.jobs[j].state # "Muxing" /\ Sent(e, f, j)
  <2>1. s \in States \ {Absent, "Muxing", "Done"} /\ w \in Reasons
    BY StateFacts DEF Reasons, Calm
  <2>2. Plain(v, f, {}) /\ f.jobs[j].state # "Muxing"
    BY <1>4, <2>1, StaysOut
  <2> QED
    BY <1>4, <2>2, PlainTwice DEF Sent
<1>5. CASE e.jobs[j].state = Absent
  BY <1>3, <1>5 DEF OnProbe
<1>6. CASE e.jobs[j].state # Absent /\ ev.out = "Writing"
  <2>1. f = IF e.jobs[j].state = "Discovered" THEN Transition(e, j, "Encoding", "") ELSE e
    BY <1>6 DEF OnProbe
  <2>2. Present(e, j)
    BY <1>1, <1>6 DEF Present
  <2> QED
    BY <1>3, <1>4, <2>1, <2>2, PlainItself
<1>7. CASE e.jobs[j].state # Absent /\ ev.out = "Failed"
  <2>1. f = IF e.jobs[j].state \in Terminal \cup InMux THEN u ELSE Transition(u, j, "Failed", "probe")
    BY <1>7 DEF OnProbe
  <2>2. Present(u, j)
    BY <1>1, <1>2, <1>7 DEF Present
  <2> QED
    BY <1>2, <1>3, <1>4, <2>1, <2>2
<1>8. CASE e.jobs[j].state # Absent /\ ev.out = "Ready"
  <2>1. f = u \/ (e.jobs[j].state \notin InMux \cup {"Done"} /\ f \in OnReady(r, j))
    BY <1>8 DEF OnProbe
  <2>2. CASE e.jobs[j].state \notin InMux \cup {"Done"} /\ f \in OnReady(r, j)
    <3> HIDE DEF u
    <3>1. Present(u, j)
      BY <1>1, <1>2, <1>8 DEF Present
    <3>2. Sound(r) /\ Present(r, j) /\ Stamped(u, r, j, ev.stamp)
      BY <1>1, <1>2, <1>8, <2>2, <3>1, StampQuiet, StampStamped
    <3> HIDE DEF r
    <3>3. Stamped(e, r, j, ev.stamp)
      BY <1>2, <1>u, <3>2, StampedAfter
    <3>4. Plain(r, f, {}) /\ (Minded(r, j) => Sent(e, f, j))
      BY <2>2, <3>2, OnReadyPlain DEF Minded, Sent
    <3>5. Minded(e, j) => Minded(r, j)
      BY <3>3 DEF Minded, Stamped
    <3> QED
      BY <1>8, <3>3, <3>4, <3>5
  <2> QED
    BY <1>3, <2>1, <2>2
<1> QED
  BY <1>1, <1>5, <1>6, <1>7, <1>8

-----------------------------------------------------------------------------
(* Completion and the Recycle Bin *)

\* The file of a job that is done goes to the bin.
Binned(e, f, j) ==
    /\ Sound(e) /\ Present(e, j) /\ e.jobs[j].state = "Done" /\ Unchanged(e, j)
    /\ \A i \in Ids \ {j} : f.jobs[i] = e.jobs[i]
    /\ f.jobs[j].key = e.jobs[j].key /\ f.jobs[j].gen = e.jobs[j].gen
    /\ f.jobs[j].state = "Done" /\ f.jobs[j].stamp = e.jobs[j].stamp
    /\ f.jobs[j].transfer = e.jobs[j].transfer /\ f.jobs[j].byUser = e.jobs[j].byUser
    /\ \A k \in Keys : f.file[k] = IF k = e.jobs[j].key THEN NoFile ELSE e.file[k]
    /\ f.queue = e.queue /\ f.probe = e.probe /\ f.forced = e.forced
    /\ f.inbox = e.inbox /\ f.muxing = e.muxing /\ f.nextId = e.nextId

LEMMA RecycleJobBins ==
  ASSUME NEW e, Sound(e), NEW D, NEW j, Present(e, j), NEW f, f \in RecycleJob(e, j)
  PROVE  Plain(e, f, D) \/ Binned(e, f, j)
<1> DEFINE k == e.jobs[j].key
           r == [e.jobs[j] EXCEPT !.recycle = "Recycled"]
           a == [e.file EXCEPT ![k] = NoFile]
           b == [e.change EXCEPT ![k] = "Removed"]
<1>1. \/ f = e
      \/ \E s \in {"KeptSourceChanged", "KeptNoBin", "Failed"} : f = [e EXCEPT !.jobs[j].recycle = s]
      \/ /\ f = [e EXCEPT !.jobs[j].recycle = "Recycled", !.file[k] = NoFile, !.change[k] = "Removed"]
         /\ e.jobs[j].state = "Done" /\ Unchanged(e, j)
  <2>1. CASE Unchanged(e, j) /\ e.jobs[j].state = "Done"
    BY <2>1 DEF RecycleJob
  <2>2. CASE ~(Unchanged(e, j) /\ e.jobs[j].state = "Done")
    BY <2>2 DEF RecycleJob
  <2> QED
    BY <2>1, <2>2
<1>2. CASE \/ f = e
           \/ \E s \in {"KeptSourceChanged", "KeptNoBin", "Failed"} : f = [e EXCEPT !.jobs[j].recycle = s]
  BY <1>2, PlainItself, ChoicePlain
<1>3. CASE /\ f = [e EXCEPT !.jobs[j].recycle = "Recycled", !.file[k] = NoFile, !.change[k] = "Removed"]
           /\ e.jobs[j].state = "Done" /\ Unchanged(e, j)
  <2>1. j \in Ids /\ e \in Engine /\ e.jobs[j] \in JobRecord /\ k \in Keys
    BY KeyOfPresent
  <2>2. f = [e EXCEPT !.jobs = [e.jobs EXCEPT ![j] = r], !.file = a, !.change = b]
    BY <1>3, <2>1 DEF Engine
  <2>3. /\ r.key = e.jobs[j].key /\ r.gen = e.jobs[j].gen
        /\ r.state = "Done" /\ r.stamp = e.jobs[j].stamp
        /\ r.transfer = e.jobs[j].transfer /\ r.byUser = e.jobs[j].byUser
    BY <1>3, <2>1 DEF JobRecord
  <2>4. \A l \in Keys : a[l] = IF l = k THEN NoFile ELSE e.file[l]
    BY <2>1 DEF Engine
  <2> HIDE DEF r, a, b
  <2>5. /\ \A i \in Ids : f.jobs[i] = IF i = j THEN r ELSE e.jobs[i]
        /\ f.file = a /\ f.queue = e.queue /\ f.probe = e.probe /\ f.forced = e.forced
        /\ f.inbox = e.inbox /\ f.muxing = e.muxing /\ f.nextId = e.nextId
    BY <2>1, <2>2 DEF Engine
  <2> QED
    BY <1>3, <2>1, <2>3, <2>4, <2>5 DEF Binned
<1> QED
  BY <1>1, <1>2, <1>3

\* Plain(e, f, D), or something that can be binned is before f.
PlainOrBins(e, f, j, D) == Plain(e, f, D) \/ \E g : Plain(e, g, D) /\ Binned(g, f, j)

LEMMA PlainThenBins ==
  ASSUME NEW e, NEW f, NEW g, NEW j, NEW D, Plain(e, f, D), PlainOrBins(f, g, j, D)
  PROVE  PlainOrBins(e, g, j, D)
BY PlainTwice DEF PlainOrBins

LEMMA FinishDoneBins ==
  ASSUME NEW e, Sound(e), NEW j, Present(e, j), NEW f, f \in FinishDone(e, j)
  PROVE  PlainOrBins(e, f, j, {j})
<1> DEFINE d == Transition(e, j, "Done", "")
           g == [d EXCEPT !.jobs[j].recycle = "Pending"]
           D == {j}
<1>1. j \in Ids /\ "Done" \in States \ {Absent} /\ "" \in Reasons /\ j \in D
  BY StateFacts DEF Present, Reasons, Calm
<1>2. \/ \E s \in {"KeptDisabled", "Pending"} : f = [d EXCEPT !.jobs[j].recycle = s]
      \/ f \in RecycleJob(g, j)
  BY DEF FinishDone
<1>3. d = Transition(e, j, "Done", "")
  OBVIOUS
<1> HIDE DEF d, D
<1>4. Sound(d) /\ Present(d, j) /\ Plain(e, d, D)
  BY <1>1, <1>3, TransitionKeeps, TransitionPlain
<1>5. CASE \E s \in {"KeptDisabled", "Pending"} : f = [d EXCEPT !.jobs[j].recycle = s]
  <2>1. Plain(d, f, D)
    BY <1>4, <1>5, ChoicePlain
  <2>2. Plain(e, f, D)
    BY <1>4, <2>1, PlainTwice
  <2> QED
    BY <2>2 DEF PlainOrBins, D
<1>6. CASE f \in RecycleJob(g, j)
  <2>1. Sound(g) /\ Present(g, j) /\ Plain(d, g, D)
    BY <1>4, RecycleQuiet, ChoicePlain
  <2> HIDE DEF g
  <2>2. PlainOrBins(g, f, j, D)
    BY <1>6, <2>1, RecycleJobBins, PlainItself DEF PlainOrBins
  <2>3. PlainOrBins(e, f, j, D)
    BY <1>4, <2>1, <2>2, PlainThenBins
  <2> QED
    BY <2>3 DEF D
<1> QED
  BY <1>2, <1>5, <1>6

LEMMA OnMuxBins ==
  ASSUME NEW e, Sound(e), NEW ev \in MuxEvents, NEW f, f \in OnMux(e, ev),
         NEW D, D = IF ev.out = "Done" THEN {ev.job} ELSE {}
  PROVE  PlainOrBins(e, f, ev.job, D)
<1> DEFINE j == ev.job
<1>1. /\ j \in Ids /\ ev.out \in {"Verifying", "Done", "Failed", "Cancelled"}
  BY DEF MuxEvents
<1>2. PICK l : /\ l = e \/ (e.jobs[j].state # Absent /\ l = Correct(e, j))
               /\ f \in MuxOutcome(l, j, ev.out)
  BY DEF OnMux
<1>3. Sound(l) /\ Plain(e, l, D) /\ l.jobs[j].state = e.jobs[j].state
  <2>1. CASE l = e
    BY <2>1, PlainItself
  <2>2. CASE e.jobs[j].state # Absent /\ l = Correct(e, j)
    <3>1. Present(e, j)
      BY <1>1, <2>2 DEF Present
    <3> QED
      BY <2>2, <3>1, CorrectQuiet, LearnPlain
  <2> QED
    BY <1>2, <2>1, <2>2
<1>4. \/ f = l
      \/ l.jobs[j].state \in InMux /\ ev.out = "Done" /\ f \in FinishDone(l, j)
      \/ /\ l.jobs[j].state \in InMux
         /\ \E s \in {"Verifying", "Failed", "Cancelled"}, w \in {"", "mux"} : f = Transition(l, j, s, w)
  BY <1>1, <1>2 DEF MuxOutcome
<1>5. l.jobs[j].state \in InMux => Present(l, j)
  BY <1>1 DEF Present, InMux, Absent
<1> HIDE DEF j
<1>6. CASE f = l
  BY <1>3, <1>6 DEF PlainOrBins
<1>7. CASE l.jobs[j].state \in InMux /\ ev.out = "Done" /\ f \in FinishDone(l, j)
  <2>1. D = {j}
    BY <1>7 DEF j
  <2>2. PlainOrBins(l, f, j, D)
    BY <1>3, <1>5, <1>7, <2>1, FinishDoneBins
  <2>3. PlainOrBins(e, f, j, D)
    BY <1>3, <2>2, PlainThenBins
  <2> QED
    BY <2>3 DEF j
<1>8. ASSUME NEW s \in {"Verifying", "Failed", "Cancelled"}, NEW w \in {"", "mux"},
             f = Transition(l, j, s, w), l.jobs[j].state \in InMux
      PROVE  PlainOrBins(e, f, ev.job, D)
  <2>1. s \in States \ {Absent} /\ w \in Reasons /\ s # "Done"
    BY StateFacts DEF Reasons, Calm
  <2>2. Plain(l, f, D)
    BY <1>3, <1>5, <1>8, <2>1, TransitionPlain
  <2> QED
    BY <1>3, <2>2, PlainTwice DEF PlainOrBins
<1> QED
  BY <1>4, <1>6, <1>7, <1>8

-----------------------------------------------------------------------------
(* Commands *)

LEMMA ResetLoose ==
  ASSUME NEW e, Sound(e), NEW j, Present(e, j), NEW f, f = [e EXCEPT !.jobs[j].stamp = NoStamp]
  PROVE  Sound(f) /\ Present(f, j) /\ Loose(e, f, {})
<1>1. j \in Ids /\ e \in Engine /\ e.jobs[j] \in JobRecord /\ NoStamp \in Stamps
  BY KeyOfPresent, BoundsAssumption DEF NoStamp, Stamps
<1> DEFINE r == [e.jobs[j] EXCEPT !.stamp = NoStamp]
<1>2. f = [e EXCEPT !.jobs = [e.jobs EXCEPT ![j] = r]]
  BY <1>1 DEF Engine
<1>3. /\ r.state = e.jobs[j].state /\ r.key = e.jobs[j].key /\ r.gen = e.jobs[j].gen
      /\ r.stamp = NoStamp /\ r.recycle = e.jobs[j].recycle
      /\ r.transfer = e.jobs[j].transfer /\ r.byUser = e.jobs[j].byUser
  BY <1>1 DEF JobRecord
<1> HIDE DEF r
<1>4. /\ f.probe = e.probe /\ f.queue = e.queue /\ f.forced = e.forced
      /\ f.file = e.file /\ f.inbox = e.inbox /\ f.muxing = e.muxing /\ f.nextId = e.nextId
      /\ \A i \in Ids : f.jobs[i] = IF i = j THEN r ELSE e.jobs[i]
  BY <1>1, <1>2 DEF Engine
<1>5. \A i \in Ids : RowKept(e.jobs[i], f.jobs[i])
  BY <1>3, <1>4 DEF RowKept, Bare
<1>6. Sound(f) /\ Present(f, j)
  BY <1>1, StampQuiet
<1> QED
  BY <1>3, <1>4, <1>5, <1>6 DEF Loose, ProbeKept, QueueKept

LEMMA ReprobeLoose ==
  ASSUME NEW e, Sound(e), NEW j, Present(e, j), NEW f, f \in Reprobe(e, j)
  PROVE  Loose(e, f, {}) /\ Sent(e, f, j)
<1> DEFINE a == [e EXCEPT !.jobs[j].stamp = NoStamp]
           t == Transition(a, j, "Discovered", "")
<1>1. "Discovered" \in States \ {Absent, "Muxing", "Done"} /\ "" \in Reasons
  BY StateFacts DEF Reasons, Calm
<1>2. f = Schedule(t, j) /\ t = Transition(a, j, "Discovered", "")
  BY DEF Reprobe
<1>3. Sound(a) /\ Present(a, j) /\ Loose(e, a, {})
  BY ResetLoose
<1> HIDE DEF a, t
<1>4. Sound(t) /\ Present(t, j) /\ Plain(a, t, {}) /\ t.jobs[j].state # "Muxing"
  BY <1>1, <1>2, <1>3, TransitionKeeps, StaysOut
<1>5. Plain(t, f, {}) /\ f.jobs[j].state = t.jobs[j].state
  <2>1. f.jobs = t.jobs
    BY <1>2, <1>4 DEF Schedule, Sound, Engine
  <2> QED
    BY <1>2, <1>4, <2>1, SchedulePlain
<1> QED
  BY <1>3, <1>4, <1>5, LooseTwice DEF Plain, Sent

LEMMA RestartLoose ==
  ASSUME NEW e, Sound(e), NEW j, Present(e, j), NEW f, f \in Restart(e, j)
  PROVE  Loose(e, f, {}) /\ (Minded(e, j) => Sent(e, f, j))
<1>1. f = Transition(e, j, "Failed", "source") \/ f \in OnReady(e, j) \/ f \in Reprobe(e, j)
  BY DEF Restart
<1>2. "Failed" \in States \ {Absent, "Muxing", "Done"} /\ "source" \in Reasons
  BY StateFacts DEF Reasons, Calm
<1>3. CASE f = Transition(e, j, "Failed", "source")
  BY <1>2, <1>3, StaysOut DEF Plain, Sent
<1>4. CASE f \in OnReady(e, j)
  BY <1>4, OnReadyPlain DEF Plain, Minded, Sent
<1>5. CASE f \in Reprobe(e, j)
  BY <1>5, ReprobeLoose
<1> QED
  BY <1>1, <1>3, <1>4, <1>5

LEMMA FreePlain ==
  ASSUME NEW e, Sound(e), NEW j, Present(e, j), NEW f, f = Free(e, j)
  PROVE  /\ Sound(f) /\ Present(f, j) /\ Plain(e, f, {})
         /\ f.jobs[j].state = e.jobs[j].state /\ f.forced = e.forced
<1>1. \E h \in BOOLEAN : f = [e EXCEPT !.jobs[j].hold = h]
  BY DEF Free
<1>2. Plain(e, f, {})
  BY <1>1, ChoicePlain
<1> QED
  BY <1>2, FreeQuiet

LEMMA ResumeJobLoose ==
  ASSUME NEW e, Sound(e), NEW j, Present(e, j), NEW f, f \in ResumeJob(e, j)
  PROVE  Loose(e, f, {}) /\ (Minded(e, j) => Sent(e, f, j))
<1> DEFINE free == Free(e, j)
<1>1. f = free \/ f \in Restart(free, j)
  BY DEF ResumeJob, Free
<1>2. /\ Sound(free) /\ Present(free, j) /\ Plain(e, free, {})
      /\ free.jobs[j].state = e.jobs[j].state /\ free.forced = e.forced
  BY FreePlain
<1> HIDE DEF free
<1>3. CASE f = free
  BY <1>2, <1>3, StateFacts DEF Plain, Sent, InMux
<1>4. CASE f \in Restart(free, j)
  <2>1. Loose(free, f, {}) /\ (Minded(free, j) => Sent(free, f, j))
    BY <1>2, <1>4, RestartLoose
  <2> QED
    BY <1>2, <2>1, LooseTwice DEF Plain, Minded, Sent
<1> QED
  BY <1>1, <1>3, <1>4

LEMMA SetJobOverridesLoose ==
  ASSUME NEW e, Sound(e), NEW j, Present(e, j), NEW f, f \in SetJobOverrides(e, j)
  PROVE  Loose(e, f, {}) /\ (Minded(e, j) => Sent(e, f, j))
<1>1. PICK c \in Selections(e, j) :
         \/ f = c
         \/ f = Transition(c, j, "Held", "held")
         \/ f \in ResumeJob(c, j)
  BY DEF SetJobOverrides
<1>2. Sound(c) /\ Present(c, j) /\ c.jobs[j].state = e.jobs[j].state /\ Plain(e, c, {})
  BY SelectionsQuiet, ChoicePlain
<1>3. "Held" \in States \ {Absent, "Muxing", "Done"} /\ "held" \in Reasons
  BY StateFacts DEF Reasons, Calm
<1>4. CASE f = c
  BY <1>2, <1>4 DEF Plain, Sent, InMux
<1>5. CASE f = Transition(c, j, "Held", "held")
  <2>1. Plain(c, f, {}) /\ f.jobs[j].state # "Muxing"
    BY <1>2, <1>3, <1>5, StaysOut
  <2> QED
    BY <1>2, <2>1, LooseTwice DEF Plain, Sent
<1>6. CASE f \in ResumeJob(c, j)
  <2>1. Loose(c, f, {}) /\ (Minded(c, j) => Sent(c, f, j))
    BY <1>2, <1>6, ResumeJobLoose
  <2>2. c.forced \subseteq e.forced
    BY <1>2 DEF Plain, Loose
  <2> QED
    BY <1>2, <2>1, <2>2, LooseTwice DEF Plain, Minded, Sent
<1> QED
  BY <1>1, <1>4, <1>5, <1>6

LEMMA HoldJobPlain ==
  ASSUME NEW e, Sound(e), NEW j, Present(e, j), NEW f, f \in HoldJob(e, j)
  PROVE  Plain(e, f, {})
<1> DEFINE d == e.forced \ {j}
           a == [e EXCEPT !.forced = d]
           held == [a EXCEPT !.jobs[j].hold = TRUE]
<1>1. e \in Engine /\ j \in Ids
  BY KeyOfPresent
<1>2. [e EXCEPT !.jobs[j].hold = TRUE, !.forced = @ \ {j}] = held
  BY <1>1 DEF Engine
<1>3. f = e \/ f = held \/ f = Transition(held, j, "Held", "held")
  BY <1>2 DEF HoldJob
<1>4. Sound(a) /\ a.jobs = e.jobs /\ Plain(e, a, {})
  BY LessForced, LessForcedPlain
<1> HIDE DEF d, a
<1>5. Present(a, j)
  BY <1>1, <1>4 DEF Present
<1>6. Plain(a, held, {})
  <2>1. \E h \in BOOLEAN : held = [a EXCEPT !.jobs[j].hold = h]
    OBVIOUS
  <2> HIDE DEF held
  <2> QED
    BY <1>4, <1>5, <2>1, ChoicePlain
<1>7. Plain(e, held, {})
  BY <1>4, <1>6, PlainTwice
<1>8. CASE f = e \/ f = held
  BY <1>7, <1>8, PlainItself
<1>9. CASE f # e /\ f = Transition(held, j, "Held", "held")
  <2>1. e.jobs[j].state \in {"Ready", "Held"} \/ f = held
    BY <1>2, <1>9 DEF HoldJob
  <2>2. Sound(held) /\ Present(held, j)
    <3> DEFINE r == [a.jobs[j] EXCEPT !.hold = TRUE]
    <3>1. a \in Engine /\ a.jobs[j] \in JobRecord /\ a.jobs[j].key \in Keys /\ j \notin a.forced
      BY <1>1, <1>4, <1>5, KeyOfPresent DEF a, d, Engine
    <3>2. held = [a EXCEPT !.jobs = [a.jobs EXCEPT ![j] = r]]
      BY <1>1, <3>1 DEF Engine
    <3>3. /\ r \in JobRecord /\ r.state = a.jobs[j].state /\ r.key = a.jobs[j].key
          /\ r.gen = a.jobs[j].gen
      BY <3>1 DEF JobRecord
    <3> HIDE DEF r, held
    <3>4. held.jobs[j] = r
      BY <1>1, <3>1, <3>2 DEF Engine
    <3>5. /\ a.jobs[j].state # Absent /\ NoKey \notin Keys
      BY <1>5, KeysAssumption DEF Present
    <3>6. Sound(held)
      BY <1>1, <1>4, <3>1, <3>2, <3>3, <3>5, EditJob
    <3> QED
      BY <1>1, <3>3, <3>4, <3>5, <3>6 DEF Present
  <2> HIDE DEF held
  <2>3. "Held" \in States \ {Absent, "Muxing", "Done"} /\ "held" \in Reasons
    BY StateFacts DEF Reasons, Calm
  <2>4. Plain(held, f, {})
    BY <1>9, <2>2, <2>3, StaysOut
  <2> QED
    BY <1>7, <2>4, PlainTwice
<1> QED
  BY <1>3, <1>8, <1>9

\* A run is forced, between two changes that leave the rest of the table alone.
LEMMA RunJobLoose ==
  ASSUME NEW e, Sound(e), NEW j, Present(e, j), NEW f, f \in RunJob(e, j)
  PROVE  \E g, S : LET h == [g EXCEPT !.forced = S]
                   IN  Loose(e, g, {}) /\ Sound(h) /\ Loose(h, f, {})
<1> DEFINE free == Free(e, j)
           run == ForceRun(free, j)
           S == free.forced \cup {j}
<1>1. f = e \/ f = run \/ f \in Restart(free, j) \/ f \in Restart(run, j)
  BY DEF RunJob, Free
<1>2. Sound(free) /\ Present(free, j) /\ Loose(e, free, {}) /\ free.jobs[j] \notin Holding
  BY FreePlain, FreeQuiet DEF Plain
<1> HIDE DEF free
<1>3. Sound(run) /\ Present(run, j) /\ run = [free EXCEPT !.forced = S]
  BY <1>2, ForceRunKeeps DEF Present, ForceRun, Sound, Engine
<1>4. e = [e EXCEPT !.forced = e.forced] /\ free = [free EXCEPT !.forced = free.forced]
  BY <1>2 DEF Sound, Engine
<1>5. Loose(e, e, {}) /\ Loose(run, run, {})
  BY PlainItself DEF Plain
<1> HIDE DEF run, S
<1>6. CASE f = e
  <2>1. LET h == [e EXCEPT !.forced = e.forced]
        IN  Loose(e, e, {}) /\ Sound(h) /\ Loose(h, f, {})
    BY <1>4, <1>5, <1>6
  <2> QED
    BY <2>1
<1>7. CASE f = run \/ f \in Restart(run, j)
  <2>1. Loose(run, f, {})
    BY <1>3, <1>5, <1>7, RestartLoose
  <2>2. LET h == [free EXCEPT !.forced = S]
        IN  Loose(e, free, {}) /\ Sound(h) /\ Loose(h, f, {})
    BY <1>2, <1>3, <2>1
  <2> QED
    BY <2>2
<1>8. CASE f \in Restart(free, j)
  <2>1. Loose(free, f, {})
    BY <1>2, <1>8, RestartLoose
  <2>2. LET h == [free EXCEPT !.forced = free.forced]
        IN  Loose(e, free, {}) /\ Sound(h) /\ Loose(h, f, {})
    BY <1>2, <1>4, <2>1
  <2> QED
    BY <2>2
<1> QED
  BY <1>1, <1>6, <1>7, <1>8

\* A job is taken out of the table, and what was asked for it is taken back.
Gone(e, f, j) ==
    /\ Present(e, j) /\ f.jobs[j] = NoJob /\ \A i \in Ids \ {j} : f.jobs[i] = e.jobs[i]
    /\ \A i \in Ids : f.probe[i] = e.probe[i] \/ f.probe[i] = NoProbe
    /\ \A n \in 1..Len(f.queue) : \E m \in 1..Len(e.queue) : f.queue[n] = e.queue[m]
    /\ f.inbox = e.inbox \/ f.inbox = Append(e.inbox, [type |-> "mux", job |-> j, out |-> "Cancelled"])
    /\ f.muxing.job = e.muxing.job /\ f.muxing.key = e.muxing.key
    /\ f.muxing.verified = e.muxing.verified
    /\ f.forced \subseteq e.forced /\ f.file = e.file /\ f.nextId = e.nextId

LEMMA RemovedRequests ==
  ASSUME NEW q \in Seq(Request), NEW n \in 1..Len(q), NEW t, t = RemoveAt(q, n)
  PROVE  \A i \in 1..Len(t) : \E m \in 1..Len(q) : t[i] = q[m]
<1> DEFINE a == SubSeq(q, 1, n - 1)
           b == SubSeq(q, n + 1, Len(q))
<1>1. Len(q) \in Nat /\ \A i \in 1..Len(q) : q[i] \in Request
  BY LenProperties, ElementOfSeq
<1>2. a \in Seq(Request) /\ Len(a) = n - 1 /\ \A i \in 1..(n - 1) : a[i] = q[i]
  BY <1>1, SubSeqProperties
<1>3. b \in Seq(Request) /\ Len(b) = Len(q) - n /\ \A i \in 1..(Len(q) - n) : b[i] = q[n + i]
  BY <1>1, SubSeqProperties
<1>4. t = a \o b
  BY DEF RemoveAt
<1> HIDE DEF a, b
<1>5. /\ Len(a \o b) = Len(a) + Len(b)
      /\ \A i \in 1..(Len(a) + Len(b)) : (a \o b)[i] = IF i <= Len(a) THEN a[i] ELSE b[i - Len(a)]
  BY <1>2, <1>3, ConcatProperties
<1>8. Len(t) = Len(q) - 1
  BY <1>1, <1>2, <1>3, <1>4, <1>5
<1> SUFFICES ASSUME NEW i \in 1..Len(t) PROVE \E m \in 1..Len(q) : t[i] = q[m]
  OBVIOUS
<1>6. CASE i <= n - 1
  <2>1. t[i] = a[i] /\ i \in 1..(n - 1) /\ i \in 1..Len(q)
    BY <1>1, <1>2, <1>3, <1>4, <1>5, <1>6, <1>8
  <2> QED
    BY <1>2, <2>1
<1>7. CASE ~(i <= n - 1)
  <2> DEFINE c == i - (n - 1)
  <2>1. c \in 1..(Len(q) - n) /\ n + c \in 1..Len(q)
    BY <1>1, <1>7, <1>8
  <2>2. t[i] = b[c]
    BY <1>1, <1>2, <1>3, <1>4, <1>5, <1>7, <1>8
  <2> HIDE DEF c
  <2>3. t[i] = q[n + c]
    BY <1>3, <2>1, <2>2
  <2> QED
    BY <2>1, <2>3
<1> QED
  BY <1>6, <1>7

LEMMA RemoveJobGone ==
  ASSUME NEW e, Sound(e), NEW j, Present(e, j), NEW f, f \in RemoveJob(e, j),
         OneRequest(e.queue)
  PROVE  Gone(e, f, j)
<1> DEFINE c == CancelProbe(e, j)
           m == MuxCancel(c, j)
           ev == [type |-> "mux", job |-> j, out |-> "Cancelled"]
<1>1. j \in Ids /\ e \in Engine /\ f = [m EXCEPT !.forced = @ \ {j}, !.jobs[j] = NoJob]
  BY KeyOfPresent DEF RemoveJob
<1>2. /\ Sound(c) /\ c.jobs = e.jobs /\ c.forced = e.forced /\ c.file = e.file
      /\ c.nextId = e.nextId /\ c.queue = e.queue /\ c.muxing = e.muxing /\ c.inbox = e.inbox
      /\ \A i \in Ids : c.probe[i] = e.probe[i] \/ c.probe[i] = NoProbe
  <2>1. Sound(c)
    BY <1>1, CancelProbeKeeps
  <2>2. CASE j \notin e.tracked
    BY <2>1, <2>2 DEF CancelProbe
  <2>3. CASE j \in e.tracked
    <3>1. c = [e EXCEPT !.probe = [e.probe EXCEPT ![j] = NoProbe], !.tracked = e.tracked \ {j}]
      BY <1>1, <2>3 DEF CancelProbe, Engine
    <3> HIDE DEF c
    <3> QED
      BY <1>1, <2>1, <3>1 DEF Engine
  <2> QED
    BY <2>2, <2>3
<1> HIDE DEF c
<1>3. /\ m \in Engine /\ m.jobs = e.jobs /\ m.forced = e.forced /\ m.file = e.file
      /\ m.nextId = e.nextId /\ m.probe = c.probe
      /\ m.muxing.job = e.muxing.job /\ m.muxing.key = e.muxing.key
      /\ m.muxing.verified = e.muxing.verified
      /\ \A n \in 1..Len(m.queue) : \E k \in 1..Len(e.queue) : m.queue[n] = e.queue[k]
      /\ m.inbox = e.inbox \/ m.inbox = Append(e.inbox, ev)
  <2>1. c \in Engine /\ c.muxing \in MuxRecord /\ c.queue \in Seq(Request) /\ c.inbox \in Seq(Event)
    BY <1>2 DEF Sound, Engine
  <2>2. CASE c.muxing.job = j
    <3> DEFINE x == [c.muxing EXCEPT !.cancel = TRUE]
    <3>1. /\ x \in MuxRecord /\ x.job = c.muxing.job /\ x.key = c.muxing.key
          /\ x.verified = c.muxing.verified
      BY <2>1 DEF MuxRecord
    <3>2. m = [c EXCEPT !.muxing = x]
      BY <2>1, <2>2 DEF MuxCancel, Engine
    <3> HIDE DEF x, m
    <3> QED
      BY <1>2, <2>1, <3>1, <3>2 DEF Engine
  <2>3. CASE c.muxing.job # j /\ \E i \in DOMAIN c.queue : c.queue[i].job = j
    <3> DEFINE n == FirstRequest(c.queue, j)
               q == RemoveAt(c.queue, n)
               s == Append(c.inbox, ev)
    <3>1. Len(c.queue) \in Nat /\ DOMAIN c.queue = 1..Len(c.queue)
      BY <2>1, LenProperties
    <3>2. Asked(c.queue, j)
      BY <2>3, <3>1 DEF Asked
    <3>3. n \in 1..Len(c.queue)
      <4>1. PICK i \in 1..Len(c.queue) : c.queue[i].job = j
        BY <2>3, <3>1
      <4>2. \A k \in 1..(i - 1) : c.queue[k].job # j
        BY <1>2, <3>1, <4>1 DEF OneRequest
      <4> QED
        BY <3>1, <4>1, <4>2 DEF FirstRequest
    <3>4. q \in Seq(Request)
      BY <1>2, <2>1, <3>2, AskedRemove
    <3>5. \A i \in 1..Len(q) : \E k \in 1..Len(c.queue) : q[i] = c.queue[k]
      BY <2>1, <3>3, RemovedRequests
    <3>6. ev \in Event
      BY <1>1 DEF Event
    <3>7. m = [c EXCEPT !.queue = q, !.inbox = s]
      BY <2>1, <2>3 DEF MuxCancel, Engine
    <3> HIDE DEF q, n, ev, m
    <3>8. s \in Seq(Event)
      BY <2>1, <3>6, AppendProperties
    <3> HIDE DEF s
    <3>9. /\ m \in Engine /\ m.queue = q /\ m.inbox = s /\ m.jobs = c.jobs /\ m.forced = c.forced
          /\ m.file = c.file /\ m.nextId = c.nextId /\ m.probe = c.probe /\ m.muxing = c.muxing
      BY <2>1, <3>4, <3>7, <3>8 DEF Engine
    <3> QED
      BY <1>2, <3>5, <3>9 DEF s
  <2>4. CASE c.muxing.job # j /\ ~\E i \in DOMAIN c.queue : c.queue[i].job = j
    <3>1. m = c
      BY <2>4 DEF MuxCancel
    <3> QED
      BY <1>2, <2>1, <3>1
  <2> QED
    BY <2>2, <2>3, <2>4
<1> HIDE DEF m
<1>4. /\ \A i \in Ids : f.jobs[i] = IF i = j THEN NoJob ELSE m.jobs[i]
      /\ f.forced = m.forced \ {j} /\ f.file = m.file /\ f.nextId = m.nextId
      /\ f.probe = m.probe /\ f.muxing = m.muxing /\ f.queue = m.queue /\ f.inbox = m.inbox
  BY <1>1, <1>3 DEF Engine
<1> QED
  BY <1>1, <1>2, <1>3, <1>4 DEF Gone

LEMMA ReleaseAllLoose ==
  ASSUME NEW e, Sound(e), NEW waiting, waiting \subseteq Ids,
         \A j \in waiting : e.jobs[j].state = "Held",
         NEW f, f \in ReleaseAll(e, waiting)
  PROVE  Loose(e, f, {}) /\ \A j \in Ids : Minded(e, j) => Sent(e, f, j)
<1>1. PICK o \in Outcomes(e, waiting) :
         \E order \in NewestFirst({j \in waiting : o[j].jobs[j].state = "Muxing"}) :
            f = Resumed(e, o, order)
  BY DEF ReleaseAll
<1> DEFINE M == {j \in waiting : o[j].jobs[j].state = "Muxing"}
<1>2. PICK order \in NewestFirst(M) : f = Resumed(e, o, order)
  BY <1>1
<1>3. DOMAIN o = waiting /\ \A j \in waiting : o[j] \in ResumeJob(e, j)
  BY DEF Outcomes
<1>4. e \in Engine /\ e.queue \in Seq(Request)
  BY DEF Sound, Engine
<1>5. ASSUME NEW j \in waiting
      PROVE  /\ Loose(e, o[j], {}) /\ (Minded(e, j) => Sent(e, o[j], j))
             /\ Sound(o[j]) /\ e.jobs[j].key \in Keys
  <2>1. Present(e, j)
    BY DEF Present, Absent
  <2> QED
    BY <1>3, <2>1, ResumeJobLoose, ResumeJobKeeps, KeyOfPresent
<1> DEFINE n == Cardinality(M)
           t == [i \in DOMAIN order |-> [job |-> order[i], key |-> e.jobs[order[i]].key]]
           q == e.queue \o t
           J == [j \in Ids |-> IF j \in waiting THEN o[j].jobs[j] ELSE e.jobs[j]]
           P == [j \in Ids |-> IF j \in waiting THEN o[j].probe[j] ELSE e.probe[j]]
           T == {j \in Ids : j \in IF j \in waiting THEN o[j].tracked ELSE e.tracked}
           F == {j \in Ids : j \in IF j \in waiting THEN o[j].forced ELSE e.forced}
<1>6. n \in Nat /\ order \in [1..n -> M]
  <2>1. M \subseteq Ids /\ order \in NewestFirst(M)
    BY <1>2
  <2> HIDE DEF M
  <2> QED
    BY <2>1, OrderIsOnto
<1>7. M \subseteq waiting
  OBVIOUS
<1>8. f = [e EXCEPT !.jobs = J, !.probe = P, !.tracked = T, !.forced = F, !.queue = q]
  BY <1>2, <1>3, <1>4 DEF Resumed, Engine
<1>9. \A j \in Ids : /\ J[j] = IF j \in waiting THEN o[j].jobs[j] ELSE e.jobs[j]
                     /\ P[j] = IF j \in waiting THEN o[j].probe[j] ELSE e.probe[j]
  OBVIOUS
<1>10. F \subseteq e.forced
  BY <1>5 DEF Loose
<1> HIDE DEF M, n, J, P, T, F
<1>11. /\ t \in Seq(Request) /\ Len(t) = n
       /\ \A i \in 1..n : t[i].job \in waiting /\ t[i].key = e.jobs[t[i].job].key
  <2>1. DOMAIN order = 1..n /\ \A i \in 1..n : order[i] \in waiting
    BY <1>6, <1>7
  <2>2. \A i \in 1..n : [job |-> order[i], key |-> e.jobs[order[i]].key] \in Request
    BY <1>5, <2>1 DEF Request
  <2>3. t \in [1..n -> Request] /\ \A i \in 1..n : t[i].job = order[i] /\ t[i].key = e.jobs[order[i]].key
    BY <2>1, <2>2
  <2> HIDE DEF t
  <2>4. t \in Seq(Request)
    BY <1>6, <2>3, SeqDef
  <2>5. Len(t) = n
    BY <1>6, <2>3, <2>4, LenProperties
  <2> QED
    BY <2>1, <2>3, <2>4, <2>5
<1> HIDE DEF t
<1>12. /\ Len(q) = Len(e.queue) + n /\ Len(e.queue) \in Nat
       /\ \A i \in 1..(Len(e.queue) + n) : q[i] = IF i <= Len(e.queue) THEN e.queue[i]
                                                                    ELSE t[i - Len(e.queue)]
  BY <1>4, <1>11, ConcatProperties, LenProperties
<1> HIDE DEF q
<1>13. /\ f.jobs = J /\ f.probe = P /\ f.forced = F /\ f.queue = q
       /\ f.muxing = e.muxing /\ f.inbox = e.inbox /\ f.nextId = e.nextId /\ f.file = e.file
  BY <1>4, <1>8 DEF Engine
<1>14. QueueKept(e, f)
  <2> SUFFICES ASSUME NEW i \in 1..Len(q)
               PROVE  \/ \E m \in 1..Len(e.queue) : q[i] = e.queue[m]
                      \/ q[i].job \in Ids /\ q[i].key = J[q[i].job].key
    BY <1>13 DEF QueueKept
  <2>1. CASE i <= Len(e.queue)
    BY <1>12, <2>1
  <2>2. CASE ~(i <= Len(e.queue))
    <3> DEFINE k == i - Len(e.queue)
               x == t[k].job
    <3>1. k \in 1..n /\ q[i] = t[k]
      BY <1>6, <1>12, <2>2
    <3>2. x \in waiting /\ t[k].key = e.jobs[x].key
      BY <1>11, <3>1
    <3> HIDE DEF k
    <3>3. J[x].key = e.jobs[x].key
      BY <1>5, <1>9, <3>2 DEF Loose, RowKept
    <3> QED
      BY <3>1, <3>2, <3>3
  <2> QED
    BY <2>1, <2>2
<1>15. ASSUME NEW j \in Ids
       PROVE  /\ RowKept(e.jobs[j], f.jobs[j]) /\ ProbeKept(e, f, j)
              /\ f.jobs[j].stamp = e.jobs[j].stamp \/ f.jobs[j].stamp = NoStamp
              /\ f.jobs[j].state = "Done" => e.jobs[j].state = "Done"
              /\ Minded(e, j) => Sent(e, f, j)
  <2>1. CASE j \in waiting
    <3>1. f.jobs[j] = o[j].jobs[j] /\ f.probe[j] = o[j].probe[j]
      BY <1>9, <1>13, <2>1
    <3> QED
      BY <1>5, <2>1, <3>1 DEF Loose, ProbeKept, Present, Sent
  <2>2. CASE j \notin waiting
    <3>1. f.jobs[j] = e.jobs[j] /\ f.probe[j] = e.probe[j]
      BY <1>9, <1>13, <2>2
    <3> QED
      BY <3>1, StateFacts DEF RowKept, ProbeKept, Sent, InMux
  <2> QED
    BY <2>1, <2>2
<1> QED
  BY <1>10, <1>13, <1>14, <1>15 DEF Loose

LEMMA AddJoins ==
  ASSUME NEW e, Sound(e), e.nextId \in Ids, NEW k \in Keys, NEW f,
         f = IF FindActiveByKey(e, k) # 0 THEN e ELSE Schedule(Create(e, k, "manual"), e.nextId)
  PROVE  Joins(e, f)
<1> DEFINE j == e.nextId
           made == Create(e, k, "manual")
<1>1. f = e \/ f = Schedule(made, j)
  OBVIOUS
<1>2. Sound(made) /\ Present(made, j) /\ Born(e, made, k)
  BY CreateMakes, CreateBorn DEF Sources
<1> HIDE DEF made, j
<1>3. CASE f = Schedule(made, j)
  BY <1>2, <1>3, SchedulePlain DEF Joins
<1> QED
  BY <1>1, <1>3, PlainItself DEF Joins

-----------------------------------------------------------------------------
(* Marked: what is known of the files from the stamps, the mux and the     *)
(* verdicts on the way.  `x` is the newest export, `m` what was muxed.     *)

IsReady(ev, j) == ev.type = "probe" /\ ev.job = j /\ ev.out = "Ready"
IsDone(ev, j)  == ev.type = "mux" /\ ev.job = j /\ ev.out = "Done"
Within(e, id, k, x) == id <= x /\ (e.file[k].id # 0 => id <= e.file[k].id)

\* The job's file was read to the end by the mux.
Proven(e, j) == \/ e.jobs[j].state = "Done"
                \/ e.muxing.job = j /\ e.muxing.verified
                \/ \E n \in 1..Len(e.inbox) : IsDone(e.inbox[n], j)

JobMarked(e, j, x, m) ==
    LET k == e.jobs[j].key
    IN  /\ Within(e, e.jobs[j].stamp.id, k, x)
        /\ e.muxing.job = j => e.muxing.key = k
        /\ \A i \in 1..Len(e.queue) : e.queue[i].job = j => e.queue[i].key = k
        /\ Proven(e, j) => e.jobs[j].stamp.id <= m[j] /\ Within(e, m[j], k, x)
        /\ e.probe[j].st # "none" => e.probe[j].key = k
        /\ \A i \in 1..Len(e.inbox) : IsReady(e.inbox[i], j) => Within(e, e.inbox[i].stamp.id, k, x)

Unasked(e, j) == e.probe[j].st = "none" /\ \A i \in 1..Len(e.inbox) : ~IsReady(e.inbox[i], j)

Marked(e, x, m) ==
    /\ \A k \in Keys : e.file[k].content = e.file[k].id /\ e.file[k].id <= x
    /\ \A j \in Ids : Present(e, j) => JobMarked(e, j, x, m)
    /\ \A j \in Ids : j >= e.nextId => Unasked(e, j)

LEMMA MarkedLoose ==
  ASSUME NEW e, Sound(e), NEW x \in Nat, NEW m, \A j \in Ids : m[j] \in Nat, Marked(e, x, m),
         NEW D, NEW f, Loose(e, f, D),
         \A j \in Ids : Present(e, j) /\ j \in D =>
            e.jobs[j].stamp.id <= m[j] /\ Within(e, m[j], e.jobs[j].key, x)
  PROVE  Marked(f, x, m)
<1>1. f.file = e.file /\ f.inbox = e.inbox /\ f.muxing = e.muxing /\ f.nextId = e.nextId
  BY DEF Loose
<1>2. ASSUME NEW j \in Ids, Present(f, j) PROVE JobMarked(f, j, x, m)
  <2> DEFINE k == e.jobs[j].key
  <2>1. /\ Present(e, j) /\ f.jobs[j].key = k
        /\ f.jobs[j].stamp = e.jobs[j].stamp \/ f.jobs[j].stamp = NoStamp
        /\ f.jobs[j].state = "Done" => e.jobs[j].state = "Done" \/ j \in D
    BY <1>2 DEF Loose, RowKept, Present
  <2>2. k \in Keys /\ JobMarked(e, j, x, m)
    BY <2>1, KeyOfPresent DEF Marked
  <2>3. e.file[k].id \in Nat /\ m[j] \in Nat
    BY <2>2 DEF Sound, Engine, FileRecord
  <2>4. \A id : Within(f, id, k, x) <=> Within(e, id, k, x)
    BY <1>1 DEF Within
  <2>5. Within(f, f.jobs[j].stamp.id, k, x)
    <3>1. Within(e, e.jobs[j].stamp.id, k, x) /\ NoStamp.id = 0
      BY <2>2 DEF JobMarked, NoStamp
    <3>2. Within(e, 0, k, x)
      BY <2>3 DEF Within
    <3> QED
      BY <2>1, <2>4, <3>1, <3>2
  <2>6. \A i \in 1..Len(f.queue) : f.queue[i].job = j => f.queue[i].key = k
    BY <2>1, <2>2 DEF JobMarked, Loose, QueueKept
  <2>7. Proven(f, j) => f.jobs[j].stamp.id <= m[j] /\ Within(f, m[j], k, x)
    <3>1. Proven(f, j) => e.jobs[j].stamp.id <= m[j] /\ Within(e, m[j], k, x)
      BY <1>1, <2>1, <2>2 DEF JobMarked, Proven
    <3> QED
      BY <2>1, <2>3, <2>4, <3>1 DEF NoStamp
  <2>8. f.probe[j].st # "none" => f.probe[j].key = k
    BY <2>1, <2>2 DEF JobMarked, Loose, ProbeKept
  <2> QED
    BY <1>1, <2>1, <2>2, <2>4, <2>5, <2>6, <2>7, <2>8 DEF JobMarked
<1>3. ASSUME NEW j \in Ids, j >= f.nextId PROVE Unasked(f, j)
  <2>1. Unasked(e, j) /\ e.jobs[j].state = Absent
    BY <1>1, <1>3 DEF Marked, Sound, JobSound
  <2>2. ProbeKept(e, f, j) /\ ~Present(f, j)
    BY <2>1 DEF Loose, RowKept, Present
  <2> QED
    BY <1>1, <2>1, <2>2 DEF Unasked, ProbeKept
<1> QED
  BY <1>1, <1>2, <1>3 DEF Marked

\* A job outside of the mux that is not done has nothing proven.
LEMMA NotProven ==
  ASSUME NEW e, Booked(e), NEW j \in Ids,
         e.jobs[j].state \notin InMux \cup {Absent, "Done"} \/ (j >= e.nextId /\ e.jobs[j].state # "Done")
  PROVE  ~Proven(e, j)
<1>1. e.muxing.job # j /\ ~HasEnd(e.inbox, j)
  BY DEF Booked, BookedBut, JobBooked
<1> QED
  BY <1>1 DEF Proven, HasEnd, IsEnd, IsDone, InMux, Absent

LEMMA MarkedBorn ==
  ASSUME NEW e, Sound(e), Booked(e), NEW x \in Nat, NEW m, Marked(e, x, m),
         NEW k \in Keys, NEW f, Born(e, f, k)
  PROVE  Marked(f, x, m)
<1> DEFINE n == e.nextId
<1>1. /\ f.file = e.file /\ f.inbox = e.inbox /\ f.muxing = e.muxing /\ f.nextId = n + 1
      /\ f.queue = e.queue /\ f.probe = e.probe /\ \A i \in Ids \ {n} : f.jobs[i] = e.jobs[i]
  BY DEF Born
<1>2. n \in Ids /\ n \in Nat /\ e.jobs[n].state = Absent /\ \A j \in Ids : j \in Nat
  BY BoundsAssumption DEF Born, Ids
<1>3. \A j, id, l : Within(f, id, l, x) <=> Within(e, id, l, x)
  BY <1>1 DEF Within
<1>4. ASSUME NEW j \in Ids, j # n, Present(f, j) PROVE JobMarked(f, j, x, m)
  <2>1. Present(e, j) /\ f.jobs[j] = e.jobs[j]
    BY <1>1, <1>4 DEF Present
  <2>2. JobMarked(e, j, x, m)
    BY <2>1 DEF Marked
  <2>3. Proven(f, j) <=> Proven(e, j)
    BY <1>1, <2>1 DEF Proven
  <2> QED
    BY <1>1, <1>3, <2>1, <2>2, <2>3 DEF JobMarked
<1>5. JobMarked(f, n, x, m)
  <2>1. Unasked(e, n) /\ JobBooked(e, n)
    BY <1>2 DEF Marked, Booked, BookedBut
  <2>2. e.muxing.job # n /\ ~Asked(e.queue, n) /\ ~Proven(e, n)
    BY <1>2, <2>1, NotProven DEF JobBooked, Absent
  <2>3. ~Proven(f, n)
    BY <1>1, <2>2 DEF Proven, Born
  <2>4. f.jobs[n].stamp = NoStamp /\ f.jobs[n].key = k
    BY DEF Born
  <2>5. Within(f, f.jobs[n].stamp.id, f.jobs[n].key, x)
    <3>1. e.file[k].id \in Nat
      BY DEF Sound, Engine, FileRecord
    <3> QED
      BY <1>1, <2>4, <3>1 DEF Within, NoStamp
  <2> HIDE DEF n
  <2>6. e.muxing.job = n => e.muxing.key = f.jobs[n].key
    BY <2>2
  <2> QED
    BY <1>1, <2>1, <2>2, <2>3, <2>5, <2>6 DEF JobMarked, Unasked, Asked
<1>6. ASSUME NEW j \in Ids, j >= f.nextId PROVE Unasked(f, j)
  <2>1. j >= e.nextId
    BY <1>1, <1>2, <1>6
  <2> QED
    BY <1>1, <2>1 DEF Marked, Unasked
<1> QED
  BY <1>1, <1>4, <1>5, <1>6 DEF Marked

LEMMA MarkedStamped ==
  ASSUME NEW e, Sound(e), Booked(e), NEW x \in Nat, NEW m, Marked(e, x, m),
         NEW j \in Ids, NEW t, NEW f, Stamped(e, f, j, t), Within(e, t.id, e.jobs[j].key, x)
  PROVE  Marked(f, x, m)
<1>1. /\ f.file = e.file /\ f.inbox = e.inbox /\ f.muxing = e.muxing /\ f.nextId = e.nextId
      /\ f.queue = e.queue /\ f.probe = e.probe /\ \A i \in Ids \ {j} : f.jobs[i] = e.jobs[i]
      /\ f.jobs[j].key = e.jobs[j].key /\ f.jobs[j].stamp = t /\ f.jobs[j].state = e.jobs[j].state
      /\ Present(e, j) /\ e.jobs[j].state \notin InMux \cup {"Done"}
  BY DEF Stamped, RowKept
<1>2. \A id, l : Within(f, id, l, x) <=> Within(e, id, l, x)
  BY <1>1 DEF Within
<1>3. ASSUME NEW i \in Ids, Present(f, i) PROVE JobMarked(f, i, x, m)
  <2>1. Present(e, i) /\ f.jobs[i].key = e.jobs[i].key
    BY <1>1, <1>3 DEF Present
  <2>2. JobMarked(e, i, x, m)
    BY <2>1 DEF Marked
  <2>3. CASE i = j
    <3>1. ~Proven(e, j)
      BY <1>1, NotProven DEF Present
    <3>2. ~Proven(f, j)
      BY <1>1, <3>1 DEF Proven
    <3> QED
      BY <1>1, <1>2, <2>2, <2>3, <3>2 DEF JobMarked
  <2>4. CASE i # j
    <3>1. f.jobs[i] = e.jobs[i] /\ (Proven(f, i) <=> Proven(e, i))
      BY <1>1, <2>4 DEF Proven
    <3> QED
      BY <1>1, <1>2, <2>2, <3>1 DEF JobMarked
  <2> QED
    BY <2>3, <2>4
<1>4. \A i \in Ids : i >= f.nextId => Unasked(f, i)
  BY <1>1 DEF Marked, Unasked
<1> QED
  BY <1>1, <1>3, <1>4 DEF Marked

LEMMA MarkedBinned ==
  ASSUME NEW e, Sound(e), NEW x \in Nat, NEW m, Marked(e, x, m),
         NEW j \in Ids, m[j] \in Nat, NEW f, Binned(e, f, j)
  PROVE  Marked(f, x, m) /\ e.file[e.jobs[j].key].content = m[j]
<1> DEFINE k == e.jobs[j].key
<1>1. /\ f.inbox = e.inbox /\ f.muxing = e.muxing /\ f.nextId = e.nextId
      /\ f.queue = e.queue /\ f.probe = e.probe
      /\ \A l \in Keys : f.file[l] = IF l = k THEN NoFile ELSE e.file[l]
      /\ Present(e, j) /\ e.jobs[j].state = "Done" /\ Unchanged(e, j)
  BY DEF Binned
<1>2. \A i \in Ids : /\ f.jobs[i].key = e.jobs[i].key /\ f.jobs[i].stamp = e.jobs[i].stamp
                     /\ f.jobs[i].state = e.jobs[i].state
  BY DEF Binned
<1>3. k \in Keys
  BY <1>1, KeyOfPresent
<1>4. e.file[k].content = m[j]
  <2>1. e.jobs[j].stamp.id <= m[j] /\ Within(e, m[j], k, x)
    BY <1>1 DEF Marked, JobMarked, Proven
  <2>2. e.file[k].id # 0 /\ e.jobs[j].stamp.id = e.file[k].id
    BY <1>1 DEF Unchanged, SameFile, Stamp
  <2>3. e.file[k].id \in Nat /\ e.file[k].content = e.file[k].id
    BY <1>3 DEF Sound, Engine, FileRecord, Marked
  <2> QED
    BY <2>1, <2>2, <2>3 DEF Within
<1>5. \A id : \A l \in Keys : Within(e, id, l, x) => Within(f, id, l, x)
  BY <1>1 DEF Within, NoFile
<1>6. ASSUME NEW i \in Ids, Present(f, i) PROVE JobMarked(f, i, x, m)
  <2>1. Present(e, i)
    BY <1>2, <1>6 DEF Present
  <2>2. JobMarked(e, i, x, m) /\ e.jobs[i].key \in Keys
    BY <2>1, KeyOfPresent DEF Marked
  <2>3. Proven(f, i) <=> Proven(e, i)
    BY <1>1, <1>2 DEF Proven
  <2>4. \A id : Within(e, id, e.jobs[i].key, x) => Within(f, id, f.jobs[i].key, x)
    BY <1>2, <1>5, <2>2
  <2> QED
    BY <1>1, <1>2, <2>2, <2>3, <2>4 DEF JobMarked
<1>7. \A i \in Ids : i >= f.nextId => Unasked(f, i)
  BY <1>1 DEF Marked, Unasked
<1>8. \A l \in Keys : f.file[l].content = f.file[l].id /\ f.file[l].id <= x
  BY <1>1 DEF Marked, NoFile
<1> QED
  BY <1>4, <1>6, <1>7, <1>8 DEF Marked

LEMMA MarkedPopped ==
  ASSUME NEW e, Sound(e), e.inbox # <<>>, NEW x, NEW m, Marked(e, x, m),
         NEW d, d = [e EXCEPT !.inbox = Tail(@)], NEW ev, ev = Head(e.inbox)
  PROVE  /\ Marked(d, x, m) /\ d.jobs = e.jobs /\ d.file = e.file
         /\ \A j \in Ids : Present(d, j) /\ IsReady(ev, j) => Within(d, ev.stamp.id, d.jobs[j].key, x)
         /\ \A j \in Ids : Present(d, j) /\ IsDone(ev, j) =>
              d.jobs[j].stamp.id <= m[j] /\ Within(d, m[j], d.jobs[j].key, x)
<1> DEFINE s == e.inbox
           t == Tail(s)
<1>1. e \in Engine /\ s \in Seq(Event) /\ Len(s) \in Nat \ {0} /\ ev = s[1]
  BY LenProperties, EmptySeq DEF Sound, Engine
<1>2. Len(t) = Len(s) - 1 /\ \A i \in 1..Len(t) : t[i] = s[i + 1]
  BY <1>1, HeadTailProperties
<1>3. /\ d.jobs = e.jobs /\ d.file = e.file /\ d.muxing = e.muxing /\ d.queue = e.queue
      /\ d.probe = e.probe /\ d.nextId = e.nextId /\ d.inbox = t
  BY <1>1 DEF Engine
<1> HIDE DEF t
<1>4. \A i \in 1..Len(t) : i + 1 \in 1..Len(s) /\ t[i] = s[i + 1]
  BY <1>1, <1>2
<1>5. \A i \in 1..Len(t) : \E n \in 1..Len(s) : t[i] = s[n]
  BY <1>4
<1>6. 1 \in 1..Len(s)
  BY <1>1
<1> HIDE DEF s
<1>7. \A id, k : Within(d, id, k, x) <=> Within(e, id, k, x)
  BY <1>3 DEF Within
<1>8. ASSUME NEW j \in Ids, Present(d, j)
      PROVE  /\ JobMarked(d, j, x, m)
             /\ IsReady(ev, j) => Within(d, ev.stamp.id, d.jobs[j].key, x)
             /\ IsDone(ev, j) => d.jobs[j].stamp.id <= m[j] /\ Within(d, m[j], d.jobs[j].key, x)
  <2>1. Present(e, j)
    BY <1>3, <1>8 DEF Present
  <2>2. JobMarked(e, j, x, m) /\ e.inbox = s
    BY <2>1 DEF Marked, s
  <2>3. Proven(d, j) \/ IsDone(ev, j) => Proven(e, j)
    BY <1>1, <1>3, <1>5, <1>6, <2>2 DEF Proven
  <2>4. ASSUME NEW i \in 1..Len(t), IsReady(t[i], j)
        PROVE  Within(d, t[i].stamp.id, d.jobs[j].key, x)
    <3>1. PICK n \in 1..Len(s) : t[i] = s[n]
      BY <1>5
    <3>2. Within(e, s[n].stamp.id, e.jobs[j].key, x)
      BY <2>2, <2>4, <3>1 DEF JobMarked
    <3> QED
      BY <1>3, <1>7, <3>1, <3>2
  <2>5. IsReady(ev, j) => Within(d, ev.stamp.id, d.jobs[j].key, x)
    BY <1>1, <1>3, <1>6, <1>7, <2>2 DEF JobMarked
  <2> QED
    BY <1>3, <1>7, <2>2, <2>3, <2>4, <2>5 DEF JobMarked
<1>9. \A j \in Ids : j >= d.nextId => Unasked(d, j)
  <2>1. e.inbox = s
    BY DEF s
  <2> QED
    BY <1>3, <1>5, <2>1 DEF Marked, Unasked
<1> QED
  BY <1>3, <1>8, <1>9 DEF Marked

\* What goes to the Recycle Bin is what was muxed.
Bins(e, f, m) == \A j \in Ids : f.jobs[j].recycle = "Recycled" /\ e.jobs[j].recycle # "Recycled"
                                => e.file[e.jobs[j].key].content = m[j]
Marks(e, f, x, m) == Marked(f, x, m) /\ Bins(e, f, m)

LEMMA LooseMarks ==
  ASSUME NEW e, Sound(e), NEW x \in Nat, NEW m, \A j \in Ids : m[j] \in Nat, Marked(e, x, m),
         NEW f, Loose(e, f, {})
  PROVE  Marks(e, f, x, m)
<1>1. Marked(f, x, m)
  BY MarkedLoose
<1>2. Bins(e, f, m)
  BY DEF Bins, Loose, RowKept
<1> QED
  BY <1>1, <1>2 DEF Marks

LEMMA JoinsMarks ==
  ASSUME NEW e, Sound(e), Booked(e), NEW x \in Nat, NEW m, \A j \in Ids : m[j] \in Nat,
         Marked(e, x, m), NEW f, Joins(e, f)
  PROVE  Marks(e, f, x, m)
<1>1. CASE Plain(e, f, {})
  BY <1>1, LooseMarks DEF Plain
<1>2. ASSUME NEW k \in Keys, NEW g, Born(e, g, k), Plain(g, f, {}) PROVE Marks(e, f, x, m)
  <2>1. Marked(g, x, m) /\ Sound(g)
    BY <1>2, MarkedBorn DEF Born
  <2>2. Marked(f, x, m)
    BY <1>2, <2>1, LooseMarks DEF Plain, Marks
  <2>3. \A i \in Ids : f.jobs[i].recycle = "Recycled" => g.jobs[i].recycle = "Recycled"
    BY <1>2 DEF Plain, Loose, RowKept
  <2>4. \A i \in Ids : g.jobs[i].recycle = "Recycled" => e.jobs[i].recycle = "Recycled"
    BY <1>2 DEF Born
  <2> QED
    BY <2>2, <2>3, <2>4 DEF Marks, Bins
<1> QED
  BY <1>1, <1>2 DEF Joins

LEMMA BinsMarks ==
  ASSUME NEW e, Sound(e), NEW x \in Nat, NEW m, \A j \in Ids : m[j] \in Nat, Marked(e, x, m),
         NEW f, NEW j \in Ids, NEW D, PlainOrBins(e, f, j, D),
         \A i \in Ids : Present(e, i) /\ i \in D =>
            e.jobs[i].stamp.id <= m[i] /\ Within(e, m[i], e.jobs[i].key, x)
  PROVE  Marks(e, f, x, m)
<1>1. ASSUME NEW g, Plain(e, g, D)
      PROVE  /\ Marked(g, x, m) /\ g.file = e.file
             /\ \A i \in Ids : /\ g.jobs[i].recycle = "Recycled" => e.jobs[i].recycle = "Recycled"
                               /\ g.jobs[i].key = e.jobs[i].key
  <2>1. Loose(e, g, D)
    BY <1>1 DEF Plain
  <2>2. Marked(g, x, m)
    BY <2>1, MarkedLoose
  <2> QED
    BY <2>1, <2>2 DEF Loose, RowKept
<1>2. CASE Plain(e, f, D)
  BY <1>1, <1>2 DEF Marks, Bins
<1>3. ASSUME NEW g, Plain(e, g, D), Binned(g, f, j) PROVE Marks(e, f, x, m)
  <2>1. Marked(f, x, m) /\ g.file[g.jobs[j].key].content = m[j]
    BY <1>1, <1>3, MarkedBinned DEF Binned
  <2>2. \A i \in Ids \ {j} : f.jobs[i] = g.jobs[i]
    BY <1>3 DEF Binned
  <2> QED
    BY <1>1, <1>3, <2>1, <2>2 DEF Marks, Bins
<1> QED
  BY <1>2, <1>3 DEF PlainOrBins

LEMMA OnProbeMarks ==
  ASSUME NEW e, Sound(e), Booked(e), NEW x \in Nat, NEW m, \A j \in Ids : m[j] \in Nat,
         Marked(e, x, m), NEW ev \in ProbeEvents, NEW f, f \in OnProbe(e, ev),
         ev.out = "Ready" /\ Present(e, ev.job) => Within(e, ev.stamp.id, e.jobs[ev.job].key, x)
  PROVE  Marks(e, f, x, m)
<1>1. CASE Plain(e, f, {})
  BY <1>1, LooseMarks DEF Plain
<1>2. ASSUME NEW r, ev.out = "Ready", Stamped(e, r, ev.job, ev.stamp), Plain(r, f, {})
      PROVE  Marks(e, f, x, m)
  <2>1. Present(e, ev.job) /\ ev.job \in Ids /\ Sound(r)
    BY <1>2 DEF Stamped, Present
  <2>2. Marked(r, x, m)
    BY <1>2, <2>1, MarkedStamped
  <2>3. Marked(f, x, m)
    BY <1>2, <2>1, <2>2, LooseMarks DEF Plain, Marks
  <2>4. \A i \in Ids : f.jobs[i].recycle = "Recycled" => r.jobs[i].recycle = "Recycled"
    BY <1>2 DEF Plain, Loose, RowKept
  <2>5. \A i \in Ids : r.jobs[i].recycle = "Recycled" => e.jobs[i].recycle = "Recycled"
    BY <1>2 DEF Stamped, RowKept
  <2> QED
    BY <2>3, <2>4, <2>5 DEF Marks, Bins
<1> QED
  BY <1>1, <1>2, OnProbeStamps

LEMMA UpgradeIsIdle ==
  ASSUME NEW e, Sound(e), Distinct, NEW k \in Keys PROVE Upgrade(e, k) = e
<1> DEFINE j == FindActiveByStem(e, k)
           S == {i \in Active(e) : Guess[e.jobs[i].key] = Guess[k]}
<1> SUFFICES ASSUME j # 0, FindActiveByKey(e, k) = 0 PROVE FALSE
  BY DEF Upgrade
<1>1. S \subseteq Ids /\ j = Best(e, S)
  BY DEF Active, FindActiveByStem
<1> HIDE DEF S
<1>2. j \in S
  BY <1>1, BestIsMember
<1>3. /\ j \in Active(e) /\ Present(e, j) /\ Guess[e.jobs[j].key] = Guess[k]
  BY <1>2 DEF S, Active, Present
<1> HIDE DEF j
<1>4. e.jobs[j].key = k
  BY <1>3, KeyOfPresent DEF Distinct
<1>5. j \in OfKey(e, k) \cap Active(e)
  BY <1>3, <1>4 DEF OfKey, Present
<1> DEFINE B == OfKey(e, k) \cap Active(e)
<1>6. B \subseteq Ids /\ B # {} /\ FindActiveByKey(e, k) = Best(e, B)
  BY <1>5 DEF OfKey, FindActiveByKey
<1> HIDE DEF B
<1>7. Best(e, B) \in B
  BY <1>6, BestIsMember
<1> QED
  BY <1>6, <1>7 DEF Ids

-----------------------------------------------------------------------------
(* Tinted: a transfer that says HDR is the export's, or the user's word    *)

Tinted(e) == /\ e.forced = {}
             /\ \A j \in Ids : Present(e, j) /\ Bare(e.jobs[j]) => Colour[e.jobs[j].key] = "hdr"
AllSent(e, f) == \A j \in Ids : Sent(e, f, j)

\* The exports that differ in their extension only have the same transfer.
SameTransfer == \A k, l \in Keys : Guess[k] = Guess[l] => Colour[k] = Colour[l]
\* What is not known to be HDR waits for the user.
SdrWaits == HoldUnknown /\ SdrPolicy \in {"skip", "hold"}

LEMMA LooseTinted ==
  ASSUME NEW e, NEW f, NEW D, Tinted(e), Loose(e, f, D) PROVE Tinted(f)
BY DEF Tinted, Loose, RowKept, Present

LEMMA JoinsTinted ==
  ASSUME NEW e, NEW f, Tinted(e), Joins(e, f) PROVE Tinted(f)
<1>1. CASE Plain(e, f, {})
  BY <1>1, LooseTinted DEF Plain
<1>2. ASSUME NEW k \in Keys, NEW g, Born(e, g, k), Plain(g, f, {}) PROVE Tinted(f)
  <2>1. Tinted(g)
    BY <1>2 DEF Tinted, Born, Present
  <2> QED
    BY <1>2, <2>1, LooseTinted DEF Plain
<1> QED
  BY <1>1, <1>2 DEF Joins

LEMMA BinsTinted ==
  ASSUME NEW e, NEW f, NEW j, NEW D, Tinted(e), PlainOrBins(e, f, j, D) PROVE Tinted(f)
<1>1. CASE Plain(e, f, D)
  BY <1>1, LooseTinted DEF Plain
<1>2. ASSUME NEW g, Plain(e, g, D), Binned(g, f, j) PROVE Tinted(f)
  <2>1. Tinted(g)
    BY <1>2, LooseTinted DEF Plain
  <2> QED
    BY <1>2, <2>1 DEF Tinted, Binned, Present, Bare
<1> QED
  BY <1>1, <1>2 DEF PlainOrBins

LEMMA OnProbeTinted ==
  ASSUME NEW e, Sound(e), Tinted(e), NEW ev \in ProbeEvents, NEW f, f \in OnProbe(e, ev)
  PROVE  Tinted(f)
<1>1. CASE Plain(e, f, {})
  BY <1>1, LooseTinted DEF Plain
<1>2. ASSUME NEW r, Stamped(e, r, ev.job, ev.stamp), Plain(r, f, {}) PROVE Tinted(f)
  <2>1. Tinted(r)
    BY <1>2 DEF Tinted, Stamped, RowKept, Present
  <2> QED
    BY <1>2, <2>1, LooseTinted DEF Plain
<1> QED
  BY <1>1, <1>2, OnProbeStamps

LEMMA UpgradeTinted ==
  ASSUME NEW e, Sound(e), Tinted(e), SameTransfer, NEW k \in Keys, NEW u, u = Upgrade(e, k)
  PROVE  Tinted(u)
<1> DEFINE j == FindActiveByStem(e, k)
           S == {i \in Active(e) : Guess[e.jobs[i].key] = Guess[k]}
<1>1. CASE u = e
  BY <1>1
<1>2. CASE j # 0 /\ u = [e EXCEPT !.jobs[j].key = k]
  <2>1. S \subseteq Ids /\ j = Best(e, S)
    BY DEF Active, FindActiveByStem
  <2> HIDE DEF S
  <2>2. j \in S
    BY <1>2, <2>1, BestIsMember
  <2>3. Present(e, j) /\ Guess[e.jobs[j].key] = Guess[k]
    BY <2>2 DEF S, Active, Present
  <2> HIDE DEF j
  <2>4. e.jobs[j].key \in Keys /\ e \in Engine /\ e.jobs[j] \in JobRecord /\ j \in Ids
    BY <2>3, KeyOfPresent
  <2> DEFINE r == [e.jobs[j] EXCEPT !.key = k]
  <2>5. u = [e EXCEPT !.jobs = [e.jobs EXCEPT ![j] = r]]
    BY <1>2, <2>4 DEF Engine
  <2>6. r.key = k /\ r.transfer = e.jobs[j].transfer /\ r.byUser = e.jobs[j].byUser
    BY <2>4 DEF JobRecord
  <2> HIDE DEF r
  <2>7. u.forced = e.forced /\ \A i \in Ids : u.jobs[i] = IF i = j THEN r ELSE e.jobs[i]
    BY <2>4, <2>5 DEF Engine
  <2>8. Colour[e.jobs[j].key] = Colour[k]
    BY <2>3, <2>4 DEF SameTransfer
  <2> QED
    BY <2>3, <2>6, <2>7, <2>8 DEF Tinted, Present, Bare
<1> QED
  BY <1>1, <1>2 DEF Upgrade

\* Nobody enters the mux, or the one that does was chosen for it.
LEMMA StaysSent ==
  ASSUME NEW e, NEW f,
         \/ QuietOrMakes(e, f) \/ \E j \in Ids : Leaves(e, f, j)
         \/ \E j \in Ids : Sends(e, f, j) /\ Sent(e, f, j)
  PROVE  AllSent(e, f)
BY StateFacts DEF QuietOrMakes, Quiet, Makes, Leaves, Sends, SameClass, Outside, AllSent, Sent, InMux

LEMMA OnMuxStays ==
  ASSUME NEW e, Sound(e), NEW ev \in MuxEvents, NEW f, f \in OnMux(e, ev)
  PROVE  QuietOrMakes(e, f) \/ \E i \in Ids : Leaves(e, f, i)
<1> DEFINE j == ev.job
<1>1. j \in Ids /\ ev.out \in {"Verifying", "Done", "Failed", "Cancelled"}
  BY DEF MuxEvents
<1>2. PICK l : /\ l = e \/ (e.jobs[j].state # Absent /\ l = Correct(e, j))
               /\ f \in MuxOutcome(l, j, ev.out)
  BY DEF OnMux
<1>3. Sound(l) /\ Quiet(e, l)
  <2>1. CASE l = e
    BY <2>1, Itself
  <2>2. CASE e.jobs[j].state # Absent /\ l = Correct(e, j)
    <3>1. Present(e, j)
      BY <1>1, <2>2 DEF Present
    <3> QED
      BY <2>2, <3>1, CorrectQuiet
  <2> QED
    BY <1>2, <2>1, <2>2
<1>4. \/ f = l
      \/ l.jobs[j].state \in InMux /\ f \in FinishDone(l, j)
      \/ /\ l.jobs[j].state \in InMux
         /\ \E s \in {"Verifying", "Failed", "Cancelled"}, w \in {"", "mux"} : f = Transition(l, j, s, w)
  BY <1>1, <1>2 DEF MuxOutcome
<1>5. l.jobs[j].state \in InMux => Present(l, j)
  BY <1>1 DEF Present, InMux, Absent
<1>6. j \in Ids
  BY <1>1
<1> HIDE DEF j
<1>7. CASE f = l
  BY <1>3, <1>7 DEF QuietOrMakes
<1>8. CASE l.jobs[j].state \in InMux /\ f \in FinishDone(l, j)
  <2>1. Leaves(l, f, j)
    BY <1>3, <1>5, <1>8, FinishDoneLeaves
  <2>2. Leaves(e, f, j)
    BY <1>3, <1>6, <2>1, QuietLeaves
  <2> QED
    BY <1>6, <2>2
<1>9. ASSUME NEW s \in {"Verifying", "Failed", "Cancelled"}, NEW w \in {"", "mux"},
             f = Transition(l, j, s, w), l.jobs[j].state \in InMux
      PROVE  QuietOrMakes(e, f) \/ \E i \in Ids : Leaves(e, f, i)
  <2>1. w \in Reasons /\ {"Failed", "Cancelled"} \subseteq Calm /\ "Verifying" \in States \ {Absent}
    BY StateFacts DEF Reasons
  <2>2. CASE s = "Verifying"
    <3>1. "Verifying" \in InMux <=> l.jobs[j].state \in InMux
      BY <1>9, StateFacts
    <3>2. Quiet(l, f)
      BY <1>3, <1>5, <1>9, <2>1, <2>2, <3>1, TransitionQuiet
    <3>3. Quiet(e, f)
      BY <1>3, <3>2, QuietTwice
    <3> QED
      BY <1>3, <3>3, <1>5, <1>9, <2>1, <2>2, TransitionKeeps DEF QuietOrMakes
  <2>3. CASE s \in Calm
    <3>1. Leaves(l, f, j)
      BY <1>3, <1>5, <1>9, <2>1, <2>3, CalmLeaves
    <3>2. Leaves(e, f, j)
      BY <1>3, <1>6, <3>1, QuietLeaves
    <3> QED
      BY <1>6, <3>2
  <2> QED
    BY <2>1, <2>2, <2>3
<1> QED
  BY <1>4, <1>7, <1>8, <1>9

\* The next event is applied.
LEMMA HandleTinted ==
  ASSUME NEW e, Sound(e), Booked(e), e.inbox # <<>>, Tinted(e), SdrWaits, SameTransfer,
         Creating(Head(e.inbox)) => e.nextId \in Ids,
         NEW f, f \in Handle([e EXCEPT !.inbox = Tail(@)], Head(e.inbox))
  PROVE  Tinted(f) /\ AllSent(e, f)
<1> DEFINE d == [e EXCEPT !.inbox = Tail(@)]
           ev == Head(e.inbox)
<1>1. /\ Sound(d) /\ ev \in Event /\ d.jobs = e.jobs /\ d.nextId = e.nextId
      /\ d.forced = e.forced
  BY Popped DEF Sound, Engine
<1>2. f \in Handle(d, ev) /\ (Creating(ev) => e.nextId \in Ids)
  OBVIOUS
<1> HIDE DEF d, ev
<1>3. /\ ev.type \in {"log", "cep", "sidecar", "output"} => ev.key \in Keys
      /\ ev.type = "probe" => ev \in ProbeEvents
      /\ ev.type = "mux" => ev \in MuxEvents
      /\ ev.type \in {"log", "cep", "sidecar", "output", "probe", "mux"}
  BY <1>1, EventFacts
<1>4. Tinted(d)
  BY <1>1 DEF Tinted, Present
<1>5. AllSent(d, f) => AllSent(e, f)
  BY <1>1 DEF AllSent, Sent
<1>6. CASE ev.type \in {"log", "cep", "sidecar", "output"}
  <2>1. ev.key \in Keys /\ d.nextId \in Ids
    BY <1>1, <1>2, <1>3, <1>6 DEF Creating
  <2>2. CASE ev.type = "log"
    <3>1. \/ f \in LogSuccess(d, ev.key) \/ f \in LogFailed(d, ev.key)
          \/ f \in CatchUp(d, ev.key, ev.what = "newer")
      BY <1>2, <2>2 DEF Handle, OnLog
    <3>2. QuietOrMakes(d, f)
      <4>1. CASE f \in LogSuccess(d, ev.key)
        BY <1>1, <2>1, <4>1, LogSuccessKeeps
      <4>2. CASE f \in LogFailed(d, ev.key)
        BY <1>1, <2>1, <4>2, LogFailedKeeps
      <4>3. CASE f \in CatchUp(d, ev.key, ev.what = "newer")
        BY <1>1, <2>1, <4>3, CatchUpKeeps
      <4> QED
        BY <3>1, <4>1, <4>2, <4>3
    <3>3. JoinsFresh(d, f)
      <4>1. CASE f \in LogSuccess(d, ev.key)
        BY <1>1, <2>1, <4>1, LogSuccessJoins
      <4>2. CASE f \in LogFailed(d, ev.key)
        BY <1>1, <2>1, <4>2, LogFailedPlain DEF JoinsFresh
      <4>3. CASE f \in CatchUp(d, ev.key, ev.what = "newer")
        BY <1>1, <2>1, <4>3, CatchUpJoins
      <4> QED
        BY <3>1, <4>1, <4>2, <4>3
    <3>4. Tinted(f)
      BY <1>4, <3>3, JoinsTinted DEF JoinsFresh, Joins
    <3> QED
      BY <1>5, <3>2, <3>4, StaysSent
  <2>3. CASE ev.type = "cep"
    <3>1. f \in CepStarted(d, ev.key) \/ f \in CepComplete(d, ev.key, ev.what = "ok")
      BY <1>2, <2>3 DEF Handle, OnCep
    <3>2. QuietOrMakes(d, f)
      <4>1. CASE f \in CepStarted(d, ev.key)
        BY <1>1, <2>1, <4>1, CepStartedKeeps
      <4>2. CASE f \in CepComplete(d, ev.key, ev.what = "ok")
        BY <1>1, <2>1, <4>2, CepCompleteKeeps
      <4> QED
        BY <3>1, <4>1, <4>2
    <3>3. Joins(d, f)
      BY <1>1, <2>1, <3>1, CepJoins
    <3> QED
      BY <1>4, <1>5, <3>2, <3>3, JoinsTinted, StaysSent
  <2>4. CASE ev.type = "sidecar"
    <3>1. f \in OnSidecar(d, ev)
      BY <1>2, <2>4 DEF Handle
    <3>2. QuietOrMakes(d, f)
      BY <1>1, <2>1, <3>1, OnSidecarKeeps
    <3>3. Joins(d, f)
      BY <1>1, <2>1, <3>1, OnSidecarJoins
    <3> QED
      BY <1>4, <1>5, <3>2, <3>3, JoinsTinted, StaysSent
  <2>5. CASE ev.type = "output"
    <3>1. f \in OutputRemoved(d, ev.key) \/ f \in OutputSeen(d, ev.key, ev.action, ev.scan)
      BY <1>2, <2>5 DEF Handle, OnOutput
    <3>2. QuietOrMakes(d, f)
      BY <1>1, <2>1, <3>1, OutputRemovedKeeps, OutputSeenKeeps
    <3>3. CASE f \in OutputRemoved(d, ev.key)
      <4>1. Plain(d, f, {})
        BY <1>1, <2>1, <3>3, OutputRemovedPlain
      <4> QED
        BY <1>4, <1>5, <3>2, <4>1, LooseTinted, StaysSent DEF Plain
    <3>4. CASE f \in OutputSeen(d, ev.key, ev.action, ev.scan)
      <4> DEFINE u == Upgrade(d, ev.key)
      <4>1. Tinted(u)
        BY <1>1, <1>4, <2>1, UpgradeTinted
      <4>2. JoinsFresh(u, f)
        BY <1>1, <2>1, <3>4, OutputSeenJoins
      <4> HIDE DEF u
      <4>3. Tinted(f)
        BY <4>1, <4>2, JoinsTinted DEF JoinsFresh, Joins
      <4> QED
        BY <1>5, <3>2, <4>3, StaysSent
    <3> QED
      BY <3>1, <3>3, <3>4
  <2> QED
    BY <1>6, <2>2, <2>3, <2>4, <2>5
<1>7. CASE ev.type = "probe"
  <2>1. f \in OnProbe(d, ev) /\ ev \in ProbeEvents /\ ev.job \in Ids
    BY <1>2, <1>3, <1>7 DEF Handle, ProbeEvents
  <2>2. Sound(f) /\ (Quiet(d, f) \/ Sends(d, f, ev.job))
    BY <1>1, <2>1, OnProbeKeeps
  <2>3. Tinted(f)
    BY <1>1, <1>4, <2>1, OnProbeTinted
  <2>4. Sent(d, f, ev.job)
    BY <1>1, <1>4, <2>1, OnProbeStamps DEF Tinted, Minded, SdrWaits
  <2> QED
    BY <1>5, <2>1, <2>2, <2>3, <2>4, StaysSent DEF QuietOrMakes
<1>8. CASE ev.type = "mux"
  <2>1. f \in OnMux(d, ev) /\ ev \in MuxEvents
    BY <1>2, <1>3, <1>8 DEF Handle
  <2>2. PlainOrBins(d, f, ev.job, IF ev.out = "Done" THEN {ev.job} ELSE {})
    BY <1>1, <2>1, OnMuxBins
  <2>3. Tinted(f)
    BY <1>4, <2>2, BinsTinted
  <2> QED
    BY <1>1, <1>5, <2>1, <2>3, OnMuxStays, StaysSent
<1> QED
  BY <1>3, <1>6, <1>7, <1>8

LEMMA JobCommandTinted ==
  ASSUME NEW e, Sound(e), Booked(e), Tinted(e), SdrWaits, NEW j, Present(e, j),
         NEW name, name # "run", NEW f, f \in JobCommand(name, e, j)
  PROVE  Tinted(f) /\ AllSent(e, f)
<1>1. \/ f \in HoldJob(e, j) \/ f \in ResumeJob(e, j) \/ f \in RemoveJob(e, j)
      \/ f \in SetJobOverrides(e, j) \/ f \in RecycleJob(e, j)
  BY DEF JobCommand
<1>2. j \in Ids /\ Minded(e, j)
  BY DEF Present, Tinted, SdrWaits, Minded
<1>3. CASE f \in HoldJob(e, j)
  <2>1. Plain(e, f, {})
    BY <1>3, HoldJobPlain
  <2>2. Sound(f) /\ Quiet(e, f)
    BY <1>3, HoldJobKeeps
  <2> QED
    BY <2>1, <2>2, LooseTinted, StaysSent DEF Plain, QuietOrMakes
<1>4. CASE f \in ResumeJob(e, j)
  <2>1. Loose(e, f, {}) /\ Sent(e, f, j)
    BY <1>2, <1>4, ResumeJobLoose
  <2>2. Sound(f) /\ (Quiet(e, f) \/ Sends(e, f, j))
    BY <1>4, ResumeJobKeeps
  <2> QED
    BY <1>2, <2>1, <2>2, LooseTinted, StaysSent DEF QuietOrMakes
<1>5. CASE f \in SetJobOverrides(e, j)
  <2>1. Loose(e, f, {}) /\ Sent(e, f, j)
    BY <1>2, <1>5, SetJobOverridesLoose
  <2>2. Sound(f) /\ (Quiet(e, f) \/ Sends(e, f, j))
    BY <1>5, SetJobOverridesKeeps
  <2> QED
    BY <1>2, <2>1, <2>2, LooseTinted, StaysSent DEF QuietOrMakes
<1>6. CASE f \in RecycleJob(e, j)
  <2>1. PlainOrBins(e, f, j, {})
    BY <1>6, RecycleJobBins, PlainItself DEF PlainOrBins
  <2>2. Sound(f) /\ Quiet(e, f)
    BY <1>6, RecycleJobKeeps
  <2> QED
    BY <2>1, <2>2, BinsTinted, StaysSent DEF QuietOrMakes
<1>7. CASE f \in RemoveJob(e, j)
  <2>1. OneRequest(e.queue)
    BY DEF Booked, BookedBut
  <2>2. Gone(e, f, j)
    BY <1>7, <2>1, RemoveJobGone
  <2>3. NoJob.state = Absent
    BY NoJobFacts
  <2>4. Tinted(f)
    BY <2>2, <2>3 DEF Gone, Tinted, Present
  <2>5. AllSent(e, f)
    BY <2>2, <2>3, StateFacts DEF Gone, AllSent, Sent, InMux, Absent
  <2> QED
    BY <2>4, <2>5
<1> QED
  BY <1>1, <1>3, <1>4, <1>5, <1>6, <1>7

\* What every step owes.
Colours == Tinted(E') /\ AllSent(E, E')

LEMMA CommitColours ==
  ASSUME NEW f, Sound(f), Commit(f), Tinted(f), AllSent(E, f) PROVE Colours
<1>1. E' = f
  BY CommitIsE DEF Sound
<1> QED
  BY <1>1 DEF Colours

LEMMA ApplyColours ==
  ASSUME IInv, Tinted(E), SdrWaits, SameTransfer, Apply PROVE Colours
<1>1. PICK f \in Handle([E EXCEPT !.inbox = Tail(@)], Head(inbox)) : Commit(f)
  BY DEF Apply
<1>2. inbox # <<>>
  BY DEF Apply
<1>3. Sound(E) /\ Booked(E) /\ E.inbox = inbox /\ E.nextId = nextId
  BY DEF E, IInv
<1>4. Creating(Head(inbox)) => nextId \in Ids
  <2>1. /\ inbox \in Seq(Event) /\ nextId \in 1..(MaxJobs + 1) /\ MaxJobs \in Nat
    BY Typed, BoundsAssumption
  <2>2. /\ Cardinality(Creates(Tail(inbox))) \in Nat
        /\ Cardinality(Creates(inbox)) =
             Cardinality(Creates(Tail(inbox))) + IF Creating(Head(inbox)) THEN 1 ELSE 0
    BY <1>2, <2>1, CreatesTail
  <2> QED
    BY <2>1, <2>2 DEF IInv, IdsLeft, Ids
<1>5. E.inbox # <<>> /\ (Creating(Head(E.inbox)) => E.nextId \in Ids)
  BY <1>2, <1>3, <1>4
<1>6. f \in Handle([E EXCEPT !.inbox = Tail(@)], Head(E.inbox))
  BY <1>1, <1>3
<1>7. Tinted(f) /\ AllSent(E, f)
  BY <1>3, <1>5, <1>6, HandleTinted
<1>8. Sound(f)
  BY <1>3, <1>5, <1>6, HandleKeeps
<1> QED
  BY <1>1, <1>7, <1>8, CommitColours

LEMMA OnJobColours ==
  ASSUME IInv, Tinted(E), SdrWaits, NEW name, name # "run", NEW j \in Ids, OnJob(name, j)
  PROVE  Colours
<1>1. PICK f \in JobCommand(name, E, j) : Commit(f)
  BY DEF OnJob
<1>2. Present(E, j) /\ Sound(E) /\ Booked(E)
  BY DEF OnJob, Present, E, IInv
<1>3. Tinted(f) /\ AllSent(E, f)
  BY <1>2, JobCommandTinted
<1>4. Sound(f)
  BY <1>2, JobCommandKeeps
<1> QED
  BY <1>1, <1>3, <1>4, CommitColours

LEMMA AddManualFileColours ==
  ASSUME IInv, Tinted(E), NEW k \in Keys, AddManualFile(k) PROVE Colours
<1> DEFINE made == Create(E, k, "manual")
           f == IF FindActiveByKey(E, k) # 0 THEN E ELSE Schedule(made, nextId)
<1>1. Commit(f) /\ Room
  BY DEF AddManualFile
<1>2. /\ Sound(E) /\ E.nextId = nextId
      /\ inbox \in Seq(Event) /\ nextId \in 1..(MaxJobs + 1) /\ MaxJobs \in Nat
  BY Typed, BoundsAssumption DEF IInv, E
<1>3. Cardinality(Creates(inbox)) \in Nat
  <2>1. [type |-> "sidecar", key |-> k] \in Event
    BY DEF Event
  <2> QED
    BY <1>2, <2>1, CreatesAppend
<1>4. E.nextId \in Ids
  BY <1>1, <1>2, <1>3 DEF Room, Creates, Ids
<1>5. Joins(E, f)
  BY <1>2, <1>4, AddJoins
<1>6. QuietOrMakes(E, f)
  <2>1. CASE FindActiveByKey(E, k) # 0
    BY <1>2, <2>1, Itself
  <2>2. CASE FindActiveByKey(E, k) = 0
    <3>1. Sound(made) /\ Makes(E, made) /\ Present(made, E.nextId)
      BY <1>2, <1>4, CreateMakes DEF Sources
    <3>2. f = Schedule(made, E.nextId)
      BY <1>2, <2>2
    <3> HIDE DEF made, f
    <3>3. Sound(f) /\ Quiet(made, f)
      BY <3>1, <3>2, ScheduleKeeps
    <3> QED
      BY <3>1, <3>3, MakesQuiet DEF QuietOrMakes
  <2> QED
    BY <2>1, <2>2
<1> HIDE DEF f
<1> QED
  BY <1>1, <1>5, <1>6, JoinsTinted, StaysSent, CommitColours DEF QuietOrMakes

\* A switch is off, or on and releases the jobs that wait for it.
LEMMA SwitchColours ==
  ASSUME IInv, Tinted(E), SdrWaits, NEW g, NEW f, NEW why,
         g \in Engine, g.jobs = E.jobs, g.nextId = E.nextId, g.forced = E.forced,
         g.probe = E.probe, g.queue = E.queue, g.muxing = E.muxing, g.inbox = E.inbox,
         f = g \/ f \in ReleaseAll(g, HeldFor(why)), Commit(f)
  PROVE  Colours
<1>1. Sound(E) /\ Booked(E) /\ E.jobs = jobs
  BY DEF IInv, E
<1>2. Sound(g) /\ Booked(g)
  BY <1>1, SwitchKeeps DEF Keeps
<1>3. Tinted(g)
  BY DEF Tinted, Present
<1>4. Sound(f) /\ Tinted(f) /\ AllSent(g, f)
  <2>1. CASE f = g
    BY <1>2, <1>3, <2>1, Itself, StaysSent
  <2>2. CASE f \in ReleaseAll(g, HeldFor(why))
    <3>1. HeldFor(why) \subseteq Ids /\ \A j \in HeldFor(why) : g.jobs[j].state = "Held"
      BY <1>1, HeldForFacts
    <3>2. Sound(f)
      BY <1>2, <2>2, <3>1, ReleaseAllKeeps DEF Keeps
    <3>3. Loose(g, f, {}) /\ \A j \in Ids : Minded(g, j) => Sent(g, f, j)
      BY <1>2, <2>2, <3>1, ReleaseAllLoose
    <3> QED
      BY <1>3, <3>2, <3>3, LooseTinted DEF Tinted, Minded, SdrWaits, AllSent
  <2> QED
    BY <2>1, <2>2
<1>5. AllSent(E, f)
  BY <1>4 DEF AllSent, Sent
<1> QED
  BY <1>4, <1>5, CommitColours

LEMMA SetAutoProcessColours ==
  ASSUME IInv, Tinted(E), SdrWaits, SetAutoProcess PROVE Colours
<1> DEFINE g == [E EXCEPT !.auto = ~auto]
<1>1. PICK f : (f = g \/ f \in ReleaseAll(g, HeldFor("waiting"))) /\ Commit(f)
  BY Typed DEF SetAutoProcess
<1>2. E \in Engine
  BY DEF IInv, Sound
<1>3. /\ g \in Engine /\ g.jobs = E.jobs /\ g.nextId = E.nextId /\ g.forced = E.forced
      /\ g.probe = E.probe /\ g.queue = E.queue /\ g.muxing = E.muxing /\ g.inbox = E.inbox
  BY <1>2, Typed DEF Engine
<1> HIDE DEF g
<1> QED
  BY <1>1, <1>3, SwitchColours

LEMMA ReprobeMkvmergeColours ==
  ASSUME IInv, Tinted(E), SdrWaits, ReprobeMkvmerge PROVE Colours
<1> DEFINE g == [E EXCEPT !.tool = ~tool]
<1>1. PICK f : (f = g \/ f \in ReleaseAll(g, HeldFor("mkvmerge"))) /\ Commit(f)
  BY Typed DEF ReprobeMkvmerge
<1>2. E \in Engine
  BY DEF IInv, Sound
<1>3. /\ g \in Engine /\ g.jobs = E.jobs /\ g.nextId = E.nextId /\ g.forced = E.forced
      /\ g.probe = E.probe /\ g.queue = E.queue /\ g.muxing = E.muxing /\ g.inbox = E.inbox
  BY <1>2, Typed DEF Engine
<1> HIDE DEF g
<1> QED
  BY <1>1, <1>3, SwitchColours

LEMMA NextColours ==
  ASSUME IInv, Tinted(E), SdrWaits, SameTransfer, "run" \notin Commands, [Next]_vars
  PROVE  Colours
<1>1. CASE UNCHANGED <<jobs, forced>>
  <2>1. E'.jobs = E.jobs /\ E'.forced = E.forced
    BY <1>1 DEF E
  <2> QED
    BY <2>1, StateFacts DEF Colours, Tinted, Present, AllSent, Sent, InMux
<1>2. CASE UserStep
  <2>1. ASSUME NEW name \in Commands, NEW j \in Ids, OnJob(name, j) PROVE Colours
    BY <2>1, OnJobColours
  <2>2. ASSUME NEW k \in Keys, AddManualFile(k) PROVE Colours
    BY <2>2, AddManualFileColours
  <2> QED
    BY <1>2, <2>1, <2>2, SetAutoProcessColours, ReprobeMkvmergeColours DEF UserStep
<1>3. CASE MuxStep
  BY <1>1, <1>3 DEF MuxStep, MuxTake, MuxVerify, MuxEnd, MuxFrame, engineVars
<1>4. CASE WorldStep
  BY <1>1, <1>4 DEF WorldStep, AmeBegin, AmeWrite, AmeEnd, AmeFails, PostSidecar, FlushChange, Touch,
                    PostNews, WorldFrame, engineVars
<1>5. ASSUME NEW j \in Ids, ProbeStep(j) \/ ProbeWriting(j) PROVE Colours
  BY <1>1, <1>5 DEF ProbeStep, ProbeVerdict, ProbeMerge, ProbeWriting, ProbeFrame, engineVars
<1>6. CASE UNCHANGED vars
  BY <1>1, <1>6 DEF vars, engineVars
<1> QED
  BY <1>2, <1>3, <1>4, <1>5, <1>6, ApplyColours DEF Next

(* While SDR exports and those whose transfer is unknown are skipped or    *)
(* held, and the user forces no run, a job enters the mux only when its    *)
(* export is HDR or the user chose a preset for it or told its transfer:   *)
(* whatever the log, ffprobe and mkvmerge report, in whatever order        *)
(* triggers, verdicts, resumes, switches and corrections come.             *)
THEOREM SdrIsAsked ==
  ASSUME "run" \notin Commands, SdrWaits, SameTransfer
  PROVE  Spec => SdrNeedsPreset
<1> DEFINE Known == IInv /\ Tinted(E)
<1>1. Init => Known
  <2> SUFFICES ASSUME Init PROVE Known
    OBVIOUS
  <2>1. IInv
    BY InitSound
  <2>2. Tinted(E)
    BY NoJobFacts DEF Init, E, Tinted, Present
  <2> QED
    BY <2>1, <2>2
<1>2. Known /\ [Next]_vars => Known' /\ AllSent(E, E')
  BY NextStep, NextColours DEF Colours
<1>3. Known /\ [Next]_vars =>
        [\A j \in Ids : jobs'[j].state = "Muxing" /\ jobs[j].state \notin InMux
            => jobs'[j].preset \/ jobs'[j].byUser \/ Colour[jobs'[j].key] = "hdr"]_vars
  <2> SUFFICES ASSUME Known, [Next]_vars, NEW j \in Ids,
                      jobs'[j].state = "Muxing", jobs[j].state \notin InMux
               PROVE  jobs'[j].preset \/ jobs'[j].byUser \/ Colour[jobs'[j].key] = "hdr"
    OBVIOUS
  <2>1. Tinted(E') /\ AllSent(E, E')
    BY <1>2
  <2>2. E.jobs = jobs /\ E'.jobs = jobs'
    BY DEF E
  <2>3. jobs'[j].preset \/ jobs'[j].transfer = "hdr"
    BY <2>1, <2>2 DEF AllSent, Sent, Chosen
  <2>4. Present(E', j)
    BY <2>2 DEF Present, Absent
  <2> QED
    BY <2>1, <2>2, <2>3, <2>4 DEF Tinted, Bare
<1> HIDE DEF Known
<1> QED
  BY <1>1, <1>2, <1>3, PTL DEF Spec, SdrNeedsPreset

-----------------------------------------------------------------------------
(* The marks hold in every step *)

\* The workers, the world and a removal: rows stay or go, a file is new, gone
\* or the same, and what is new in the inbox or in the mux has its own proof.
RowsStand(e, f, m, n, y) ==
    \A i \in Ids : Present(f, i) =>
        /\ Present(e, i) /\ f.jobs[i].key = e.jobs[i].key /\ f.jobs[i].stamp = e.jobs[i].stamp
        /\ f.muxing.job = i => f.muxing.key = f.jobs[i].key
        /\ Proven(f, i) => \/ Proven(e, i) /\ n[i] = m[i]
                           \/ f.jobs[i].stamp.id <= n[i] /\ Within(f, n[i], f.jobs[i].key, y)
NothingAsked(e, f) ==
    /\ f.nextId = e.nextId
    /\ \A i \in Ids : f.probe[i].st # "none" => e.probe[i].st # "none" /\ f.probe[i].key = e.probe[i].key
    /\ \A p \in 1..Len(f.queue) : \E q \in 1..Len(e.queue) : f.queue[p] = e.queue[q]
FilesStand(e, f, y) == \A k \in Keys : /\ f.file[k].id = e.file[k].id \/ f.file[k].id \in {0, y}
                                       /\ f.file[k].content = f.file[k].id
Heard(e, f, y) ==
    \A i \in Ids : \A p \in 1..Len(f.inbox) : IsReady(f.inbox[p], i) =>
        \/ \E q \in 1..Len(e.inbox) : f.inbox[p] = e.inbox[q]
        \/ i < f.nextId /\ (Present(f, i) => Within(f, f.inbox[p].stamp.id, f.jobs[i].key, y))

LEMMA MarkedLater ==
  ASSUME NEW e, Sound(e), NEW x \in Nat, NEW m, \A i \in Ids : m[i] \in Nat, Marked(e, x, m),
         NEW f, NEW y \in Nat, NEW n, x <= y,
         RowsStand(e, f, m, n, y), NothingAsked(e, f), FilesStand(e, f, y), Heard(e, f, y)
  PROVE  Marked(f, y, n)
<1>1. \A k \in Keys : e.file[k].id \in Nat
  BY DEF Sound, Engine, FileRecord
<1>2. ASSUME NEW id \in Nat, NEW k \in Keys, Within(e, id, k, x) PROVE Within(f, id, k, y)
  BY <1>1, <1>2 DEF Within, FilesStand
<1>3. ASSUME NEW j \in Ids, Present(f, j) PROVE JobMarked(f, j, y, n)
  <2> DEFINE k == e.jobs[j].key
  <2>1. Present(e, j) /\ f.jobs[j].key = k /\ f.jobs[j].stamp = e.jobs[j].stamp
    BY <1>3 DEF RowsStand
  <2>2. k \in Keys /\ JobMarked(e, j, x, m) /\ e.jobs[j] \in JobRecord
    BY <2>1, KeyOfPresent DEF Marked
  <2>3. e.jobs[j].stamp.id \in Nat
    BY <2>2, BoundsAssumption DEF JobRecord
  <2>4. Within(f, e.jobs[j].stamp.id, k, y)
    BY <1>2, <2>2, <2>3 DEF JobMarked
  <2>5. Proven(f, j) => f.jobs[j].stamp.id <= n[j] /\ Within(f, n[j], k, y)
    <3>1. CASE Proven(e, j) /\ n[j] = m[j]
      BY <1>2, <2>1, <2>2, <3>1 DEF JobMarked
    <3> QED
      BY <1>3, <2>1, <3>1 DEF RowsStand
  <2>6. \A p \in 1..Len(f.queue) : f.queue[p].job = j => f.queue[p].key = k
    <3> SUFFICES ASSUME NEW p \in 1..Len(f.queue), f.queue[p].job = j PROVE f.queue[p].key = k
      OBVIOUS
    <3>1. PICK q \in 1..Len(e.queue) : f.queue[p] = e.queue[q]
      BY DEF NothingAsked
    <3> QED
      BY <2>2, <3>1 DEF JobMarked
  <2>7. f.probe[j].st # "none" => f.probe[j].key = k
    BY <2>2 DEF JobMarked, NothingAsked
  <2>8. ASSUME NEW p \in 1..Len(f.inbox), IsReady(f.inbox[p], j)
        PROVE  Within(f, f.inbox[p].stamp.id, k, y)
    <3>1. CASE Within(f, f.inbox[p].stamp.id, f.jobs[j].key, y)
      BY <2>1, <3>1
    <3>2. CASE \E q \in 1..Len(e.inbox) : f.inbox[p] = e.inbox[q]
      <4>1. PICK q \in 1..Len(e.inbox) : f.inbox[p] = e.inbox[q]
        BY <3>2
      <4>2. Within(e, e.inbox[q].stamp.id, k, x)
        BY <2>2, <2>8, <4>1 DEF JobMarked
      <4>3. e.inbox[q] \in Event /\ IsReady(e.inbox[q], j)
        BY <2>8, <4>1, ElementOfSeq DEF Sound, Engine
      <4>4. e.inbox[q].stamp.id \in Nat
        BY <4>3, BoundsAssumption DEF Event, IsReady, Stamps
      <4> QED
        BY <1>2, <2>2, <4>1, <4>2, <4>4
    <3> QED
      BY <1>3, <2>8, <3>1, <3>2 DEF Heard
  <2>9. f.muxing.job = j => f.muxing.key = k
    BY <1>3, <2>1 DEF RowsStand
  <2> QED
    BY <2>1, <2>4, <2>5, <2>6, <2>7, <2>8, <2>9 DEF JobMarked
<1>4. ASSUME NEW j \in Ids, j >= f.nextId PROVE Unasked(f, j)
  <2>1. Unasked(e, j)
    BY <1>4 DEF Marked, NothingAsked
  <2>2. f.probe[j].st = "none"
    BY <2>1 DEF Unasked, NothingAsked
  <2>3. ASSUME NEW p \in 1..Len(f.inbox), IsReady(f.inbox[p], j) PROVE FALSE
    <3>1. j \in Nat /\ f.nextId \in Nat
      BY BoundsAssumption DEF Ids, NothingAsked, Sound, Engine
    <3>2. \E q \in 1..Len(e.inbox) : f.inbox[p] = e.inbox[q]
      BY <1>4, <2>3, <3>1 DEF Heard
    <3> QED
      BY <2>1, <2>3, <3>2 DEF Unasked
  <2> QED
    BY <2>2, <2>3 DEF Unasked
<1>5. ASSUME NEW k \in Keys PROVE f.file[k].content = f.file[k].id /\ f.file[k].id <= y
  BY <1>1 DEF Marked, FilesStand
<1> QED
  BY <1>3, <1>4, <1>5 DEF Marked

\* What the marks say of does not change.
LEMMA MarkedAlike ==
  ASSUME NEW e, NEW f, NEW x, NEW m, Marked(e, x, m),
         f.jobs = e.jobs, f.file = e.file, f.inbox = e.inbox, f.muxing = e.muxing,
         f.nextId = e.nextId, f.queue = e.queue, f.probe = e.probe
  PROVE  Marked(f, x, m)
<1>1. \A id, k : Within(f, id, k, x) <=> Within(e, id, k, x)
  BY DEF Within
<1>2. \A j : Proven(f, j) <=> Proven(e, j)
  BY DEF Proven
<1>3. \A j \in Ids : Present(f, j) => JobMarked(f, j, x, m)
  BY <1>1, <1>2 DEF Marked, JobMarked, Present
<1> QED
  BY <1>3 DEF Marked, Unasked

LEMMA MarkedGone ==
  ASSUME NEW e, Sound(e), NEW x \in Nat, NEW m, \A i \in Ids : m[i] \in Nat, Marked(e, x, m),
         NEW j, NEW f, Gone(e, f, j)
  PROVE  Marks(e, f, x, m)
<1> DEFINE s == e.inbox
           t == f.inbox
           ev == [type |-> "mux", job |-> j, out |-> "Cancelled"]
<1>1. NoJob.state = Absent /\ NoJob.recycle = "NotRequested"
  BY NoJobFacts DEF NoJob
<1>2. \A i \in Ids : Present(f, i) => i # j /\ f.jobs[i] = e.jobs[i]
  BY <1>1 DEF Gone, Present
<1>3. ASSUME NEW i \in Ids, NEW p \in 1..Len(t), IsReady(t[p], i) \/ IsDone(t[p], i)
      PROVE  \E q \in 1..Len(s) : t[p] = s[q]
  <2>1. s \in Seq(Event) /\ Len(s) \in Nat
    BY LenProperties DEF Sound, Engine
  <2>2. CASE t = s
    BY <1>3, <2>2
  <2>3. CASE t = Append(s, ev)
    <3>1. j \in Ids
      BY DEF Gone, Present
    <3>2. ev \in Event /\ ~IsReady(ev, i) /\ ~IsDone(ev, i)
      BY <3>1 DEF Event, IsReady, IsDone
    <3> HIDE DEF s, t, ev
    <3>3. Len(t) = Len(s) + 1 /\ t[Len(s) + 1] = ev /\ \A q \in 1..Len(s) : t[q] = s[q]
      BY <2>1, <2>3, <3>2, AppendProperties
    <3>4. p # Len(s) + 1
      BY <1>3, <3>2, <3>3
    <3>5. p \in 1..Len(s)
      BY <2>1, <3>3, <3>4
    <3> QED
      BY <3>3, <3>5
  <2> QED
    BY <2>2, <2>3 DEF Gone
<1>4. ASSUME NEW i \in Ids, Present(f, i)
      PROVE  /\ Present(e, i) /\ f.jobs[i] = e.jobs[i]
             /\ f.muxing.job = i => f.muxing.key = f.jobs[i].key
             /\ Proven(f, i) => Proven(e, i)
  <2>1. Present(e, i) /\ f.jobs[i] = e.jobs[i]
    BY <1>2, <1>4 DEF Present
  <2>2. JobMarked(e, i, x, m)
    BY <2>1 DEF Marked
  <2>3. f.muxing.job = i => f.muxing.key = f.jobs[i].key
    BY <2>1, <2>2 DEF JobMarked, Gone
  <2>4. Proven(f, i) => Proven(e, i)
    BY <1>3, <2>1 DEF Proven, Gone
  <2> QED
    BY <2>1, <2>3, <2>4
<1>5. \A i \in Ids : f.probe[i].st # "none" => e.probe[i].st # "none" /\ f.probe[i].key = e.probe[i].key
  BY DEF Gone, NoProbe
<1>6. /\ f.nextId = e.nextId /\ f.file = e.file
      /\ \A p \in 1..Len(f.queue) : \E q \in 1..Len(e.queue) : f.queue[p] = e.queue[q]
  BY DEF Gone
<1>7. \A k \in Keys : f.file[k].content = f.file[k].id
  BY <1>6 DEF Marked
<1>8. \A i \in Ids : \A p \in 1..Len(f.inbox) : IsReady(f.inbox[p], i) =>
         \E q \in 1..Len(e.inbox) : f.inbox[p] = e.inbox[q]
  BY <1>3
<1> HIDE DEF s, t, ev
<1>9. Marked(f, x, m)
  <2>1. x <= x
    OBVIOUS
  <2>2. RowsStand(e, f, m, m, x)
    BY <1>4 DEF RowsStand
  <2>3. FilesStand(e, f, x)
    BY <1>6, <1>7 DEF FilesStand
  <2>4. NothingAsked(e, f) /\ Heard(e, f, x)
    BY <1>5, <1>6, <1>8 DEF NothingAsked, Heard
  <2> QED
    BY <2>1, <2>2, <2>3, <2>4, MarkedLater
<1>10. Bins(e, f, m)
  <2>1. \A i \in Ids : f.jobs[i] = e.jobs[i] \/ f.jobs[i] = NoJob
    BY DEF Gone
  <2> QED
    BY <1>1, <2>1 DEF Bins
<1> QED
  BY <1>9, <1>10 DEF Marks

LEMMA OnMuxMarks ==
  ASSUME NEW e, Sound(e), NEW x \in Nat, NEW m, \A i \in Ids : m[i] \in Nat, Marked(e, x, m),
         NEW ev \in MuxEvents, NEW f, f \in OnMux(e, ev),
         \A i \in Ids : Present(e, i) /\ IsDone(ev, i) =>
            e.jobs[i].stamp.id <= m[i] /\ Within(e, m[i], e.jobs[i].key, x)
  PROVE  Marks(e, f, x, m)
<1> DEFINE D == IF ev.out = "Done" THEN {ev.job} ELSE {}
<1>1. PlainOrBins(e, f, ev.job, D) /\ ev.job \in Ids
  BY OnMuxBins DEF MuxEvents
<1>2. \A i \in Ids : Present(e, i) /\ i \in D =>
        e.jobs[i].stamp.id <= m[i] /\ Within(e, m[i], e.jobs[i].key, x)
  BY DEF IsDone, MuxEvents
<1> HIDE DEF D
<1> QED
  BY <1>1, <1>2, BinsMarks

\* The next event is applied.
LEMMA HandleMarks ==
  ASSUME NEW e, Sound(e), Booked(e), e.inbox # <<>>, Distinct,
         NEW x \in Nat, NEW m, \A i \in Ids : m[i] \in Nat, Marked(e, x, m),
         Creating(Head(e.inbox)) => e.nextId \in Ids,
         NEW f, f \in Handle([e EXCEPT !.inbox = Tail(@)], Head(e.inbox))
  PROVE  Marks(e, f, x, m)
<1> DEFINE d == [e EXCEPT !.inbox = Tail(@)]
           ev == Head(e.inbox)
<1>1. /\ Sound(d) /\ ev \in Event /\ d.nextId = e.nextId
      /\ (\A j \in Ids : ~IsEnd(ev, j)) => Booked(d)
  BY Popped
<1>2. f \in Handle(d, ev) /\ (Creating(ev) => e.nextId \in Ids)
  OBVIOUS
<1>3. /\ Marked(d, x, m) /\ d.jobs = e.jobs /\ d.file = e.file
      /\ \A j \in Ids : Present(d, j) /\ IsReady(ev, j) => Within(d, ev.stamp.id, d.jobs[j].key, x)
      /\ \A j \in Ids : Present(d, j) /\ IsDone(ev, j) =>
           d.jobs[j].stamp.id <= m[j] /\ Within(d, m[j], d.jobs[j].key, x)
  BY MarkedPopped
<1> HIDE DEF d, ev
<1>4. /\ ev.type \in {"log", "cep", "sidecar", "output"} => ev.key \in Keys
      /\ ev.type = "probe" => ev \in ProbeEvents
      /\ ev.type = "mux" => ev \in MuxEvents
      /\ ev.type \in {"log", "cep", "sidecar", "output", "probe", "mux"}
  BY <1>1, EventFacts
<1>5. Marks(d, f, x, m) => Marks(e, f, x, m)
  BY <1>3 DEF Marks, Bins
<1>6. CASE ev.type \in {"log", "cep", "sidecar", "output"}
  <2>1. ev.key \in Keys /\ d.nextId \in Ids
    BY <1>1, <1>2, <1>4, <1>6 DEF Creating
  <2>2. Booked(d)
    BY <1>1, <1>6 DEF IsEnd
  <2>3. Joins(d, f)
    <3>1. CASE ev.type = "log"
      <4>1. \/ f \in LogSuccess(d, ev.key) \/ f \in LogFailed(d, ev.key)
            \/ f \in CatchUp(d, ev.key, ev.what = "newer")
        BY <1>2, <3>1 DEF Handle, OnLog
      <4>2. CASE f \in LogSuccess(d, ev.key)
        BY <1>1, <2>1, <4>2, LogSuccessJoins DEF JoinsFresh, Joins
      <4>3. CASE f \in LogFailed(d, ev.key)
        BY <1>1, <2>1, <4>3, LogFailedPlain DEF Joins
      <4>4. CASE f \in CatchUp(d, ev.key, ev.what = "newer")
        BY <1>1, <2>1, <4>4, CatchUpJoins DEF JoinsFresh, Joins
      <4> QED
        BY <4>1, <4>2, <4>3, <4>4
    <3>2. CASE ev.type = "cep"
      <4>1. f \in CepStarted(d, ev.key) \/ f \in CepComplete(d, ev.key, ev.what = "ok")
        BY <1>2, <3>2 DEF Handle, OnCep
      <4> QED
        BY <1>1, <2>1, <4>1, CepJoins
    <3>3. CASE ev.type = "sidecar"
      <4>1. f \in OnSidecar(d, ev)
        BY <1>2, <3>3 DEF Handle
      <4> QED
        BY <1>1, <2>1, <4>1, OnSidecarJoins
    <3>4. CASE ev.type = "output"
      <4>1. f \in OutputRemoved(d, ev.key) \/ f \in OutputSeen(d, ev.key, ev.action, ev.scan)
        BY <1>2, <3>4 DEF Handle, OnOutput
      <4>2. CASE f \in OutputRemoved(d, ev.key)
        BY <1>1, <2>1, <4>2, OutputRemovedPlain DEF Joins
      <4>3. CASE f \in OutputSeen(d, ev.key, ev.action, ev.scan)
        <5>1. JoinsFresh(Upgrade(d, ev.key), f)
          BY <1>1, <2>1, <4>3, OutputSeenJoins
        <5>2. Upgrade(d, ev.key) = d
          BY <1>1, <2>1, UpgradeIsIdle
        <5> QED
          BY <5>1, <5>2 DEF JoinsFresh, Joins
      <4> QED
        BY <4>1, <4>2, <4>3
    <3> QED
      BY <1>6, <3>1, <3>2, <3>3, <3>4
  <2> QED
    BY <1>1, <1>3, <1>5, <2>2, <2>3, JoinsMarks
<1>7. CASE ev.type = "probe"
  <2>1. f \in OnProbe(d, ev) /\ ev \in ProbeEvents /\ ev.job \in Ids
    BY <1>2, <1>4, <1>7 DEF Handle, ProbeEvents
  <2>2. Booked(d)
    BY <1>1, <1>7 DEF IsEnd
  <2>3. ev.out = "Ready" /\ Present(d, ev.job) => Within(d, ev.stamp.id, d.jobs[ev.job].key, x)
    BY <1>3, <1>7, <2>1 DEF IsReady
  <2> QED
    BY <1>1, <1>3, <1>5, <2>1, <2>2, <2>3, OnProbeMarks
<1>8. CASE ev.type = "mux"
  <2>1. f \in OnMux(d, ev) /\ ev \in MuxEvents
    BY <1>2, <1>4, <1>8 DEF Handle
  <2> QED
    BY <1>1, <1>3, <1>5, <2>1, OnMuxMarks
<1> QED
  BY <1>4, <1>6, <1>7, <1>8

LEMMA JobCommandMarks ==
  ASSUME NEW e, Sound(e), Booked(e), NEW x \in Nat, NEW m, \A i \in Ids : m[i] \in Nat,
         Marked(e, x, m), NEW j, Present(e, j), NEW name, NEW f, f \in JobCommand(name, e, j)
  PROVE  Marks(e, f, x, m)
<1>1. \/ f \in RunJob(e, j) \/ f \in HoldJob(e, j) \/ f \in ResumeJob(e, j) \/ f \in RemoveJob(e, j)
      \/ f \in SetJobOverrides(e, j) \/ f \in RecycleJob(e, j)
  BY DEF JobCommand
<1>2. j \in Ids
  BY DEF Present
<1>3. CASE f \in RunJob(e, j)
  <2>1. PICK g, S : LET h == [g EXCEPT !.forced = S]
                    IN  Loose(e, g, {}) /\ Sound(h) /\ Loose(h, f, {})
    BY <1>3, RunJobLoose
  <2> DEFINE h == [g EXCEPT !.forced = S]
  <2>2. Marked(g, x, m) /\ Bins(e, g, m)
    BY <2>1, LooseMarks DEF Marks
  <2>3. /\ h.jobs = g.jobs /\ h.file = g.file /\ h.inbox = g.inbox /\ h.muxing = g.muxing
        /\ h.nextId = g.nextId /\ h.queue = g.queue /\ h.probe = g.probe
    OBVIOUS
  <2>4. Sound(h) /\ Loose(h, f, {})
    BY <2>1
  <2> HIDE DEF h
  <2>5. Marked(h, x, m)
    BY <2>2, <2>3, MarkedAlike
  <2>6. Marked(f, x, m)
    BY <2>4, <2>5, LooseMarks DEF Marks
  <2>7. Bins(e, f, m)
    BY <2>1, <2>3, <2>4 DEF Bins, Loose, RowKept
  <2> QED
    BY <2>6, <2>7 DEF Marks
<1>4. CASE f \in HoldJob(e, j)
  BY <1>4, HoldJobPlain, LooseMarks DEF Plain
<1>5. CASE f \in ResumeJob(e, j)
  BY <1>5, ResumeJobLoose, LooseMarks
<1>6. CASE f \in SetJobOverrides(e, j)
  BY <1>6, SetJobOverridesLoose, LooseMarks
<1>7. CASE f \in RecycleJob(e, j)
  <2>1. PlainOrBins(e, f, j, {})
    BY <1>7, RecycleJobBins, PlainItself DEF PlainOrBins
  <2> QED
    BY <1>2, <2>1, BinsMarks
<1>8. CASE f \in RemoveJob(e, j)
  <2>1. OneRequest(e.queue)
    BY DEF Booked, BookedBut
  <2>2. Gone(e, f, j)
    BY <1>8, <2>1, RemoveJobGone
  <2> QED
    BY <2>2, MarkedGone
<1> QED
  BY <1>1, <1>3, <1>4, <1>5, <1>6, <1>7, <1>8

\* What every step owes.
MarksStep == Marked(E', exports', muxed') /\ Bins(E, E', muxed)

LEMMA Counted ==
  ASSUME IInv PROVE exports \in Nat /\ \A i \in Ids : muxed[i] \in Nat
BY BoundsAssumption DEF IInv, WorldSound

LEMMA CommitMarks ==
  ASSUME NEW f, Sound(f), Commit(f), Marks(E, f, exports, muxed) PROVE MarksStep
<1>1. E' = f /\ exports' = exports /\ muxed' = muxed
  BY CommitIsE DEF Sound, Commit
<1> QED
  BY <1>1 DEF MarksStep, Marks

LEMMA ApplyMarks ==
  ASSUME IInv, Marked(E, exports, muxed), Distinct, Apply PROVE MarksStep
<1>1. PICK f \in Handle([E EXCEPT !.inbox = Tail(@)], Head(inbox)) : Commit(f)
  BY DEF Apply
<1>2. inbox # <<>>
  BY DEF Apply
<1>3. Sound(E) /\ Booked(E) /\ E.inbox = inbox /\ E.nextId = nextId
  BY DEF E, IInv
<1>4. Creating(Head(inbox)) => nextId \in Ids
  <2>1. /\ inbox \in Seq(Event) /\ nextId \in 1..(MaxJobs + 1) /\ MaxJobs \in Nat
    BY Typed, BoundsAssumption
  <2>2. /\ Cardinality(Creates(Tail(inbox))) \in Nat
        /\ Cardinality(Creates(inbox)) =
             Cardinality(Creates(Tail(inbox))) + IF Creating(Head(inbox)) THEN 1 ELSE 0
    BY <1>2, <2>1, CreatesTail
  <2> QED
    BY <2>1, <2>2 DEF IInv, IdsLeft, Ids
<1>5. E.inbox # <<>> /\ (Creating(Head(E.inbox)) => E.nextId \in Ids)
  BY <1>2, <1>3, <1>4
<1>6. f \in Handle([E EXCEPT !.inbox = Tail(@)], Head(E.inbox))
  BY <1>1, <1>3
<1>7. Marks(E, f, exports, muxed)
  BY <1>3, <1>5, <1>6, Counted, HandleMarks
<1>8. Sound(f)
  BY <1>3, <1>5, <1>6, HandleKeeps
<1> QED
  BY <1>1, <1>7, <1>8, CommitMarks

LEMMA OnJobMarks ==
  ASSUME IInv, Marked(E, exports, muxed), NEW name, NEW j \in Ids, OnJob(name, j)
  PROVE  MarksStep
<1>1. PICK f \in JobCommand(name, E, j) : Commit(f)
  BY DEF OnJob
<1>2. Present(E, j) /\ Sound(E) /\ Booked(E)
  BY DEF OnJob, Present, E, IInv
<1>3. Marks(E, f, exports, muxed)
  BY <1>2, Counted, JobCommandMarks
<1>4. Sound(f)
  BY <1>2, JobCommandKeeps
<1> QED
  BY <1>1, <1>3, <1>4, CommitMarks

LEMMA AddManualFileMarks ==
  ASSUME IInv, Marked(E, exports, muxed), NEW k \in Keys, AddManualFile(k) PROVE MarksStep
<1> DEFINE made == Create(E, k, "manual")
           f == IF FindActiveByKey(E, k) # 0 THEN E ELSE Schedule(made, nextId)
<1>1. Commit(f) /\ Room
  BY DEF AddManualFile
<1>2. /\ Sound(E) /\ Booked(E) /\ E.nextId = nextId
      /\ inbox \in Seq(Event) /\ nextId \in 1..(MaxJobs + 1) /\ MaxJobs \in Nat
  BY Typed, BoundsAssumption DEF IInv, E
<1>3. Cardinality(Creates(inbox)) \in Nat
  <2>1. [type |-> "sidecar", key |-> k] \in Event
    BY DEF Event
  <2> QED
    BY <1>2, <2>1, CreatesAppend
<1>4. E.nextId \in Ids
  BY <1>1, <1>2, <1>3 DEF Room, Creates, Ids
<1>5. Joins(E, f)
  BY <1>2, <1>4, AddJoins
<1>6. Sound(f)
  <2>1. CASE FindActiveByKey(E, k) # 0
    BY <1>2, <2>1
  <2>2. CASE FindActiveByKey(E, k) = 0
    <3>1. Sound(made) /\ Present(made, E.nextId)
      BY <1>2, <1>4, CreateMakes DEF Sources
    <3>2. f = Schedule(made, E.nextId)
      BY <1>2, <2>2
    <3> HIDE DEF made, f
    <3> QED
      BY <3>1, <3>2, ScheduleKeeps
  <2> QED
    BY <2>1, <2>2
<1> HIDE DEF f
<1> QED
  BY <1>1, <1>2, <1>5, <1>6, Counted, JoinsMarks, CommitMarks

\* A switch is off, or on and releases the jobs that wait for it.
LEMMA SwitchMarks ==
  ASSUME IInv, Marked(E, exports, muxed), NEW g, NEW f, NEW why,
         g \in Engine, g.jobs = E.jobs, g.nextId = E.nextId, g.forced = E.forced,
         g.probe = E.probe, g.queue = E.queue, g.muxing = E.muxing, g.inbox = E.inbox,
         g.file = E.file, f = g \/ f \in ReleaseAll(g, HeldFor(why)), Commit(f)
  PROVE  MarksStep
<1>1. Sound(E) /\ Booked(E) /\ E.jobs = jobs
  BY DEF IInv, E
<1>2. Sound(g) /\ Booked(g)
  BY <1>1, SwitchKeeps DEF Keeps
<1>3. Marked(g, exports, muxed)
  BY MarkedAlike
<1>4. Sound(f) /\ Marks(g, f, exports, muxed)
  <2>1. CASE f = g
    BY <1>2, <1>3, <2>1 DEF Marks, Bins
  <2>2. CASE f \in ReleaseAll(g, HeldFor(why))
    <3>1. HeldFor(why) \subseteq Ids /\ \A j \in HeldFor(why) : g.jobs[j].state = "Held"
      BY <1>1, HeldForFacts
    <3>2. Sound(f)
      BY <1>2, <2>2, <3>1, ReleaseAllKeeps DEF Keeps
    <3>3. Loose(g, f, {})
      BY <1>2, <2>2, <3>1, ReleaseAllLoose
    <3> QED
      BY <1>2, <1>3, <3>2, <3>3, Counted, LooseMarks
  <2> QED
    BY <2>1, <2>2
<1>5. Marks(E, f, exports, muxed)
  BY <1>4 DEF Marks, Bins
<1> QED
  BY <1>4, <1>5, CommitMarks

LEMMA SetAutoProcessMarks ==
  ASSUME IInv, Marked(E, exports, muxed), SetAutoProcess PROVE MarksStep
<1> DEFINE g == [E EXCEPT !.auto = ~auto]
<1>1. PICK f : (f = g \/ f \in ReleaseAll(g, HeldFor("waiting"))) /\ Commit(f)
  BY Typed DEF SetAutoProcess
<1>2. E \in Engine
  BY DEF IInv, Sound
<1>3. /\ g \in Engine /\ g.jobs = E.jobs /\ g.nextId = E.nextId /\ g.forced = E.forced
      /\ g.probe = E.probe /\ g.queue = E.queue /\ g.muxing = E.muxing /\ g.inbox = E.inbox
      /\ g.file = E.file
  BY <1>2, Typed DEF Engine
<1> HIDE DEF g
<1> QED
  BY <1>1, <1>3, SwitchMarks

LEMMA ReprobeMkvmergeMarks ==
  ASSUME IInv, Marked(E, exports, muxed), ReprobeMkvmerge PROVE MarksStep
<1> DEFINE g == [E EXCEPT !.tool = ~tool]
<1>1. PICK f : (f = g \/ f \in ReleaseAll(g, HeldFor("mkvmerge"))) /\ Commit(f)
  BY Typed DEF ReprobeMkvmerge
<1>2. E \in Engine
  BY DEF IInv, Sound
<1>3. /\ g \in Engine /\ g.jobs = E.jobs /\ g.nextId = E.nextId /\ g.forced = E.forced
      /\ g.probe = E.probe /\ g.queue = E.queue /\ g.muxing = E.muxing /\ g.inbox = E.inbox
      /\ g.file = E.file
  BY <1>2, Typed DEF Engine
<1> HIDE DEF g
<1> QED
  BY <1>1, <1>3, SwitchMarks

LEMMA Grown ==
  ASSUME NEW s \in Seq(Event), NEW ev \in Event, NEW t, t = Append(s, ev)
  PROVE  \A p \in 1..Len(t) : t[p] = ev \/ \E q \in 1..Len(s) : t[p] = s[q]
<1>1. Len(s) \in Nat
  BY LenProperties
<1>2. Len(t) = Len(s) + 1 /\ t[Len(s) + 1] = ev /\ \A q \in 1..Len(s) : t[q] = s[q]
  BY AppendProperties
<1>3. ASSUME NEW p \in 1..Len(t) PROVE t[p] = ev \/ \E q \in 1..Len(s) : t[p] = s[q]
  <2>1. p = Len(s) + 1 \/ p \in 1..Len(s)
    BY <1>1, <1>2
  <2> QED
    BY <1>2, <2>1
<1> QED
  BY <1>3

LEMMA LaterMarks ==
  ASSUME IInv, Marked(E, exports, muxed), UNCHANGED jobs, exports' \in Nat, exports <= exports',
         RowsStand(E, E', muxed, muxed', exports'), NothingAsked(E, E'),
         FilesStand(E, E', exports'), Heard(E, E', exports')
  PROVE  MarksStep
<1>1. Sound(E)
  BY DEF IInv
<1>2. Marked(E', exports', muxed')
  BY <1>1, Counted, MarkedLater
<1>3. Bins(E, E', muxed)
  BY DEF Bins, E
<1> QED
  BY <1>2, <1>3 DEF MarksStep

\* What a worker or the world may post: a verdict of an asked job's file, and
\* nothing of a mux that is done.
Honest(ev) == \A i \in Ids :
    /\ ~IsDone(ev, i)
    /\ IsReady(ev, i) => i < nextId /\ (Present(E, i) => Within(E', ev.stamp.id, jobs[i].key, exports'))

LEMMA AroundMarks ==
  ASSUME IInv, Marked(E, exports, muxed), UNCHANGED <<jobs, nextId, muxed, muxing, queue>>,
         exports' \in Nat, exports <= exports', FilesStand(E, E', exports'),
         \A i \in Ids : probe'[i].st # "none" => probe[i].st # "none" /\ probe'[i].key = probe[i].key,
         inbox' = inbox \/ \E ev \in Event : Honest(ev) /\ inbox' = Append(inbox, ev)
  PROVE  MarksStep
<1>1. /\ E.jobs = jobs /\ E'.jobs = jobs' /\ E.nextId = nextId /\ E'.nextId = nextId'
      /\ E.inbox = inbox /\ E'.inbox = inbox' /\ E.muxing = muxing /\ E'.muxing = muxing'
      /\ E.queue = queue /\ E'.queue = queue' /\ E.probe = probe /\ E'.probe = probe'
  BY DEF E
<1>2. inbox \in Seq(Event)
  BY Typed
<1>3. \A p \in 1..Len(inbox') : \/ \E q \in 1..Len(inbox) : inbox'[p] = inbox[q]
                                \/ inbox'[p] \in Event /\ Honest(inbox'[p])
  <2>1. CASE inbox' = inbox
    BY <2>1
  <2>2. ASSUME NEW ev \in Event, Honest(ev), inbox' = Append(inbox, ev)
        PROVE  \A p \in 1..Len(inbox') : \/ \E q \in 1..Len(inbox) : inbox'[p] = inbox[q]
                                         \/ inbox'[p] \in Event /\ Honest(inbox'[p])
    BY <1>2, <2>2, Grown
  <2> QED
    BY <2>1, <2>2
<1>4. \A i \in Ids : Present(E', i) <=> Present(E, i)
  BY <1>1 DEF Present
<1>5. ASSUME NEW i \in Ids, Present(E', i)
      PROVE  /\ E'.muxing.job = i => E'.muxing.key = E'.jobs[i].key
             /\ Proven(E', i) => Proven(E, i)
  <2>1. JobMarked(E, i, exports, muxed)
    BY <1>4, <1>5 DEF Marked
  <2>2. E'.muxing.job = i => E'.muxing.key = E'.jobs[i].key
    BY <1>1, <2>1 DEF JobMarked
  <2>3. Proven(E', i) => Proven(E, i)
    BY <1>1, <1>3 DEF Proven, Honest
  <2> QED
    BY <2>2, <2>3
<1>6. RowsStand(E, E', muxed, muxed', exports')
  BY <1>1, <1>4, <1>5 DEF RowsStand
<1>7. NothingAsked(E, E')
  BY <1>1 DEF NothingAsked
<1>8. Heard(E, E', exports')
  BY <1>1, <1>3, <1>4 DEF Heard, Honest
<1> QED
  BY <1>6, <1>7, <1>8, LaterMarks

LEMMA FilesSame ==
  ASSUME Marked(E, exports, muxed), file' = file, NEW y PROVE FilesStand(E, E', y)
BY DEF FilesStand, Marked, E

LEMMA ProbeMarks ==
  ASSUME IInv, Marked(E, exports, muxed), NEW j \in Ids, ProbeStep(j) \/ ProbeWriting(j)
  PROVE  MarksStep
<1>1. /\ UNCHANGED <<jobs, nextId, muxed, muxing, queue>> /\ exports' = exports /\ file' = file
  BY DEF ProbeStep, ProbeVerdict, ProbeMerge, ProbeWriting, ProbeFrame, engineVars, diskVars, worldVars
<1>2. exports' \in Nat /\ exports <= exports' /\ FilesStand(E, E', exports')
  BY <1>1, Counted, FilesSame
<1>3. probe \in [Ids -> ProbeRecord] /\ file \in [Keys -> FileRecord]
      /\ (probe[j].st # "none" => probe[j].key \in Keys)
  BY Typed
<1> DEFINE writing == [type |-> "probe", job |-> j, out |-> "Writing"]
           failed == [type |-> "probe", job |-> j, out |-> "Failed"]
           stamp == Stamp(E, probe[j].key)
           ready == [type |-> "probe", job |-> j, out |-> "Ready", stamp |-> stamp]
<1>4. /\ writing \in Event /\ failed \in Event
      /\ \A i \in Ids : /\ ~IsDone(writing, i) /\ ~IsReady(writing, i)
                        /\ ~IsDone(failed, i) /\ ~IsReady(failed, i)
  BY DEF Event, IsDone, IsReady
<1>5. ASSUME probe[j].st # "none"
      PROVE  ready \in Event /\ Honest(ready)
  <2>1. stamp \in Stamps /\ stamp.id = file[probe[j].key].id
    BY <1>3, <1>5 DEF Stamp, Stamps, E, FileRecord
  <2> HIDE DEF stamp
  <2>2. ready \in Event
    BY <2>1 DEF Event
  <2>3. j < nextId
    <3>1. j \in Nat /\ nextId \in Nat
      BY Typed, BoundsAssumption DEF Ids
    <3>2. ~Unasked(E, j)
      BY <1>5 DEF Unasked, E
    <3> QED
      BY <3>1, <3>2 DEF Marked, E
  <2>4. ASSUME Present(E, j) PROVE Within(E', stamp.id, jobs[j].key, exports')
    <3>1. probe[j].key = jobs[j].key
      BY <1>5, <2>4 DEF Marked, JobMarked, E
    <3>2. file[probe[j].key].id <= exports
      BY <1>3, <1>5 DEF Marked, E
    <3>3. file[probe[j].key].id \in Nat
      BY <1>3, <1>5 DEF FileRecord
    <3> QED
      BY <1>1, <2>1, <3>1, <3>2, <3>3 DEF Within, E
  <2> QED
    BY <2>2, <2>3, <2>4 DEF Honest, IsDone, IsReady
<1> HIDE DEF writing, failed, ready
<1>6. Honest(writing) /\ Honest(failed)
  BY <1>4 DEF Honest
<1>7. CASE ProbeWriting(j)
  <2>1. inbox' = Append(inbox, writing) /\ probe' = probe
    BY <1>7 DEF ProbeWriting, Post, writing
  <2> QED
    BY <1>1, <1>2, <1>4, <1>6, <2>1, AroundMarks
<1>8. CASE ProbeVerdict(j)
  <2>1. probe[j].st # "none" /\ \E st : st # "none" /\ probe' = [probe EXCEPT ![j].st = st]
    BY <1>8 DEF ProbeVerdict
  <2>2. \A i \in Ids : probe'[i].st # "none" => probe[i].st # "none" /\ probe'[i].key = probe[i].key
    BY <1>3, <2>1 DEF ProbeRecord
  <2>3. inbox' = Append(inbox, ready) \/ inbox' = Append(inbox, failed)
    BY <1>8 DEF ProbeVerdict, Post, ready, failed
  <2> QED
    BY <1>1, <1>2, <1>4, <1>5, <1>6, <2>1, <2>2, <2>3, AroundMarks
<1>9. CASE ProbeMerge(j)
  <2>1. \A i \in Ids : probe'[i].st # "none" => probe[i].st # "none" /\ probe'[i].key = probe[i].key
    BY <1>3, <1>9 DEF ProbeMerge, NoProbe
  <2>2. inbox' = inbox \/ inbox' = Append(inbox, failed)
    BY <1>9 DEF ProbeMerge, Post, failed
  <2> QED
    BY <1>1, <1>2, <1>4, <1>6, <2>1, <2>2, AroundMarks
<1> QED
  BY <1>7, <1>8, <1>9 DEF ProbeStep

LEMMA WorldMarks ==
  ASSUME IInv, Marked(E, exports, muxed), ~Truncates, WorldStep PROVE MarksStep
<1>1. UNCHANGED <<jobs, nextId, muxed, muxing, queue, probe>>
  BY DEF WorldStep, AmeBegin, AmeWrite, AmeEnd, AmeFails, PostSidecar, FlushChange, Touch, PostNews,
         WorldFrame, engineVars, workerVars
<1>2. exports \in Nat /\ file \in [Keys -> FileRecord]
  BY Counted, Typed
<1>3. exports' = exports \/ exports' = exports + 1
  BY DEF WorldStep, AmeBegin, AmeWrite, AmeEnd, AmeFails, PostSidecar, FlushChange, Touch, PostNews,
         worldVars
<1>4. exports' \in Nat /\ exports <= exports'
  BY <1>2, <1>3
<1>5. FilesStand(E, E', exports')
  <2>1. CASE file' = file
    BY <2>1, FilesSame
  <2>2. ASSUME NEW k \in Keys, file' = [file EXCEPT ![k] = NoFile] PROVE FilesStand(E, E', exports')
    BY <1>2, <2>2 DEF FilesStand, Marked, E, NoFile
  <2>3. ASSUME NEW k \in Keys, AmeWrite(k) PROVE FilesStand(E, E', exports')
    <3>1. PICK size \in Sizes : file' = [file EXCEPT ![k] = [id |-> exports, size |-> size, content |-> exports]]
      BY <2>3 DEF AmeWrite
    <3>2. exports' = exports
      BY <2>3 DEF AmeWrite
    <3> QED
      BY <1>2, <3>1, <3>2 DEF FilesStand, Marked, E
  <2>4. \/ file' = file
        \/ \E k \in Keys : file' = [file EXCEPT ![k] = NoFile] \/ AmeWrite(k)
    BY DEF WorldStep, AmeBegin, AmeEnd, AmeFails, PostSidecar, FlushChange, Touch, PostNews, diskVars
  <2> QED
    BY <2>1, <2>2, <2>3, <2>4
<1>6. inbox' = inbox \/ \E ev \in Event : Honest(ev) /\ inbox' = Append(inbox, ev)
  <2>1. ASSUME NEW ev \in Event, ev.type \notin {"probe", "mux"}, Post(ev)
        PROVE  \E new \in Event : Honest(new) /\ inbox' = Append(inbox, new)
    <3>1. Honest(ev)
      BY <2>1 DEF Honest, IsDone, IsReady
    <3> QED
      BY <2>1, <3>1 DEF Post
  <2>2. ASSUME NEW k \in Keys, NEW action \in Changes, NEW scan \in BOOLEAN,
               Post([type |-> "output", key |-> k, action |-> action, scan |-> scan])
        PROVE  \E new \in Event : Honest(new) /\ inbox' = Append(inbox, new)
    <3> DEFINE ev == [type |-> "output", key |-> k, action |-> action, scan |-> scan]
    <3>1. ev \in Event /\ ev.type = "output"
      BY DEF Event
    <3>2. Post(ev)
      BY <2>2
    <3> HIDE DEF ev
    <3> QED
      BY <2>1, <3>1, <3>2
  <2>3. ASSUME NEW s \in {"log", "cep"}, NEW k \in Keys, NEW what \in Texts,
               Post([type |-> s, key |-> k, what |-> what])
        PROVE  \E new \in Event : Honest(new) /\ inbox' = Append(inbox, new)
    <3> DEFINE ev == [type |-> s, key |-> k, what |-> what]
    <3>1. ev \in Event /\ ev.type \in {"log", "cep"}
      BY DEF Event
    <3>2. Post(ev)
      BY <2>3
    <3> HIDE DEF ev
    <3> QED
      BY <2>1, <3>1, <3>2
  <2>4. ASSUME NEW k \in Keys, PostSidecar(k)
        PROVE  \E new \in Event : Honest(new) /\ inbox' = Append(inbox, new)
    <3> DEFINE ev == [type |-> "sidecar", key |-> k]
    <3>1. ev \in Event /\ ev.type = "sidecar"
      BY DEF Event
    <3>2. Post(ev)
      BY <2>4 DEF PostSidecar
    <3> HIDE DEF ev
    <3> QED
      BY <2>1, <3>1, <3>2
  <2>5. ASSUME NEW s \in {"log", "cep"}, PostNews(s)
        PROVE  \E new \in Event : Honest(new) /\ inbox' = Append(inbox, new)
    <3> DEFINE told == Head(news[s])
    <3>1. news[s] \in Seq(Keys \X Texts) /\ news[s] # <<>>
      BY <2>5 DEF IInv, WorldSound, PostNews
    <3>2. told \in Keys \X Texts
      BY <3>1, HeadTailProperties
    <3>3. Post([type |-> s, key |-> told[1], what |-> told[2]])
      BY <2>5 DEF PostNews
    <3> HIDE DEF told
    <3>4. told[1] \in Keys /\ told[2] \in Texts
      BY <3>2
    <3> QED
      BY <2>3, <3>3, <3>4
  <2>6. ASSUME NEW k \in Keys, FlushChange(k)
        PROVE  inbox' = inbox \/ \E new \in Event : Honest(new) /\ inbox' = Append(inbox, new)
    <3>1. \/ inbox' = inbox
          \/ \E action \in Changes :
               Post([type |-> "output", key |-> k, action |-> action, scan |-> FALSE])
      BY <2>6 DEF FlushChange, Changes
    <3> QED
      BY <2>2, <3>1
  <2>7. ASSUME NEW k \in Keys, Touch(k)
        PROVE  inbox' = inbox \/ \E new \in Event : Honest(new) /\ inbox' = Append(inbox, new)
    <3>1. \/ inbox' = inbox
          \/ Post([type |-> "output", key |-> k, action |-> "Added", scan |-> TRUE])
          \/ \E what \in {"newer", "older"} : Post([type |-> "log", key |-> k, what |-> what])
      BY <2>7 DEF Touch
    <3>2. "Added" \in Changes /\ TRUE \in BOOLEAN /\ {"newer", "older"} \subseteq Texts
      BY DEF Changes, Texts
    <3>3. CASE Post([type |-> "output", key |-> k, action |-> "Added", scan |-> TRUE])
      BY <2>2, <3>2, <3>3
    <3>4. ASSUME NEW what \in {"newer", "older"}, Post([type |-> "log", key |-> k, what |-> what])
          PROVE  \E new \in Event : Honest(new) /\ inbox' = Append(inbox, new)
      BY <2>3, <3>2, <3>4
    <3> QED
      BY <3>1, <3>3, <3>4
  <2>8. \/ inbox' = inbox
        \/ \E k \in Keys : PostSidecar(k) \/ FlushChange(k) \/ Touch(k)
        \/ PostNews("log") \/ PostNews("cep")
    BY DEF WorldStep, AmeBegin, AmeWrite, AmeEnd, AmeFails
  <2> QED
    BY <2>4, <2>5, <2>6, <2>7, <2>8
<1> QED
  BY <1>1, <1>2, <1>4, <1>5, <1>6, AroundMarks

LEMMA MuxTakeMarks ==
  ASSUME IInv, Marked(E, exports, muxed), MuxTake PROVE MarksStep
<1>1. /\ UNCHANGED <<jobs, nextId, muxed, inbox, probe>> /\ exports' = exports /\ file' = file
      /\ queue # <<>> /\ queue' = Tail(queue)
      /\ muxing' = [Idle EXCEPT !.job = Head(queue).job, !.key = Head(queue).key]
  BY DEF MuxTake, MuxFrame, engineVars, worldVars
<1>2. exports' \in Nat /\ exports <= exports' /\ FilesStand(E, E', exports')
  BY <1>1, Counted, FilesSame
<1>3. /\ E.jobs = jobs /\ E'.jobs = jobs' /\ E.nextId = nextId /\ E'.nextId = nextId'
      /\ E.inbox = inbox /\ E'.inbox = inbox' /\ E'.muxing = muxing'
      /\ E.queue = queue /\ E'.queue = queue' /\ E.probe = probe /\ E'.probe = probe'
  BY DEF E
<1>4. queue \in Seq(Request) /\ Len(queue) \in Nat \ {0} /\ Head(queue) = queue[1]
  BY <1>1, Typed, LenProperties, EmptySeq
<1>5. Len(queue') = Len(queue) - 1 /\ \A p \in 1..Len(queue') : queue'[p] = queue[p + 1]
  BY <1>1, <1>4, HeadTailProperties
<1>6. \A p \in 1..Len(queue') : \E q \in 1..Len(queue) : queue'[p] = queue[q]
  BY <1>4, <1>5
<1>7. muxing'.job = queue[1].job /\ muxing'.key = queue[1].key /\ ~muxing'.verified
  BY <1>1, <1>4 DEF Idle
<1>8. 1 \in 1..Len(queue)
  BY <1>4
<1>9. RowsStand(E, E', muxed, muxed', exports')
  <2> SUFFICES ASSUME NEW i \in Ids, Present(E', i)
               PROVE  /\ Present(E, i)
                      /\ muxing'.job = i => muxing'.key = jobs[i].key
                      /\ Proven(E', i) => Proven(E, i)
    BY <1>1, <1>3 DEF RowsStand
  <2>1. Present(E, i)
    BY <1>1, <1>3 DEF Present
  <2>2. muxing'.job = i => muxing'.key = jobs[i].key
    BY <1>3, <1>7, <1>8, <2>1 DEF Marked, JobMarked
  <2>3. Proven(E', i) => Proven(E, i)
    BY <1>1, <1>3, <1>7 DEF Proven
  <2> QED
    BY <2>1, <2>2, <2>3
<1>10. NothingAsked(E, E') /\ Heard(E, E', exports')
  BY <1>1, <1>3, <1>6 DEF NothingAsked, Heard
<1> QED
  BY <1>1, <1>2, <1>9, <1>10, LaterMarks

LEMMA MuxVerifyMarks ==
  ASSUME IInv, Marked(E, exports, muxed), MuxVerify PROVE MarksStep
<1> DEFINE j == muxing.job
           k == muxing.key
           ev == [type |-> "mux", job |-> j, out |-> "Verifying"]
<1>1. /\ UNCHANGED <<jobs, nextId, queue, probe>> /\ exports' = exports /\ file' = file
      /\ j # 0 /\ file[k].id # 0 /\ muxed' = [muxed EXCEPT ![j] = file[k].content]
      /\ muxing'.job = j /\ muxing'.key = k /\ inbox' = Append(inbox, ev)
  BY Typed DEF MuxVerify, MuxFrame, Exists, E, Post, engineVars, worldVars, MuxRecord
<1>2. exports' \in Nat /\ exports <= exports' /\ FilesStand(E, E', exports')
  BY <1>1, Counted, FilesSame
<1>3. /\ E.jobs = jobs /\ E'.jobs = jobs' /\ E.nextId = nextId /\ E'.nextId = nextId'
      /\ E.inbox = inbox /\ E'.inbox = inbox' /\ E.muxing = muxing /\ E'.muxing = muxing'
      /\ E.queue = queue /\ E'.queue = queue' /\ E.probe = probe /\ E'.probe = probe'
      /\ E.file = file /\ E'.file = file'
  BY DEF E
<1>4. /\ j \in Ids /\ k \in Keys /\ inbox \in Seq(Event) /\ muxed \in [Ids -> 0..MaxExports]
      /\ file[k] \in FileRecord
  BY <1>1, Typed DEF MuxRecord, IInv, WorldSound
<1>5. ev \in Event /\ \A i \in Ids : ~IsDone(ev, i) /\ ~IsReady(ev, i)
  BY <1>4 DEF Event, IsDone, IsReady
<1> HIDE DEF ev
<1>6. \A p \in 1..Len(inbox') : inbox'[p] = ev \/ \E q \in 1..Len(inbox) : inbox'[p] = inbox[q]
  BY <1>1, <1>4, <1>5, Grown
<1>7. muxed'[j] = file[k].id /\ file[k].id <= exports /\ \A i \in Ids \ {j} : muxed'[i] = muxed[i]
  BY <1>1, <1>3, <1>4 DEF Marked
<1> HIDE DEF j, k
<1>8. RowsStand(E, E', muxed, muxed', exports')
  <2> SUFFICES ASSUME NEW i \in Ids, Present(E', i)
               PROVE  /\ Present(E, i)
                      /\ muxing'.job = i => muxing'.key = jobs[i].key
                      /\ Proven(E', i) => \/ Proven(E, i) /\ muxed'[i] = muxed[i]
                                          \/ /\ jobs[i].stamp.id <= muxed'[i]
                                             /\ Within(E', muxed'[i], jobs[i].key, exports')
    BY <1>1, <1>3 DEF RowsStand
  <2>1. Present(E, i) /\ JobMarked(E, i, exports, muxed)
    BY <1>1, <1>3 DEF Present, Marked
  <2>2. muxing'.job = i => muxing'.key = jobs[i].key /\ i = j /\ jobs[i].key = k
    BY <1>1, <1>3, <2>1 DEF JobMarked, j, k
  <2>3. CASE i = j
    <3>1. jobs[i].key = k
      BY <1>1, <2>2, <2>3
    <3>2. Within(E, jobs[i].stamp.id, k, exports)
      BY <1>3, <2>1, <3>1 DEF JobMarked
    <3>3. jobs[i].stamp.id <= muxed'[i]
      BY <1>1, <1>3, <1>7, <2>3, <3>2 DEF Within
    <3>4. Within(E', muxed'[i], k, exports')
      BY <1>1, <1>2, <1>3, <1>4, <1>7, <2>3 DEF Within, FileRecord
    <3> QED
      BY <2>1, <2>2, <3>1, <3>3, <3>4
  <2>4. CASE i # j
    <3>1. muxing'.job # i /\ muxed'[i] = muxed[i]
      BY <1>1, <1>7, <2>4
    <3>2. Proven(E', i) => Proven(E, i)
      BY <1>1, <1>3, <1>5, <1>6, <3>1 DEF Proven
    <3> QED
      BY <2>1, <3>1, <3>2
  <2> QED
    BY <2>3, <2>4
<1>9. NothingAsked(E, E')
  BY <1>1, <1>3 DEF NothingAsked
<1>10. Heard(E, E', exports')
  BY <1>3, <1>5, <1>6 DEF Heard
<1> QED
  BY <1>1, <1>2, <1>8, <1>9, <1>10, LaterMarks

LEMMA MuxEndMarks ==
  ASSUME IInv, Marked(E, exports, muxed), MuxEnd PROVE MarksStep
<1> DEFINE j == muxing.job
<1>1. PICK out \in {"Done", "Failed", "Cancelled"} :
        /\ out = "Done" => muxing.verified
        /\ muxed' = IF out = "Done" THEN muxed ELSE [muxed EXCEPT ![j] = 0]
        /\ Post([type |-> "mux", job |-> j, out |-> out])
  BY DEF MuxEnd
<1> DEFINE ev == [type |-> "mux", job |-> j, out |-> out]
<1>2. /\ UNCHANGED <<jobs, nextId, queue, probe>> /\ exports' = exports /\ file' = file
      /\ j # 0 /\ muxing' = Idle
  BY DEF MuxEnd, MuxFrame, engineVars, worldVars
<1>3. inbox' = Append(inbox, ev)
  BY <1>1 DEF Post
<1>4. exports' \in Nat /\ exports <= exports' /\ FilesStand(E, E', exports')
  BY <1>2, Counted, FilesSame
<1>5. /\ E.jobs = jobs /\ E'.jobs = jobs' /\ E.nextId = nextId /\ E'.nextId = nextId'
      /\ E.inbox = inbox /\ E'.inbox = inbox' /\ E.muxing = muxing /\ E'.muxing = muxing'
      /\ E.queue = queue /\ E'.queue = queue' /\ E.probe = probe /\ E'.probe = probe'
  BY DEF E
<1>6. /\ j \in Ids /\ inbox \in Seq(Event) /\ muxed \in [Ids -> 0..MaxExports]
  BY <1>2, Typed DEF MuxRecord, IInv, WorldSound
<1>7. ev \in Event /\ \A i \in Ids : ~IsReady(ev, i) /\ (IsDone(ev, i) => i = j /\ out = "Done")
  BY <1>6 DEF Event, IsDone, IsReady
<1>8. \A i \in Ids : out = "Done" \/ i # j => muxed'[i] = muxed[i]
  BY <1>1, <1>6
<1> HIDE DEF ev, j
<1>9. \A p \in 1..Len(inbox') : inbox'[p] = ev \/ \E q \in 1..Len(inbox) : inbox'[p] = inbox[q]
  BY <1>3, <1>6, <1>7, Grown
<1>10. muxing'.job = 0 /\ \A i \in Ids : i # 0
  BY <1>2 DEF Idle, Ids
<1>11. RowsStand(E, E', muxed, muxed', exports')
  <2> SUFFICES ASSUME NEW i \in Ids, Present(E', i)
               PROVE  Present(E, i) /\ (Proven(E', i) => Proven(E, i) /\ muxed'[i] = muxed[i])
    BY <1>2, <1>5, <1>10 DEF RowsStand
  <2>1. Present(E, i)
    BY <1>2, <1>5 DEF Present
  <2>2. ASSUME Proven(E', i) PROVE Proven(E, i)
    <3>1. jobs[i].state = "Done" \/ \E p \in 1..Len(inbox') : IsDone(inbox'[p], i)
      BY <1>2, <1>5, <1>10, <2>2 DEF Proven
    <3>2. \/ jobs[i].state = "Done" \/ (i = j /\ out = "Done")
          \/ \E q \in 1..Len(inbox) : IsDone(inbox[q], i)
      BY <1>7, <1>9, <3>1
    <3> QED
      BY <1>1, <1>5, <3>2 DEF Proven, j
  <2>3. ASSUME Proven(E', i), i = j PROVE out = "Done"
    <3>1. /\ ~HasEnd(inbox, i) /\ jobs[i].state \in InMux
      BY <1>5, <1>6, <2>1, <2>3 DEF IInv, Booked, BookedBut, JobBooked, Present, j
    <3>2. jobs[i].state # "Done" /\ \A q \in 1..Len(inbox) : ~IsDone(inbox[q], i)
      BY <3>1 DEF InMux, HasEnd, IsEnd, IsDone
    <3> QED
      BY <1>2, <1>5, <1>7, <1>9, <1>10, <2>3, <3>2 DEF Proven
  <2> QED
    BY <1>8, <2>1, <2>2, <2>3
<1>12. NothingAsked(E, E')
  BY <1>2, <1>5 DEF NothingAsked
<1>13. Heard(E, E', exports')
  BY <1>5, <1>7, <1>9 DEF Heard
<1> QED
  BY <1>2, <1>4, <1>11, <1>12, <1>13, LaterMarks

LEMMA NextMarks ==
  ASSUME IInv, Marked(E, exports, muxed), Distinct, ~Truncates, [Next]_vars PROVE MarksStep
<1>1. CASE UserStep
  <2>1. ASSUME NEW name \in Commands, NEW j \in Ids, OnJob(name, j) PROVE MarksStep
    BY <2>1, OnJobMarks
  <2>2. ASSUME NEW k \in Keys, AddManualFile(k) PROVE MarksStep
    BY <2>2, AddManualFileMarks
  <2> QED
    BY <1>1, <2>1, <2>2, SetAutoProcessMarks, ReprobeMkvmergeMarks DEF UserStep
<1>2. CASE MuxStep
  BY <1>2, MuxTakeMarks, MuxVerifyMarks, MuxEndMarks DEF MuxStep
<1>3. ASSUME NEW j \in Ids, ProbeStep(j) \/ ProbeWriting(j) PROVE MarksStep
  BY <1>3, ProbeMarks
<1>4. CASE UNCHANGED vars
  <2>1. E' = E /\ exports' = exports /\ muxed' = muxed
    BY <1>4 DEF vars, engineVars, workerVars, diskVars, worldVars, E
  <2> QED
    BY <2>1 DEF MarksStep, Bins
<1> QED
  BY <1>1, <1>2, <1>3, <1>4, ApplyMarks, WorldMarks DEF Next

LEMMA InitMarked ==
  ASSUME Init PROVE Marked(E, exports, muxed)
<1>1. /\ E.jobs = [j \in Ids |-> NoJob] /\ E.probe = [j \in Ids |-> NoProbe] /\ E.inbox = <<>>
      /\ E.file = [k \in Keys |-> NoFile] /\ exports = 0
  BY DEF Init, E
<1>2. /\ \A j \in Ids : ~Present(E, j)
      /\ \A j \in Ids : Unasked(E, j)
      /\ \A k \in Keys : E.file[k].content = E.file[k].id /\ E.file[k].id <= exports
  BY <1>1, NoJobFacts, EmptySeq DEF Present, Unasked, NoProbe, NoFile
<1> QED
  BY <1>2 DEF Marked

(* While every export is a new file (none is written over the old one),    *)
(* and no two of the watched paths differ in their extension only, what a  *)
(* job sends to the Recycle Bin is the very content its mux has read:      *)
(* whatever is exported again, deleted, run again, held, corrected or      *)
(* removed in the meantime, and however late the verdicts and the mux's    *)
(* events are applied.                                                     *)
THEOREM OnlyMuxedIsRecycled ==
  ASSUME Distinct, ~Truncates
  PROVE  Spec => RecycledWasMuxed
<1> DEFINE Known == IInv /\ Marked(E, exports, muxed)
<1>1. Init => Known
  BY InitSound, InitMarked
<1>2. Known /\ [Next]_vars => Known' /\ Bins(E, E', muxed)
  <2> SUFFICES ASSUME Known, [Next]_vars PROVE Known' /\ Bins(E, E', muxed)
    OBVIOUS
  <2>1. IInv'
    BY NextStep
  <2>2. MarksStep
    BY NextMarks
  <2> QED
    BY <2>1, <2>2 DEF MarksStep
<1>3. Known /\ [Next]_vars =>
        [\A j \in Ids : jobs'[j].recycle = "Recycled" /\ jobs[j].recycle # "Recycled"
            => file[jobs[j].key].content = muxed[j]]_vars
  <2> SUFFICES ASSUME Known, [Next]_vars, NEW j \in Ids,
                      jobs'[j].recycle = "Recycled", jobs[j].recycle # "Recycled"
               PROVE  file[jobs[j].key].content = muxed[j]
    OBVIOUS
  <2>1. Bins(E, E', muxed)
    BY <1>2
  <2>2. E.jobs = jobs /\ E'.jobs = jobs' /\ E.file = file
    BY DEF E
  <2> QED
    BY <2>1, <2>2 DEF Bins
<1> HIDE DEF Known
<1> QED
  BY <1>1, <1>2, <1>3, PTL DEF Spec, RecycledWasMuxed

-----------------------------------------------------------------------------
(* Aged: of the jobs of one path, the later one is of a later file.  `a`   *)
(* is what AME does with each output.                                      *)

Mark(e, j) == e.jobs[j].stamp.id
Older(e, i, j) == /\ Present(e, i) /\ Present(e, j) /\ i # j
                  /\ e.jobs[i].key = e.jobs[j].key /\ Outranks(e, j, i)

\* An older job is about an older file than the one there is now, than the
\* younger one's, and than the one the younger one's probe has seen.
PairAged(e, i, j) ==
    LET disk == e.file[e.jobs[i].key]
    IN  /\ Mark(e, i) # 0 /\ disk.id # 0 => Mark(e, i) < disk.id
        /\ Mark(e, i) # 0 /\ Mark(e, j) # 0 => Mark(e, i) < Mark(e, j)
        /\ \A n \in 1..Len(e.inbox) : IsReady(e.inbox[n], j) => Mark(e, i) < e.inbox[n].stamp.id

\* A stamp of the file there is now has its size, and the file of the export
\* that is being encoded will be newer than any.
JobAged(e, j, x, a) ==
    LET k == e.jobs[j].key
        disk == e.file[k]
    IN  /\ a[k] = "sidecars" => Mark(e, j) < x
        /\ Mark(e, j) # 0 /\ Mark(e, j) = disk.id => e.jobs[j].stamp.size = disk.size
        /\ \A n \in 1..Len(e.inbox) : IsReady(e.inbox[n], j) =>
              LET stamp == e.inbox[n].stamp
              IN  /\ stamp.id # 0
                  /\ stamp.id = disk.id => stamp.size = disk.size
                  /\ a[k] = "sidecars" => stamp.id < x

Aged(e, x, a) ==
    /\ \A i, j \in Ids : Older(e, i, j) => PairAged(e, i, j)
    /\ \A j \in Ids : Present(e, j) => JobAged(e, j, x, a)
    /\ \A k \in Keys : a[k] = "sidecars" => e.file[k].id < x

\* What is in the mux, or has been muxed, has a stamp; no job was removed.
Read(e, m) ==
    \A j \in Ids : /\ Present(e, j) => (e.jobs[j].state \in InMux \/ m[j] # 0 => Mark(e, j) # 0)
                   /\ ~Present(e, j) => j >= e.nextId /\ m[j] = 0

\* Rows keep their stamps, a file is the same, gone, or the export's, and a
\* verdict that is new has seen the file there is.
RowsAge(e, f) == \A i \in Ids : Present(f, i) =>
    Present(e, i) /\ f.jobs[i].key = e.jobs[i].key /\ f.jobs[i].gen = e.jobs[i].gen
                  /\ f.jobs[i].stamp = e.jobs[i].stamp
FilesAge(e, f, x, y, a, b) == \A k \in Keys :
    /\ b[k] = "sidecars" => a[k] = "sidecars" \/ x < y
    /\ \/ f.file[k].id = e.file[k].id /\ f.file[k].size = e.file[k].size
       \/ f.file[k].id = 0
       \/ a[k] = "sidecars" /\ b[k] # "sidecars" /\ f.file[k].id = x
Sees(e, f, k, stamp) == /\ stamp.id # 0 /\ stamp.id = e.file[k].id
                        /\ f.file[k].id = stamp.id /\ f.file[k].size = stamp.size
VerdictsAge(e, f) == \A i \in Ids : Present(f, i) =>
    \A p \in 1..Len(f.inbox) : IsReady(f.inbox[p], i) =>
        \/ \E q \in 1..Len(e.inbox) : f.inbox[p] = e.inbox[q]
        \/ Sees(e, f, f.jobs[i].key, f.inbox[p].stamp)

LEMMA MarkIsNat ==
  ASSUME NEW e, Sound(e)
  PROVE  /\ \A j \in Ids : Mark(e, j) \in Nat
         /\ \A k \in Keys : e.file[k].id \in Nat
         /\ \A j \in Ids : \A n \in 1..Len(e.inbox) : IsReady(e.inbox[n], j) => e.inbox[n].stamp.id \in Nat
<1>1. \A j \in Ids : e.jobs[j] \in JobRecord
  BY DEF Sound, Engine
<1>2. \A j \in Ids : Mark(e, j) \in Nat
  BY <1>1, BoundsAssumption DEF Mark, JobRecord
<1>3. \A k \in Keys : e.file[k].id \in Nat
  BY BoundsAssumption DEF Sound, Engine, FileRecord
<1>4. ASSUME NEW j \in Ids, NEW n \in 1..Len(e.inbox), IsReady(e.inbox[n], j)
      PROVE  e.inbox[n].stamp.id \in Nat
  <2>1. e.inbox[n] \in Event
    BY <1>4, ElementOfSeq DEF Sound, Engine
  <2> QED
    BY <1>4, <2>1, BoundsAssumption DEF Event, IsReady, Stamps
<1> QED
  BY <1>2, <1>3, <1>4

LEMMA AgedLater ==
  ASSUME NEW e, Sound(e), NEW x \in Nat, NEW m, Marked(e, x, m), NEW a, Aged(e, x, a),
         NEW f, NEW y \in Nat, NEW b, x <= y,
         RowsAge(e, f), FilesAge(e, f, x, y, a, b), VerdictsAge(e, f)
  PROVE  Aged(f, y, b)
<1>1. /\ \A j \in Ids : Mark(e, j) \in Nat
      /\ \A k \in Keys : e.file[k].id \in Nat
      /\ \A j \in Ids : \A n \in 1..Len(e.inbox) : IsReady(e.inbox[n], j) => e.inbox[n].stamp.id \in Nat
  BY MarkIsNat
<1>2. ASSUME NEW i \in Ids, Present(f, i)
      PROVE  /\ Present(e, i) /\ f.jobs[i].key = e.jobs[i].key /\ f.jobs[i].gen = e.jobs[i].gen
             /\ f.jobs[i].stamp = e.jobs[i].stamp /\ Mark(f, i) = Mark(e, i)
             /\ e.jobs[i].key \in Keys /\ JobAged(e, i, x, a) /\ JobMarked(e, i, x, m)
             /\ Mark(e, i) <= x
  <2>1. /\ Present(e, i) /\ f.jobs[i].key = e.jobs[i].key /\ f.jobs[i].gen = e.jobs[i].gen
        /\ f.jobs[i].stamp = e.jobs[i].stamp
    BY <1>2 DEF RowsAge
  <2>2. JobMarked(e, i, x, m) /\ JobAged(e, i, x, a) /\ e.jobs[i].key \in Keys
    BY <2>1, KeyOfPresent DEF Marked, Aged
  <2> QED
    BY <2>1, <2>2 DEF Mark, JobMarked, Within
<1>3. ASSUME NEW i \in Ids, NEW j \in Ids, Older(f, i, j) PROVE PairAged(f, i, j)
  <2> DEFINE k == e.jobs[i].key
  <2>1. /\ Present(f, i) /\ Present(f, j) /\ f.jobs[i].key = f.jobs[j].key
    BY <1>3 DEF Older
  <2>2. Older(e, i, j) /\ k = e.jobs[j].key /\ k = f.jobs[i].key /\ k = f.jobs[j].key /\ k \in Keys
    BY <1>2, <1>3, <2>1 DEF Older, Outranks
  <2>3. PairAged(e, i, j) /\ Mark(f, i) = Mark(e, i) /\ Mark(f, j) = Mark(e, j)
        /\ Mark(e, i) \in Nat /\ Mark(e, j) \in Nat /\ JobAged(e, i, x, a)
    BY <1>1, <1>2, <2>1, <2>2 DEF Aged
  <2> HIDE DEF k
  <2>4. Mark(f, i) # 0 /\ f.file[k].id # 0 => Mark(f, i) < f.file[k].id
    BY <2>2, <2>3 DEF PairAged, JobAged, FilesAge, k
  <2>5. Mark(f, i) # 0 /\ Mark(f, j) # 0 => Mark(f, i) < Mark(f, j)
    BY <2>3 DEF PairAged
  <2>6. ASSUME NEW n \in 1..Len(f.inbox), IsReady(f.inbox[n], j) PROVE Mark(f, i) < f.inbox[n].stamp.id
    <3>1. CASE \E q \in 1..Len(e.inbox) : f.inbox[n] = e.inbox[q]
      BY <2>3, <2>6, <3>1 DEF PairAged
    <3>2. CASE Sees(e, f, k, f.inbox[n].stamp)
      <4>1. e.file[k].id \in Nat \ {0} /\ f.inbox[n].stamp.id = e.file[k].id
        BY <1>1, <2>2, <3>2 DEF Sees
      <4>2. Mark(e, i) # 0 => Mark(e, i) < e.file[k].id
        BY <2>3, <4>1 DEF PairAged, k
      <4> QED
        BY <2>3, <4>1, <4>2
    <3> QED
      BY <2>1, <2>2, <2>6, <3>1, <3>2 DEF VerdictsAge
  <2> QED
    BY <2>2, <2>4, <2>5, <2>6 DEF PairAged
<1>4. ASSUME NEW j \in Ids, Present(f, j) PROVE JobAged(f, j, y, b)
  <2> DEFINE k == e.jobs[j].key
  <2>1. k = f.jobs[j].key /\ k \in Keys /\ JobAged(e, j, x, a) /\ JobMarked(e, j, x, m)
        /\ Mark(f, j) = Mark(e, j) /\ Mark(e, j) <= x /\ Mark(e, j) \in Nat
        /\ f.jobs[j].stamp = e.jobs[j].stamp
    BY <1>1, <1>2, <1>4
  <2>2. /\ a[k] = "sidecars" => Mark(e, j) < x
        /\ Mark(e, j) # 0 /\ Mark(e, j) = e.file[k].id => e.jobs[j].stamp.size = e.file[k].size
    BY <2>1 DEF JobAged
  <2>3. ASSUME NEW q \in 1..Len(e.inbox), IsReady(e.inbox[q], j)
        PROVE  LET stamp == e.inbox[q].stamp
               IN  /\ stamp.id # 0 /\ stamp.id \in Nat /\ stamp.id <= x
                   /\ stamp.id = e.file[k].id => stamp.size = e.file[k].size
                   /\ a[k] = "sidecars" => stamp.id < x
    BY <1>1, <2>1, <2>3 DEF JobAged, JobMarked, Within
  <2> HIDE DEF k
  <2>4. b[k] = "sidecars" => Mark(f, j) < y
    BY <2>1, <2>2 DEF FilesAge
  <2>5. Mark(f, j) # 0 /\ Mark(f, j) = f.file[k].id => f.jobs[j].stamp.size = f.file[k].size
    BY <2>1, <2>2 DEF FilesAge
  <2>6. ASSUME NEW n \in 1..Len(f.inbox), IsReady(f.inbox[n], j)
        PROVE  LET stamp == f.inbox[n].stamp
               IN  /\ stamp.id # 0
                   /\ stamp.id = f.file[k].id => stamp.size = f.file[k].size
                   /\ b[k] = "sidecars" => stamp.id < y
    <3>1. ASSUME NEW q \in 1..Len(e.inbox), f.inbox[n] = e.inbox[q]
          PROVE  LET stamp == e.inbox[q].stamp
                 IN  /\ stamp.id # 0
                     /\ stamp.id = f.file[k].id => stamp.size = f.file[k].size
                     /\ b[k] = "sidecars" => stamp.id < y
      <4> DEFINE stamp == e.inbox[q].stamp
      <4>1. IsReady(e.inbox[q], j)
        BY <2>6, <3>1
      <4>2. /\ stamp.id # 0 /\ stamp.id \in Nat /\ stamp.id <= x
            /\ stamp.id = e.file[k].id => stamp.size = e.file[k].size
            /\ a[k] = "sidecars" => stamp.id < x
        BY <2>3, <4>1
      <4> HIDE DEF stamp
      <4>3. stamp.id = f.file[k].id => stamp.size = f.file[k].size
        BY <2>1, <4>2 DEF FilesAge
      <4>4. b[k] = "sidecars" => stamp.id < y
        BY <2>1, <4>2 DEF FilesAge
      <4> QED
        BY <4>2, <4>3, <4>4 DEF stamp
    <3>2. CASE Sees(e, f, k, f.inbox[n].stamp)
      <4>1. e.file[k].id <= x /\ e.file[k].id \in Nat /\ (a[k] = "sidecars" => e.file[k].id < x)
        BY <1>1, <2>1 DEF Marked, Aged
      <4> QED
        BY <2>1, <3>2, <4>1 DEF Sees, FilesAge
    <3> QED
      BY <1>4, <2>1, <2>6, <3>1, <3>2 DEF VerdictsAge
  <2> QED
    BY <2>1, <2>4, <2>5, <2>6 DEF JobAged
<1>5. ASSUME NEW k \in Keys, b[k] = "sidecars" PROVE f.file[k].id < y
  <2>1. e.file[k].id <= x /\ e.file[k].id \in Nat /\ (a[k] = "sidecars" => e.file[k].id < x)
    BY <1>1 DEF Marked, Aged
  <2> QED
    BY <1>5, <2>1 DEF FilesAge
<1> QED
  BY <1>3, <1>4, <1>5 DEF Aged

\* Nobody enters the mux.
Stays(e, f) == \A j \in Ids : f.jobs[j].state \in InMux => e.jobs[j].state \in InMux

LEMMA NobodyEnters ==
  ASSUME NEW e, NEW f, QuietOrMakes(e, f) \/ \E j \in Ids : Leaves(e, f, j)
  PROVE  Stays(e, f)
BY DEF QuietOrMakes, Quiet, Makes, Leaves, SameClass, Outside, Stays

LEMMA FilesAgeSame ==
  ASSUME NEW e, NEW f, NEW x, NEW a, f.file = e.file \/ \A k \in Keys : f.file[k] \in {e.file[k], NoFile}
  PROVE  FilesAge(e, f, x, x, a, a)
BY DEF FilesAge, NoFile

LEMMA AgedPlain ==
  ASSUME NEW e, Sound(e), NEW x \in Nat, NEW m, Marked(e, x, m), NEW a, Aged(e, x, a),
         NEW D, NEW f, Plain(e, f, D)
  PROVE  Aged(f, x, a)
<1>1. RowsAge(e, f)
  BY DEF RowsAge, Plain, Loose, RowKept, Present
<1>2. FilesAge(e, f, x, x, a, a)
  BY FilesAgeSame DEF Plain, Loose
<1>3. VerdictsAge(e, f)
  BY DEF VerdictsAge, Plain, Loose
<1>4. x <= x
  OBVIOUS
<1> QED
  BY <1>1, <1>2, <1>3, <1>4, AgedLater

LEMMA AgedBinned ==
  ASSUME NEW e, Sound(e), NEW x \in Nat, NEW m, Marked(e, x, m), NEW a, Aged(e, x, a),
         NEW j \in Ids, NEW f, Binned(e, f, j)
  PROVE  Aged(f, x, a)
<1>1. RowsAge(e, f)
  BY DEF RowsAge, Binned, Present
<1>2. FilesAge(e, f, x, x, a, a)
  BY FilesAgeSame DEF Binned
<1>3. VerdictsAge(e, f)
  BY DEF VerdictsAge, Binned
<1>4. x <= x
  OBVIOUS
<1> QED
  BY <1>1, <1>2, <1>3, <1>4, AgedLater

LEMMA ReadKept ==
  ASSUME NEW e, NEW m, Read(e, m), NEW f, f.nextId = e.nextId,
         \A i \in Ids : /\ f.jobs[i].state = Absent <=> e.jobs[i].state = Absent
                        /\ f.jobs[i].stamp = e.jobs[i].stamp \/ Mark(f, i) # 0
                        /\ f.jobs[i].state \in InMux => e.jobs[i].state \in InMux \/ Mark(f, i) # 0
  PROVE  Read(f, m)
BY DEF Read, Present, Mark

LEMMA ReadPlain ==
  ASSUME NEW e, NEW m, Read(e, m), NEW D, NEW f, Plain(e, f, D), Stays(e, f)
  PROVE  Read(f, m)
BY ReadKept DEF Plain, Loose, RowKept, Stays

\* The next event is taken.
LEMMA AgedPopped ==
  ASSUME NEW e, Sound(e), e.inbox # <<>>, NEW x \in Nat, NEW m, Marked(e, x, m),
         NEW a, Aged(e, x, a), NEW d, d = [e EXCEPT !.inbox = Tail(@)], NEW ev, ev = Head(e.inbox)
  PROVE  /\ Aged(d, x, a)
         /\ \A j \in Ids : Present(d, j) /\ IsReady(ev, j) =>
              LET k == d.jobs[j].key
              IN  /\ ev.stamp.id # 0
                  /\ ev.stamp.id = d.file[k].id => ev.stamp.size = d.file[k].size
                  /\ a[k] = "sidecars" => ev.stamp.id < x
                  /\ \A i \in Ids : Older(d, i, j) => Mark(d, i) < ev.stamp.id
<1> DEFINE s == e.inbox
           t == Tail(s)
<1>1. e \in Engine /\ s \in Seq(Event) /\ Len(s) \in Nat \ {0} /\ ev = s[1]
  BY LenProperties, EmptySeq DEF Sound, Engine
<1>2. Len(t) = Len(s) - 1 /\ \A i \in 1..Len(t) : t[i] = s[i + 1]
  BY <1>1, HeadTailProperties
<1>3. d.jobs = e.jobs /\ d.file = e.file /\ d.inbox = t
  BY <1>1 DEF Engine
<1> HIDE DEF t
<1>4. \A i \in 1..Len(t) : \E n \in 1..Len(s) : t[i] = s[n]
  <2>1. \A i \in 1..Len(t) : i + 1 \in 1..Len(s) /\ t[i] = s[i + 1]
    BY <1>1, <1>2
  <2> QED
    BY <2>1
<1>5. 1 \in 1..Len(s) /\ e.inbox = s
  BY <1>1
<1> HIDE DEF s
<1>6. Aged(d, x, a)
  <2>1. RowsAge(e, d)
    BY <1>3 DEF RowsAge, Present
  <2>2. FilesAge(e, d, x, x, a, a)
    BY <1>3, FilesAgeSame
  <2>3. VerdictsAge(e, d)
    BY <1>3, <1>4, <1>5 DEF VerdictsAge
  <2>4. x <= x
    OBVIOUS
  <2> QED
    BY <2>1, <2>2, <2>3, <2>4, AgedLater
<1>7. \A j \in Ids : (Present(d, j) <=> Present(e, j)) /\ Mark(d, j) = Mark(e, j)
  BY <1>3 DEF Present, Mark
<1>8. \A i, j \in Ids : Older(d, i, j) <=> Older(e, i, j)
  BY <1>3, <1>7 DEF Older, Outranks
<1>9. ASSUME NEW j \in Ids, Present(d, j), IsReady(ev, j)
      PROVE  LET k == d.jobs[j].key
              IN  /\ ev.stamp.id # 0
                  /\ ev.stamp.id = d.file[k].id => ev.stamp.size = d.file[k].size
                  /\ a[k] = "sidecars" => ev.stamp.id < x
                  /\ \A i \in Ids : Older(d, i, j) => Mark(d, i) < ev.stamp.id
  <2>1. JobAged(e, j, x, a) /\ IsReady(e.inbox[1], j) /\ ev = e.inbox[1]
    BY <1>1, <1>5, <1>7, <1>9 DEF Aged
  <2>2. \A i \in Ids : Older(d, i, j) => Mark(d, i) < ev.stamp.id
    BY <1>5, <1>7, <1>8, <2>1 DEF Aged, PairAged
  <2> QED
    BY <1>3, <1>5, <2>1, <2>2 DEF JobAged
<1> QED
  BY <1>6, <1>9

\* The newest job of a path takes the stamp of a verdict.
LEMMA AgedStamped ==
  ASSUME NEW e, Sound(e), NEW x \in Nat, NEW a, Aged(e, x, a),
         NEW j \in Ids, NEW t, NEW f, Stamped(e, f, j, t),
         \A i \in Ids : ~Older(e, j, i), \A i \in Ids : Older(e, i, j) => Mark(e, i) < t.id,
         t.id # 0, t.id = e.file[e.jobs[j].key].id => t.size = e.file[e.jobs[j].key].size,
         a[e.jobs[j].key] = "sidecars" => t.id < x
  PROVE  Aged(f, x, a)
<1>1. /\ f.file = e.file /\ f.inbox = e.inbox /\ f.jobs[j].stamp = t
      /\ \A i \in Ids : f.jobs[i].key = e.jobs[i].key /\ f.jobs[i].gen = e.jobs[i].gen
      /\ \A i \in Ids : Present(f, i) <=> Present(e, i)
      /\ \A i \in Ids \ {j} : f.jobs[i] = e.jobs[i] /\ Mark(f, i) = Mark(e, i)
      /\ Mark(f, j) = t.id
  BY DEF Stamped, RowKept, Present, Mark
<1>2. \A i, l \in Ids : Older(f, i, l) <=> Older(e, i, l)
  BY <1>1 DEF Older, Outranks
<1>3. ASSUME NEW i \in Ids, NEW l \in Ids, Older(f, i, l) PROVE PairAged(f, i, l)
  <2>1. i # j /\ Older(e, i, l) /\ PairAged(e, i, l)
    BY <1>2, <1>3 DEF Aged
  <2>2. Mark(f, i) = Mark(e, i) /\ f.jobs[i].key = e.jobs[i].key
    BY <1>1, <2>1
  <2>3. Mark(f, i) # 0 /\ Mark(f, l) # 0 => Mark(f, i) < Mark(f, l)
    BY <1>1, <2>1, <2>2 DEF PairAged
  <2> QED
    BY <1>1, <2>1, <2>2, <2>3 DEF PairAged
<1>4. ASSUME NEW i \in Ids, Present(f, i) PROVE JobAged(f, i, x, a)
  <2>1. JobAged(e, i, x, a)
    BY <1>1, <1>4 DEF Aged
  <2>2. CASE i # j
    <3>1. f.jobs[i] = e.jobs[i] /\ Mark(f, i) = Mark(e, i)
      BY <1>1, <2>2
    <3> QED
      BY <1>1, <2>1, <3>1 DEF JobAged
  <2>3. CASE i = j
    BY <1>1, <2>1, <2>3 DEF JobAged
  <2> QED
    BY <2>2, <2>3
<1> QED
  BY <1>1, <1>3, <1>4 DEF Aged

\* What the jobs of a path are about is older than a file that is fresh.
LEMMA OldIsOlder ==
  ASSUME NEW e, Sound(e), NEW x \in Nat, NEW m, Marked(e, x, m), NEW a, Aged(e, x, a),
         NEW k \in Keys, Fresh(e, k), NEW i \in Ids, Present(e, i), e.jobs[i].key = k,
         Mark(e, i) # 0, e.file[k].id # 0
  PROVE  Mark(e, i) < e.file[k].id
<1> DEFINE S == OfKey(e, k)
           b == FindByKey(e, k)
<1>1. S \subseteq Ids /\ i \in S /\ b = Best(e, S)
  BY DEF OfKey, FindByKey
<1>2. b \in S /\ \A l \in S \ {b} : Outranks(e, b, l)
  BY <1>1, BestIsMember
<1>3. b \in Ids /\ e.jobs[b].key = k /\ b # 0
  BY <1>2 DEF OfKey, Ids
<1>4. ~Unchanged(e, b)
  BY <1>3 DEF Fresh
<1> HIDE DEF S, b
<1>5. Present(e, b)
  BY <1>3, KeysAssumption DEF Sound, JobSound, Present
<1>6. CASE i # b
  <2>1. Older(e, i, b)
    BY <1>1, <1>2, <1>3, <1>5, <1>6 DEF Older
  <2> QED
    BY <1>3, <2>1 DEF Aged, PairAged
<1>7. CASE i = b
  <2>1. JobMarked(e, i, x, m) /\ JobAged(e, i, x, a) /\ Mark(e, i) \in Nat /\ e.file[k].id \in Nat
    BY MarkIsNat DEF Marked, Aged
  <2>2. Mark(e, i) <= e.file[k].id
    BY <2>1 DEF JobMarked, Within, Mark
  <2>3. ASSUME Mark(e, i) = e.file[k].id PROVE FALSE
    <3> DEFINE s == e.jobs[i].stamp
    <3>1. s.size = e.file[k].size /\ s.id = e.file[k].id
      BY <2>1, <2>3 DEF JobAged, Mark
    <3>2. s \in Stamps
      BY DEF Sound, Engine, JobRecord, Stamps
    <3> HIDE DEF s
    <3>3. s = [id |-> e.file[k].id, size |-> e.file[k].size]
      BY <3>1, <3>2 DEF Stamps
    <3>4. s = Stamp(e, k) /\ SameFile(s, Stamp(e, k))
      BY <3>1, <3>3 DEF Stamp, SameFile
    <3> QED
      BY <1>4, <1>7, <3>4 DEF Unchanged, s
  <2> QED
    BY <2>1, <2>2, <2>3
<1> QED
  BY <1>6, <1>7

LEMMA AgedBorn ==
  ASSUME NEW e, Sound(e), NEW x \in Nat, NEW m, Marked(e, x, m), NEW a, Aged(e, x, a),
         NEW k \in Keys, Fresh(e, k), NEW g, Born(e, g, k)
  PROVE  Aged(g, x, a)
<1> DEFINE n == e.nextId
<1>1. /\ n \in Ids /\ g.file = e.file /\ g.inbox = e.inbox /\ Sound(g) /\ ~Present(e, n)
      /\ \A i \in Ids \ {n} : g.jobs[i] = e.jobs[i]
      /\ g.jobs[n].key = k /\ Mark(g, n) = 0
      /\ \A i \in Ids : e.jobs[i].key = k => e.jobs[i].gen < g.jobs[n].gen
  BY DEF Born, NoStamp, Mark, Present
<1>3. \A i \in Ids \ {n} : /\ Present(g, i) <=> Present(e, i)
                           /\ Mark(g, i) = Mark(e, i)
  BY <1>1 DEF Present, Mark
<1>4. \A p \in 1..Len(g.inbox) : ~IsReady(g.inbox[p], n)
  <2>1. Unasked(e, n)
    BY <1>1, BoundsAssumption DEF Marked, Ids
  <2> QED
    BY <1>1, <2>1 DEF Unasked
<1>5. \A i \in Ids : g.jobs[i].gen \in Nat
  BY <1>1 DEF Sound, Engine, JobRecord
<1> HIDE DEF n
<1>6. ASSUME NEW i \in Ids, NEW l \in Ids, Older(g, i, l) PROVE PairAged(g, i, l)
  <2>1. CASE l = n
    <3>1. i # n /\ Present(e, i) /\ e.jobs[i].key = k /\ g.jobs[i].key = k /\ Mark(g, i) = Mark(e, i)
      BY <1>1, <1>3, <1>6, <2>1 DEF Older
    <3>2. Mark(e, i) # 0 /\ e.file[k].id # 0 => Mark(e, i) < e.file[k].id
      BY <3>1, OldIsOlder
    <3> QED
      BY <1>1, <1>4, <2>1, <3>1, <3>2 DEF PairAged
  <2>2. CASE i = n /\ l # n
    <3>1. g.jobs[l].key = k /\ g.jobs[l] = e.jobs[l] /\ Outranks(g, l, n)
      BY <1>1, <1>6, <2>2 DEF Older
    <3> QED
      BY <1>1, <1>5, <3>1 DEF Outranks
  <2>3. CASE i # n /\ l # n
    <3>1. g.jobs[i] = e.jobs[i] /\ g.jobs[l] = e.jobs[l] /\ Mark(g, i) = Mark(e, i) /\ Mark(g, l) = Mark(e, l)
      BY <1>1, <1>3, <2>3
    <3>2. Older(e, i, l)
      BY <1>3, <1>6, <2>3, <3>1 DEF Older, Outranks
    <3>3. PairAged(e, i, l)
      BY <3>2 DEF Aged
    <3> QED
      BY <1>1, <3>1, <3>3 DEF PairAged
  <2> QED
    BY <2>1, <2>2, <2>3
<1>7. ASSUME NEW i \in Ids, Present(g, i) PROVE JobAged(g, i, x, a)
  <2>1. CASE i = n
    <3>1. a[k] = "sidecars" => 0 < x
      BY MarkIsNat DEF Aged
    <3> QED
      BY <1>1, <1>4, <2>1, <3>1 DEF JobAged
  <2>2. CASE i # n
    <3>1. JobAged(e, i, x, a) /\ g.jobs[i] = e.jobs[i] /\ Mark(g, i) = Mark(e, i)
      BY <1>1, <1>3, <1>7, <2>2 DEF Aged
    <3> QED
      BY <1>1, <3>1 DEF JobAged
  <2> QED
    BY <2>1, <2>2
<1> QED
  BY <1>1, <1>6, <1>7 DEF Aged

\* Aged and Read in the next state.
Ages(e, x, m, a) == Aged(e, x, a) /\ Read(e, m)

LEMMA PlainAges ==
  ASSUME NEW e, Sound(e), NEW x \in Nat, NEW m, Marked(e, x, m), NEW a, Ages(e, x, m, a),
         NEW D, NEW f, Plain(e, f, D), Stays(e, f)
  PROVE  Ages(f, x, m, a)
<1>1. Aged(f, x, a)
  BY AgedPlain DEF Ages
<1>2. Read(f, m)
  BY ReadPlain DEF Ages
<1> QED
  BY <1>1, <1>2 DEF Ages

LEMMA JoinsAges ==
  ASSUME NEW e, Sound(e), Booked(e), NEW x \in Nat, NEW m, Marked(e, x, m),
         NEW a, Ages(e, x, m, a), NEW f, JoinsFresh(e, f), Stays(e, f)
  PROVE  Ages(f, x, m, a)
<1>1. CASE Plain(e, f, {})
  BY <1>1, PlainAges
<1>2. ASSUME NEW k \in Keys, NEW g, Born(e, g, k), Fresh(e, k), Plain(g, f, {})
      PROVE  Ages(f, x, m, a)
  <2> DEFINE n == e.nextId
  <2>1. Aged(g, x, a)
    BY <1>2, AgedBorn DEF Ages
  <2>2. Marked(g, x, m) /\ Sound(g)
    BY <1>2, MarkedBorn DEF Born
  <2>3. Aged(f, x, a)
    BY <1>2, <2>1, <2>2, AgedPlain
  <2>4. /\ n \in Ids /\ f.nextId = n + 1 /\ e.jobs[n].state = Absent
        /\ f.jobs[n].state # Absent /\ f.jobs[n].state \notin InMux
        /\ \A i \in Ids \ {n} : /\ f.jobs[i].state = Absent <=> e.jobs[i].state = Absent
                                /\ f.jobs[i].stamp = e.jobs[i].stamp
    BY <1>2, StateFacts DEF Born, Plain, Loose, RowKept, Stays, InMux, Absent
  <2>5. n \in Nat /\ \A i \in Ids : i \in Nat
    BY <2>4, BoundsAssumption DEF Ids
  <2> HIDE DEF n
  <2>6. m[n] = 0
    BY <2>4 DEF Ages, Read, Present
  <2>7. Read(f, m)
    <3> SUFFICES ASSUME NEW j \in Ids
                 PROVE  /\ Present(f, j) => (f.jobs[j].state \in InMux \/ m[j] # 0 => Mark(f, j) # 0)
                        /\ ~Present(f, j) => j >= f.nextId /\ m[j] = 0
      BY DEF Read
    <3>1. CASE j = n
      BY <2>4, <2>6, <3>1 DEF Present
    <3>2. CASE j # n
      <4>1. /\ Present(e, j) => (e.jobs[j].state \in InMux \/ m[j] # 0 => Mark(e, j) # 0)
            /\ ~Present(e, j) => j >= n /\ m[j] = 0
        BY DEF Ages, Read, n
      <4> QED
        BY <2>4, <2>5, <3>2, <4>1 DEF Present, Mark, Stays
    <3> QED
      BY <3>1, <3>2
  <2> QED
    BY <2>3, <2>7 DEF Ages
<1> QED
  BY <1>1, <1>2 DEF JoinsFresh

LEMMA BinsAges ==
  ASSUME NEW e, Sound(e), NEW x \in Nat, NEW m, \A j \in Ids : m[j] \in Nat, Marked(e, x, m),
         NEW a, Ages(e, x, m, a),
         NEW f, NEW j \in Ids, NEW D, PlainOrBins(e, f, j, D), Stays(e, f),
         \A i \in Ids : Present(e, i) /\ i \in D =>
            e.jobs[i].stamp.id <= m[i] /\ Within(e, m[i], e.jobs[i].key, x)
  PROVE  Ages(f, x, m, a)
<1>1. CASE Plain(e, f, D)
  BY <1>1, PlainAges
<1>2. ASSUME NEW g, Plain(e, g, D), Binned(g, f, j) PROVE Ages(f, x, m, a)
  <2>1. Marked(g, x, m)
    BY <1>2, MarkedLoose DEF Plain
  <2>2. Aged(g, x, a)
    BY <1>2, AgedPlain DEF Ages
  <2>3. Sound(g)
    BY <1>2 DEF Binned
  <2>4. Aged(f, x, a)
    BY <1>2, <2>1, <2>2, <2>3, AgedBinned
  <2>5. Read(f, m)
    <3>1. /\ f.nextId = e.nextId
          /\ \A i \in Ids : /\ f.jobs[i].state = Absent <=> e.jobs[i].state = Absent
                            /\ f.jobs[i].stamp = e.jobs[i].stamp
      BY <1>2 DEF Plain, Loose, RowKept, Binned, Present, Absent
    <3> QED
      BY <3>1, ReadKept DEF Ages, Stays
  <2> QED
    BY <2>4, <2>5 DEF Ages
<1> QED
  BY <1>1, <1>2 DEF PlainOrBins

\* A verdict that finds its job waiting finds the newest of its path.
LEMMA VerdictIsNewest ==
  ASSUME NEW e, Ordered(e), e.inbox # <<>>, NEW d, d = [e EXCEPT !.inbox = Tail(@)], Sound(d),
         NEW j \in Ids, Present(e, j), IsReady(Head(e.inbox), j), NEW i \in Ids
  PROVE  ~Older(d, j, i)
<1>1. Verdict(Head(e.inbox), j) /\ Head(e.inbox).out # "Failed"
  BY DEF IsReady, Verdict
<1>2. d.jobs = e.jobs /\ j \in e.tracked
  BY <1>1, PoppedFollowed
<1>3. e.jobs[j].state \in Waiting
  BY <1>2 DEF Ordered, Followed, FollowedBut, JobFollowed
<1>4. IsActive(e, j)
  BY <1>3 DEF IsActive, Waiting, Terminal, Absent
<1> SUFFICES ASSUME Older(d, j, i) PROVE FALSE
  OBVIOUS
<1>5. i # j /\ e.jobs[i].key = e.jobs[j].key /\ Outranks(e, i, j)
  BY <1>2 DEF Older, Outranks
<1>6. Outranks(e, j, i)
  BY <1>4, <1>5 DEF Ordered, Ranked
<1>7. e.jobs[i].gen \in Nat /\ e.jobs[j].gen \in Nat /\ i \in Nat /\ j \in Nat
  <2>1. e.jobs[i] \in JobRecord /\ e.jobs[j] \in JobRecord
    BY DEF Ordered, Sound, Engine
  <2> QED
    BY <2>1, BoundsAssumption DEF JobRecord, Ids
<1> QED
  BY <1>5, <1>6, <1>7 DEF Outranks

LEMMA OnProbeAges ==
  ASSUME NEW e, Sound(e), Booked(e), NEW x \in Nat, NEW m, \A j \in Ids : m[j] \in Nat, Marked(e, x, m),
         NEW a, Ages(e, x, m, a), NEW ev \in ProbeEvents, NEW f, f \in OnProbe(e, ev),
         ev.out = "Ready" /\ Present(e, ev.job) =>
            LET j == ev.job  k == e.jobs[j].key
            IN  /\ Within(e, ev.stamp.id, k, x) /\ ev.stamp.id # 0
                /\ ev.stamp.id = e.file[k].id => ev.stamp.size = e.file[k].size
                /\ a[k] = "sidecars" => ev.stamp.id < x
                /\ \A i \in Ids : Older(e, i, j) => Mark(e, i) < ev.stamp.id
                /\ \A i \in Ids : ~Older(e, j, i)
  PROVE  Ages(f, x, m, a)
<1> DEFINE j == ev.job
           t == ev.stamp
<1>1. j \in Ids
  BY DEF ProbeEvents
<1>2. \A i \in Ids : f.jobs[i].state \in InMux =>
         e.jobs[i].state \in InMux \/ (i = j /\ f.jobs[j].state = "Muxing")
  <2>1. Quiet(e, f) \/ Sends(e, f, j)
    BY OnProbeKeeps
  <2> QED
    BY <1>1, <2>1 DEF Quiet, Sends, SameClass
<1>3. CASE Plain(e, f, {}) /\ (f.jobs[j].state = "Muxing" => e.jobs[j].state = "Muxing")
  <2>1. Stays(e, f)
    BY <1>2, <1>3, StateFacts DEF Stays, InMux
  <2> QED
    BY <1>3, <2>1, PlainAges
<1>4. ASSUME NEW r, ev.out = "Ready", Stamped(e, r, j, t), Plain(r, f, {})
      PROVE  Ages(f, x, m, a)
  <2> DEFINE k == e.jobs[j].key
  <2>1. Present(e, j) /\ Sound(r)
    BY <1>4 DEF Stamped
  <2>2. /\ Within(e, t.id, k, x) /\ t.id # 0 /\ (t.id = e.file[k].id => t.size = e.file[k].size)
        /\ a[k] = "sidecars" => t.id < x
        /\ \A i \in Ids : Older(e, i, j) => Mark(e, i) < t.id
        /\ \A i \in Ids : ~Older(e, j, i)
    BY <1>4, <2>1
  <2>3. t \in Stamps
    BY <1>4 DEF ProbeEvents
  <2> HIDE DEF j, t
  <2>4. Marked(r, x, m)
    BY <1>1, <1>4, <2>1, <2>2, <2>3, MarkedStamped
  <2>5. Aged(r, x, a)
    BY <1>1, <1>4, <2>2, AgedStamped DEF Ages
  <2>6. Aged(f, x, a)
    BY <1>4, <2>1, <2>4, <2>5, AgedPlain
  <2>7. /\ f.nextId = e.nextId
        /\ \A i \in Ids : f.jobs[i].state = Absent <=> e.jobs[i].state = Absent
        /\ \A i \in Ids \ {j} : f.jobs[i].stamp = e.jobs[i].stamp
        /\ f.jobs[j].stamp = t
    BY <1>1, <1>4 DEF Stamped, Plain, Loose, RowKept
  <2>8. Mark(f, j) # 0
    BY <2>2, <2>7 DEF Mark
  <2>9. Read(f, m)
    BY <1>2, <2>7, <2>8, ReadKept DEF Ages
  <2> QED
    BY <2>6, <2>9 DEF Ages
<1> QED
  BY <1>3, <1>4, OnProbeStamps

\* No event is of the panel, or of a sidecar.
Plainly(e) == \A n \in 1..Len(e.inbox) : e.inbox[n].type \notin {"cep", "sidecar"}

LEMMA HandleAges ==
  ASSUME NEW e, Ordered(e), Booked(e), e.inbox # <<>>, Distinct,
         NEW x \in Nat, NEW m, \A i \in Ids : m[i] \in Nat, Marked(e, x, m),
         NEW a, Ages(e, x, m, a), Plainly(e), Creating(Head(e.inbox)) => e.nextId \in Ids,
         NEW f, f \in Handle([e EXCEPT !.inbox = Tail(@)], Head(e.inbox))
  PROVE  Ages(f, x, m, a)
<1> DEFINE d == [e EXCEPT !.inbox = Tail(@)]
           ev == Head(e.inbox)
<1>0. Sound(e)
  BY DEF Ordered
<1>1. /\ Sound(d) /\ ev \in Event /\ d.nextId = e.nextId
      /\ (\A j \in Ids : ~IsEnd(ev, j)) => Booked(d)
  BY <1>0, Popped
<1>2. f \in Handle(d, ev) /\ (Creating(ev) => e.nextId \in Ids)
  OBVIOUS
<1>3. /\ Marked(d, x, m) /\ d.jobs = e.jobs /\ d.file = e.file
      /\ \A j \in Ids : Present(d, j) /\ IsReady(ev, j) => Within(d, ev.stamp.id, d.jobs[j].key, x)
      /\ \A j \in Ids : Present(d, j) /\ IsDone(ev, j) =>
           d.jobs[j].stamp.id <= m[j] /\ Within(d, m[j], d.jobs[j].key, x)
  BY <1>0, MarkedPopped
<1>4. /\ Aged(d, x, a)
      /\ \A j \in Ids : Present(d, j) /\ IsReady(ev, j) =>
            LET k == d.jobs[j].key
            IN  /\ ev.stamp.id # 0
                /\ ev.stamp.id = d.file[k].id => ev.stamp.size = d.file[k].size
                /\ a[k] = "sidecars" => ev.stamp.id < x
                /\ \A i \in Ids : Older(d, i, j) => Mark(d, i) < ev.stamp.id
  BY <1>0, AgedPopped DEF Ages
<1>5. ASSUME NEW j \in Ids, Present(d, j), IsReady(ev, j) PROVE \A i \in Ids : ~Older(d, j, i)
  <2>1. Present(e, j)
    BY <1>3, <1>5 DEF Present
  <2> QED
    BY <1>1, <1>5, <2>1, VerdictIsNewest
<1>6. ev.type \notin {"cep", "sidecar"}
  <2>1. e.inbox \in Seq(Event)
    BY <1>0 DEF Sound, Engine
  <2>2. 1 \in 1..Len(e.inbox) /\ ev = e.inbox[1]
    BY <2>1, LenProperties, EmptySeq
  <2> QED
    BY <2>2 DEF Plainly
<1>7. Ages(d, x, m, a)
  BY <1>1, <1>3, <1>4 DEF Ages, Read, Present, Mark
<1> HIDE DEF d, ev
<1>8. /\ ev.type \in {"log", "output"} => ev.key \in Keys
      /\ ev.type = "probe" => ev \in ProbeEvents
      /\ ev.type = "mux" => ev \in MuxEvents
      /\ ev.type \in {"log", "output", "probe", "mux"}
  BY <1>1, <1>6, EventFacts
<1>9. CASE ev.type \in {"log", "output"}
  <2>1. ev.key \in Keys /\ d.nextId \in Ids
    BY <1>1, <1>2, <1>8, <1>9 DEF Creating
  <2>2. Booked(d)
    BY <1>1, <1>9 DEF IsEnd
  <2>3. QuietOrMakes(d, f) /\ JoinsFresh(d, f)
    <3>1. CASE ev.type = "log"
      <4>1. \/ f \in LogSuccess(d, ev.key) \/ f \in LogFailed(d, ev.key)
            \/ f \in CatchUp(d, ev.key, ev.what = "newer")
        BY <1>2, <3>1 DEF Handle, OnLog
      <4>2. CASE f \in LogSuccess(d, ev.key)
        BY <1>1, <2>1, <4>2, LogSuccessKeeps, LogSuccessJoins
      <4>3. CASE f \in LogFailed(d, ev.key)
        BY <1>1, <2>1, <4>3, LogFailedKeeps, LogFailedPlain DEF JoinsFresh
      <4>4. CASE f \in CatchUp(d, ev.key, ev.what = "newer")
        BY <1>1, <2>1, <4>4, CatchUpKeeps, CatchUpJoins
      <4> QED
        BY <4>1, <4>2, <4>3, <4>4
    <3>2. CASE ev.type = "output"
      <4>1. f \in OutputRemoved(d, ev.key) \/ f \in OutputSeen(d, ev.key, ev.action, ev.scan)
        BY <1>2, <3>2 DEF Handle, OnOutput
      <4>2. CASE f \in OutputRemoved(d, ev.key)
        BY <1>1, <2>1, <4>2, OutputRemovedKeeps, OutputRemovedPlain DEF JoinsFresh
      <4>3. CASE f \in OutputSeen(d, ev.key, ev.action, ev.scan)
        <5>1. JoinsFresh(Upgrade(d, ev.key), f)
          BY <1>1, <2>1, <4>3, OutputSeenJoins
        <5>2. Upgrade(d, ev.key) = d
          BY <1>1, <2>1, UpgradeIsIdle
        <5>3. QuietOrMakes(d, f)
          BY <1>1, <2>1, <4>3, OutputSeenKeeps
        <5> QED
          BY <5>1, <5>2, <5>3
      <4> QED
        BY <4>1, <4>2, <4>3
    <3> QED
      BY <1>9, <3>1, <3>2
  <2>4. Stays(d, f)
    BY <2>3, NobodyEnters
  <2> QED
    BY <1>1, <1>3, <1>7, <2>2, <2>3, <2>4, JoinsAges
<1>10. CASE ev.type = "probe"
  <2>1. f \in OnProbe(d, ev) /\ ev \in ProbeEvents /\ ev.job \in Ids
    BY <1>2, <1>8, <1>10 DEF Handle, ProbeEvents
  <2>2. ASSUME ev.out = "Ready", Present(d, ev.job) PROVE IsReady(ev, ev.job)
    BY <1>10, <2>2 DEF IsReady
  <2>3. Booked(d)
    BY <1>1, <1>10 DEF IsEnd
  <2> QED
    BY <1>1, <1>3, <1>4, <1>5, <1>7, <2>1, <2>2, <2>3, OnProbeAges
<1>11. CASE ev.type = "mux"
  <2> DEFINE D == IF ev.out = "Done" THEN {ev.job} ELSE {}
  <2>1. f \in OnMux(d, ev) /\ ev \in MuxEvents /\ ev.job \in Ids
    BY <1>2, <1>8, <1>11 DEF Handle, MuxEvents
  <2>2. PlainOrBins(d, f, ev.job, D)
    BY <1>1, <2>1, OnMuxBins
  <2>3. Stays(d, f)
    BY <1>1, <2>1, OnMuxStays, NobodyEnters
  <2>4. \A i \in Ids : Present(d, i) /\ i \in D =>
          d.jobs[i].stamp.id <= m[i] /\ Within(d, m[i], d.jobs[i].key, x)
    BY <1>3, <1>11 DEF IsDone
  <2> HIDE DEF D
  <2> QED
    BY <1>1, <1>3, <1>7, <2>1, <2>2, <2>3, <2>4, BinsAges
<1> QED
  BY <1>8, <1>9, <1>10, <1>11

-----------------------------------------------------------------------------
(* The ages hold in every step *)

Young == Ages(E, exports, muxed, ame) /\ Plainly(E) /\ news["cep"] = <<>>

LEMMA CommitYoung ==
  ASSUME NEW f, Sound(f), Commit(f), Ages(f, exports, muxed, ame), Plainly(f), news["cep"] = <<>>
  PROVE  Young'
<1>1. E' = f /\ exports' = exports /\ muxed' = muxed /\ ame' = ame /\ news' = news
  BY CommitIsE DEF Sound, Commit
<1> QED
  BY <1>1 DEF Young

LEMMA ApplyYoung ==
  ASSUME IInv, Ordered(E), Marked(E, exports, muxed), Young, Distinct, Apply PROVE Young'
<1>1. PICK f \in Handle([E EXCEPT !.inbox = Tail(@)], Head(inbox)) : Commit(f)
  BY DEF Apply
<1>2. inbox # <<>> /\ inbox \in Seq(Event)
  BY Typed DEF Apply
<1>3. Sound(E) /\ Booked(E) /\ E.inbox = inbox /\ E.nextId = nextId
  BY DEF E, IInv
<1>4. Creating(Head(inbox)) => nextId \in Ids
  <2>1. nextId \in 1..(MaxJobs + 1) /\ MaxJobs \in Nat
    BY Typed, BoundsAssumption
  <2>2. /\ Cardinality(Creates(Tail(inbox))) \in Nat
        /\ Cardinality(Creates(inbox)) =
             Cardinality(Creates(Tail(inbox))) + IF Creating(Head(inbox)) THEN 1 ELSE 0
    BY <1>2, CreatesTail
  <2> QED
    BY <2>1, <2>2 DEF IInv, IdsLeft, Ids
<1>5. E.inbox # <<>> /\ (Creating(Head(E.inbox)) => E.nextId \in Ids)
  BY <1>2, <1>3, <1>4
<1>6. f \in Handle([E EXCEPT !.inbox = Tail(@)], Head(E.inbox))
  BY <1>1, <1>3
<1>7. Ages(E, exports, muxed, ame) /\ Plainly(E) /\ news["cep"] = <<>>
  BY DEF Young
<1>8. Ages(f, exports, muxed, ame)
  BY <1>3, <1>5, <1>6, <1>7, Counted, HandleAges
<1>9. Sound(f) /\ f.inbox = Tail(inbox)
  BY <1>3, <1>5, <1>6, HandleKeeps
<1>10. Plainly(f)
  <2>1. Len(inbox) \in Nat /\ \A i \in 1..Len(f.inbox) : i + 1 \in 1..Len(inbox) /\ f.inbox[i] = inbox[i + 1]
    BY <1>2, <1>9, HeadTailProperties, LenProperties
  <2> QED
    BY <1>3, <1>7, <2>1 DEF Plainly
<1> QED
  BY <1>1, <1>7, <1>8, <1>9, <1>10, CommitYoung

LEMMA OnJobYoung ==
  ASSUME IInv, Marked(E, exports, muxed), Young, NEW name \in {"hold", "recycle"}, NEW j \in Ids,
         OnJob(name, j)
  PROVE  Young'
<1>1. PICK f \in JobCommand(name, E, j) : Commit(f)
  BY DEF OnJob
<1>2. /\ Present(E, j) /\ Sound(E) /\ Ages(E, exports, muxed, ame) /\ Plainly(E)
      /\ news["cep"] = <<>>
  BY DEF OnJob, Present, E, IInv, Young
<1>3. /\ Sound(f) /\ Quiet(E, f)
      /\ PlainOrBins(E, f, j, {})
  <2>1. CASE f \in HoldJob(E, j)
    BY <1>2, <2>1, HoldJobKeeps, HoldJobPlain DEF PlainOrBins
  <2>2. CASE f \in RecycleJob(E, j)
    <3>1. Sound(f) /\ Quiet(E, f)
      BY <1>2, <2>2, RecycleJobKeeps
    <3>2. PlainOrBins(E, f, j, {})
      BY <1>2, <2>2, RecycleJobBins, PlainItself DEF PlainOrBins
    <3> QED
      BY <3>1, <3>2
  <2> QED
    BY <1>1, <2>1, <2>2 DEF JobCommand
<1>4. Stays(E, f)
  BY <1>3, NobodyEnters DEF QuietOrMakes
<1>5. Ages(f, exports, muxed, ame)
  BY <1>2, <1>3, <1>4, Counted, BinsAges
<1>6. Plainly(f)
  BY <1>2, <1>3 DEF Quiet, Plainly
<1> QED
  BY <1>1, <1>2, <1>3, <1>5, <1>6, CommitYoung

\* What is new in the inbox is not the panel's, and a verdict has seen the file.
Seen(ev) == /\ ev.type \notin {"cep", "sidecar"}
            /\ \A i \in Ids : IsReady(ev, i) /\ Present(E, i) => Sees(E, E', jobs[i].key, ev.stamp)

LEMMA AroundYoung ==
  ASSUME IInv, Marked(E, exports, muxed), Young, UNCHANGED <<jobs, nextId>>,
         exports' \in Nat, exports <= exports', FilesAge(E, E', exports, exports', ame, ame'),
         \A i \in Ids : muxed'[i] \in {0, muxed[i]} \/ (Present(E, i) /\ jobs[i].state \in InMux),
         inbox' = inbox \/ \E ev \in Event : Seen(ev) /\ inbox' = Append(inbox, ev),
         news'["cep"] = news["cep"]
  PROVE  Young'
<1>1. /\ E.jobs = jobs /\ E'.jobs = jobs' /\ E.nextId = nextId /\ E'.nextId = nextId'
      /\ E.inbox = inbox /\ E'.inbox = inbox'
  BY DEF E
<1>2. inbox \in Seq(Event) /\ Sound(E) /\ Ages(E, exports, muxed, ame) /\ Plainly(E)
  BY Typed DEF IInv, Young
<1>3. \A p \in 1..Len(inbox') : (\E q \in 1..Len(inbox) : inbox'[p] = inbox[q]) \/ Seen(inbox'[p])
  <2>1. CASE inbox' = inbox
    BY <2>1
  <2>2. ASSUME NEW ev \in Event, Seen(ev), inbox' = Append(inbox, ev)
        PROVE  \A p \in 1..Len(inbox') : (\E q \in 1..Len(inbox) : inbox'[p] = inbox[q]) \/ Seen(inbox'[p])
    BY <1>2, <2>2, Grown
  <2> QED
    BY <2>1, <2>2
<1>4. \A i \in Ids : Present(E', i) <=> Present(E, i)
  BY <1>1 DEF Present
<1>5. RowsAge(E, E')
  BY <1>1, <1>4 DEF RowsAge
<1>6. VerdictsAge(E, E')
  BY <1>1, <1>3, <1>4 DEF VerdictsAge, Seen
<1>7. Aged(E', exports', ame')
  BY <1>2, <1>5, <1>6, Counted, AgedLater DEF Ages
<1>8. Read(E', muxed')
  <2> SUFFICES ASSUME NEW i \in Ids
               PROVE  /\ Present(E', i) => (jobs[i].state \in InMux \/ muxed'[i] # 0 => Mark(E', i) # 0)
                      /\ ~Present(E', i) => i >= nextId /\ muxed'[i] = 0
    BY <1>1 DEF Read
  <2>1. /\ Present(E, i) => (jobs[i].state \in InMux \/ muxed[i] # 0 => Mark(E, i) # 0)
        /\ ~Present(E, i) => i >= nextId /\ muxed[i] = 0
    BY <1>1, <1>2 DEF Ages, Read
  <2>2. Mark(E', i) = Mark(E, i)
    BY <1>1 DEF Mark
  <2> QED
    BY <1>4, <2>1, <2>2
<1>9. Plainly(E')
  BY <1>1, <1>2, <1>3 DEF Plainly, Seen
<1> QED
  BY <1>7, <1>8, <1>9 DEF Young, Ages

LEMMA ProbeYoung ==
  ASSUME IInv, Marked(E, exports, muxed), Young, NEW j \in Ids, ProbeStep(j) \/ ProbeWriting(j)
  PROVE  Young'
<1>1. /\ UNCHANGED <<jobs, nextId, muxed, ame, news>> /\ exports' = exports /\ file' = file
  BY DEF ProbeStep, ProbeVerdict, ProbeMerge, ProbeWriting, ProbeFrame, engineVars, diskVars, worldVars
<1>2. E.file = file /\ E'.file = file' /\ E.jobs = jobs /\ E.probe = probe
  BY DEF E
<1>3. exports' \in Nat /\ exports <= exports' /\ FilesAge(E, E', exports, exports', ame, ame')
  BY <1>1, <1>2, Counted, FilesAgeSame
<1>4. probe \in [Ids -> ProbeRecord] /\ file \in [Keys -> FileRecord]
      /\ (probe[j].st # "none" => probe[j].key \in Keys)
  BY Typed
<1> DEFINE writing == [type |-> "probe", job |-> j, out |-> "Writing"]
           failed == [type |-> "probe", job |-> j, out |-> "Failed"]
           stamp == Stamp(E, probe[j].key)
           ready == [type |-> "probe", job |-> j, out |-> "Ready", stamp |-> stamp]
<1>5. /\ writing \in Event /\ failed \in Event /\ Seen(writing) /\ Seen(failed)
  BY DEF Event, IsReady, Seen
<1>6. ASSUME probe[j].st # "none", Exists(E, probe[j].key) PROVE ready \in Event /\ Seen(ready)
  <2>1. /\ stamp \in Stamps /\ stamp.id = file[probe[j].key].id /\ stamp.id # 0
        /\ stamp.size = file[probe[j].key].size
    BY <1>2, <1>4, <1>6 DEF Stamp, Stamps, FileRecord, Exists
  <2> HIDE DEF stamp
  <2>2. ready \in Event /\ ready.type = "probe" /\ ready.stamp = stamp
        /\ \A i \in Ids : IsReady(ready, i) => i = j
    BY <2>1 DEF Event, IsReady
  <2> HIDE DEF ready
  <2>3. ASSUME Present(E, j) PROVE Sees(E, E', jobs[j].key, stamp)
    <3>1. probe[j].key = jobs[j].key
      BY <1>2, <1>6, <2>3 DEF Marked, JobMarked
    <3> QED
      BY <1>1, <1>2, <2>1, <3>1 DEF Sees
  <2> QED
    BY <2>2, <2>3 DEF Seen
<1> HIDE DEF writing, failed, ready
<1>7. inbox' = inbox \/ \E ev \in Event : Seen(ev) /\ inbox' = Append(inbox, ev)
  <2>1. CASE ProbeWriting(j)
    <3>1. inbox' = Append(inbox, writing)
      BY <2>1 DEF ProbeWriting, Post, writing
    <3> QED
      BY <1>5, <3>1
  <2>2. CASE ProbeVerdict(j)
    <3>1. \/ probe[j].st # "none" /\ Exists(E, probe[j].key) /\ inbox' = Append(inbox, ready)
          \/ inbox' = Append(inbox, failed)
      BY <2>2 DEF ProbeVerdict, Post, ready, failed
    <3> QED
      BY <1>5, <1>6, <3>1
  <2>3. CASE ProbeMerge(j)
    <3>1. inbox' = inbox \/ inbox' = Append(inbox, failed)
      BY <2>3 DEF ProbeMerge, Post, failed
    <3> QED
      BY <1>5, <3>1
  <2> QED
    BY <2>1, <2>2, <2>3 DEF ProbeStep
<1> QED
  BY <1>1, <1>3, <1>7, AroundYoung

LEMMA MuxYoung ==
  ASSUME IInv, Marked(E, exports, muxed), Young, MuxStep PROVE Young'
<1>1. /\ UNCHANGED <<jobs, nextId, ame, news>> /\ exports' = exports /\ file' = file
  BY DEF MuxStep, MuxTake, MuxVerify, MuxEnd, MuxFrame, engineVars, worldVars
<1>2. /\ E.file = file /\ E'.file = file' /\ E.jobs = jobs /\ E.nextId = nextId /\ E.muxing = muxing
  BY DEF E
<1>3. exports' \in Nat /\ exports <= exports' /\ FilesAge(E, E', exports, exports', ame, ame')
  BY <1>1, <1>2, Counted, FilesAgeSame
<1> DEFINE j == muxing.job
<1>4. j \in Ids \cup {0} /\ muxed \in [Ids -> 0..MaxExports]
  BY Typed DEF MuxRecord, IInv, WorldSound
<1>5. ASSUME j \in Ids PROVE Present(E, j) /\ jobs[j].state \in InMux
  <2>1. JobBooked(E, j)
    BY <1>5 DEF IInv, Booked, BookedBut
  <2>2. ~Present(E, j) => j >= nextId
    BY <1>2, <1>5 DEF Young, Ages, Read
  <2>3. ~(j >= nextId)
    BY <1>2, <2>1 DEF JobBooked
  <2>4. Present(E, j)
    BY <2>2, <2>3
  <2> QED
    BY <1>2, <2>1, <2>4 DEF JobBooked, Present
<1>6. \A i \in Ids : muxed'[i] \in {0, muxed[i]} \/ (i = j /\ j # 0)
  BY <1>4 DEF MuxStep, MuxTake, MuxVerify, MuxEnd
<1>7. inbox' = inbox \/ \E ev \in Event : Seen(ev) /\ inbox' = Append(inbox, ev)
  <2>1. ASSUME NEW out \in {"Verifying", "Done", "Failed", "Cancelled"}, j # 0,
               Post([type |-> "mux", job |-> j, out |-> out])
        PROVE  \E ev \in Event : Seen(ev) /\ inbox' = Append(inbox, ev)
    <3> DEFINE ev == [type |-> "mux", job |-> j, out |-> out]
    <3>1. ev \in Event /\ Seen(ev) /\ inbox' = Append(inbox, ev)
      BY <1>4, <2>1 DEF Event, IsReady, Seen, Post
    <3> HIDE DEF ev
    <3> QED
      BY <3>1
  <2>2. \/ inbox' = inbox
        \/ j # 0 /\ \E out \in {"Verifying", "Done", "Failed", "Cancelled"} :
             Post([type |-> "mux", job |-> j, out |-> out])
    BY DEF MuxStep, MuxTake, MuxVerify, MuxEnd
  <2> QED
    BY <2>1, <2>2
<1> HIDE DEF j
<1>8. \A i \in Ids : muxed'[i] \in {0, muxed[i]} \/ (Present(E, i) /\ jobs[i].state \in InMux)
  BY <1>5, <1>6
<1> QED
  BY <1>1, <1>3, <1>7, <1>8, AroundYoung

\* The log and the watched folder are all that is listened to.
NoPanel == Triggers \subseteq {"log", "folder"}

\* What AME does, and other programs, to the files of one path.
LEMMA WorldFiles ==
  ASSUME IInv, ~Truncates, WorldStep
  PROVE  exports' \in Nat /\ exports <= exports' /\ FilesAge(E, E', exports, exports', ame, ame')
<1>1. E.file = file /\ E'.file = file'
  BY DEF E
<1>2. exports \in Nat /\ file \in [Keys -> FileRecord] /\ ame \in [Keys -> {"idle", "sidecars", "writing"}]
  BY Counted, Typed DEF IInv, WorldSound
<1>3. ASSUME NEW k \in Keys, AmeBegin(k)
      PROVE  exports' \in Nat /\ exports <= exports' /\ FilesAge(E, E', exports, exports', ame, ame')
  <2>a. exports' = exports + 1 /\ UNCHANGED diskVars
    BY <1>3 DEF AmeBegin
  <2>b. file' = file
    BY <2>a DEF diskVars
  <2>1. file' = file /\ exports' = exports + 1 /\ exports' \in Nat /\ exports < exports'
    BY <1>2, <2>a, <2>b
  <2> QED
    BY <1>1, <1>2, <2>1 DEF FilesAge
<1>4. ASSUME NEW k \in Keys, AmeWrite(k)
      PROVE  exports' = exports /\ FilesAge(E, E', exports, exports', ame, ame')
  <2>1. PICK size \in Sizes : file' = [file EXCEPT ![k] = [id |-> exports, size |-> size, content |-> exports]]
    BY <1>4 DEF AmeWrite
  <2>2. exports' = exports /\ ame[k] = "sidecars" /\ ame' = [ame EXCEPT ![k] = "writing"]
    BY <1>4 DEF AmeWrite
  <2>3. file'[k].id = exports /\ ame'[k] = "writing"
        /\ \A l \in Keys \ {k} : file'[l] = file[l] /\ ame'[l] = ame[l]
    BY <1>2, <2>1, <2>2
  <2> QED
    BY <1>1, <2>2, <2>3 DEF FilesAge
<1>5. ASSUME NEW k \in Keys, AmeEnd(k) \/ AmeFails(k)
      PROVE  exports' = exports /\ FilesAge(E, E', exports, exports', ame, ame')
  <2>1. /\ exports' = exports /\ ame' = [ame EXCEPT ![k] = "idle"]
        /\ file' = file \/ file' = [file EXCEPT ![k] = NoFile]
    BY <1>5 DEF AmeEnd, AmeFails
  <2>2. \A l \in Keys : ame'[l] = "sidecars" => ame[l] = "sidecars"
    BY <1>2, <2>1
  <2>3. \A l \in Keys : file'[l] = file[l] \/ file'[l].id = 0
    BY <1>2, <2>1 DEF NoFile
  <2> QED
    BY <1>1, <2>1, <2>2, <2>3 DEF FilesAge
<1>6. ASSUME NEW k \in Keys, PostSidecar(k) \/ FlushChange(k) \/ Touch(k)
      PROVE  exports' = exports /\ FilesAge(E, E', exports, exports', ame, ame')
  <2>1. /\ exports' = exports /\ ame' = ame
        /\ file' = file \/ file' = [file EXCEPT ![k] = NoFile]
    BY <1>6 DEF PostSidecar, FlushChange, Touch, diskVars, worldVars
  <2>2. \A l \in Keys : file'[l] = file[l] \/ file'[l].id = 0
    BY <1>2, <2>1 DEF NoFile
  <2> QED
    BY <1>1, <2>1, <2>2 DEF FilesAge
<1>7. ASSUME PostNews("log") \/ PostNews("cep")
      PROVE  exports' = exports /\ FilesAge(E, E', exports, exports', ame, ame')
  <2>1. exports' = exports /\ ame' = ame /\ file' = file
    BY <1>7 DEF PostNews, diskVars
  <2> QED
    BY <1>1, <2>1 DEF FilesAge
<1> QED
  BY <1>2, <1>3, <1>4, <1>5, <1>6, <1>7 DEF WorldStep

LEMMA WorldYoung ==
  ASSUME IInv, Marked(E, exports, muxed), Young, ~Truncates, NoPanel, WorldStep PROVE Young'
<1>1. UNCHANGED <<jobs, nextId, muxed>>
  BY DEF WorldStep, AmeBegin, AmeWrite, AmeEnd, AmeFails, PostSidecar, FlushChange, Touch, PostNews,
         WorldFrame, engineVars
<1>2. exports' \in Nat /\ exports <= exports' /\ FilesAge(E, E', exports, exports', ame, ame')
  BY WorldFiles
<1>3. /\ "cep" \notin Triggers /\ "sidecar" \notin Triggers /\ news["cep"] = <<>>
      /\ news \in [{"log", "cep"} -> Seq(Keys \X Texts)]
  BY DEF NoPanel, Young, IInv, WorldSound
<1>4. /\ ~PostNews("cep") /\ \A k \in Keys : ~PostSidecar(k)
  BY <1>3 DEF PostNews, PostSidecar
<1>5. news'["cep"] = news["cep"]
  <2>1. ASSUME NEW k \in Keys, NEW l, NEW c, Tell(k, l, c) PROVE news'["cep"] = news["cep"]
    BY <1>3, <2>1 DEF Tell
  <2>2. ASSUME NEW k \in Keys, AmeBegin(k) \/ AmeEnd(k) \/ AmeFails(k) PROVE news'["cep"] = news["cep"]
    BY <2>1, <2>2 DEF AmeBegin, AmeEnd, AmeFails
  <2>3. ASSUME NEW k \in Keys, AmeWrite(k) \/ FlushChange(k) \/ Touch(k) PROVE news'["cep"] = news["cep"]
    BY <2>3 DEF AmeWrite, FlushChange, Touch, worldVars
  <2>4. PostNews("log") => news'["cep"] = news["cep"]
    BY <1>3 DEF PostNews
  <2> QED
    BY <1>4, <2>2, <2>3, <2>4 DEF WorldStep
<1>6. inbox' = inbox \/ \E ev \in Event : Seen(ev) /\ inbox' = Append(inbox, ev)
  <2>1. ASSUME NEW k \in Keys, NEW action \in Changes, NEW scan \in BOOLEAN,
               Post([type |-> "output", key |-> k, action |-> action, scan |-> scan])
        PROVE  \E ev \in Event : Seen(ev) /\ inbox' = Append(inbox, ev)
    <3> DEFINE ev == [type |-> "output", key |-> k, action |-> action, scan |-> scan]
    <3>1. ev \in Event /\ ev.type = "output" /\ inbox' = Append(inbox, ev)
      BY <2>1 DEF Event, Post
    <3> HIDE DEF ev
    <3> QED
      BY <3>1 DEF Seen, IsReady
  <2>2. ASSUME NEW k \in Keys, NEW what \in Texts, Post([type |-> "log", key |-> k, what |-> what])
        PROVE  \E ev \in Event : Seen(ev) /\ inbox' = Append(inbox, ev)
    <3> DEFINE ev == [type |-> "log", key |-> k, what |-> what]
    <3>1. ev \in Event /\ ev.type = "log" /\ inbox' = Append(inbox, ev)
      BY <2>2 DEF Event, Post
    <3> HIDE DEF ev
    <3> QED
      BY <3>1 DEF Seen, IsReady
  <2>3. ASSUME PostNews("log") PROVE \E ev \in Event : Seen(ev) /\ inbox' = Append(inbox, ev)
    <3> DEFINE told == Head(news["log"])
    <3>1. told \in Keys \X Texts
      BY <1>3, <2>3, HeadTailProperties DEF PostNews
    <3>2. Post([type |-> "log", key |-> told[1], what |-> told[2]])
      BY <2>3 DEF PostNews
    <3> HIDE DEF told
    <3> QED
      BY <2>2, <3>1, <3>2
  <2>4. ASSUME NEW k \in Keys, FlushChange(k)
        PROVE  inbox' = inbox \/ \E ev \in Event : Seen(ev) /\ inbox' = Append(inbox, ev)
    <3>1. \/ inbox' = inbox
          \/ \E action \in Changes :
               Post([type |-> "output", key |-> k, action |-> action, scan |-> FALSE])
      BY <2>4 DEF FlushChange, Changes
    <3> QED
      BY <2>1, <3>1
  <2>5. ASSUME NEW k \in Keys, Touch(k)
        PROVE  inbox' = inbox \/ \E ev \in Event : Seen(ev) /\ inbox' = Append(inbox, ev)
    <3>1. \/ inbox' = inbox
          \/ Post([type |-> "output", key |-> k, action |-> "Added", scan |-> TRUE])
          \/ \E what \in {"newer", "older"} : Post([type |-> "log", key |-> k, what |-> what])
      BY <2>5 DEF Touch
    <3>2. "Added" \in Changes /\ TRUE \in BOOLEAN /\ {"newer", "older"} \subseteq Texts
      BY DEF Changes, Texts
    <3>3. CASE Post([type |-> "output", key |-> k, action |-> "Added", scan |-> TRUE])
      BY <2>1, <3>2, <3>3
    <3>4. ASSUME NEW what \in {"newer", "older"}, Post([type |-> "log", key |-> k, what |-> what])
          PROVE  \E ev \in Event : Seen(ev) /\ inbox' = Append(inbox, ev)
      BY <2>2, <3>2, <3>4
    <3> QED
      BY <3>1, <3>3, <3>4
  <2>6. \/ inbox' = inbox \/ PostNews("log")
        \/ \E k \in Keys : FlushChange(k) \/ Touch(k)
    BY <1>4 DEF WorldStep, AmeBegin, AmeWrite, AmeEnd, AmeFails
  <2> QED
    BY <2>3, <2>4, <2>5, <2>6
<1> QED
  BY <1>1, <1>2, <1>5, <1>6, AroundYoung

\* The user holds jobs and sends what is done to the Recycle Bin.
OnlyHolds == Commands \subseteq {"hold", "recycle"}

LEMMA NextYoung ==
  ASSUME IInv, Ordered(E), Marked(E, exports, muxed), Young, Distinct, ~Truncates, NoPanel, OnlyHolds,
         [Next]_vars
  PROVE  Young'
<1>1. CASE UserStep
  <2>1. PICK name \in Commands, j \in Ids : OnJob(name, j)
    BY <1>1 DEF UserStep, AddManualFile, SetAutoProcess, ReprobeMkvmerge, OnlyHolds
  <2>2. name \in {"hold", "recycle"}
    BY <2>1 DEF OnlyHolds
  <2> QED
    BY <2>1, <2>2, OnJobYoung
<1>2. ASSUME NEW j \in Ids, ProbeStep(j) \/ ProbeWriting(j) PROVE Young'
  BY <1>2, ProbeYoung
<1>3. CASE UNCHANGED vars
  <2>1. E' = E /\ exports' = exports /\ muxed' = muxed /\ ame' = ame /\ news' = news
    BY <1>3 DEF vars, engineVars, workerVars, diskVars, worldVars, E
  <2> QED
    BY <2>1 DEF Young
<1> QED
  BY <1>1, <1>2, <1>3, ApplyYoung, MuxYoung, WorldYoung DEF Next

LEMMA InitYoung ==
  ASSUME Init PROVE Young
<1>1. /\ E.jobs = [j \in Ids |-> NoJob] /\ E.inbox = <<>> /\ E.nextId = 1 /\ news["cep"] = <<>>
      /\ ame = [k \in Keys |-> "idle"] /\ muxed = [j \in Ids |-> 0]
  BY DEF Init, E
<1>2. \A j \in Ids : ~Present(E, j) /\ j >= 1
  BY <1>1, NoJobFacts, BoundsAssumption DEF Present, Ids
<1>3. Aged(E, exports, ame)
  BY <1>1, <1>2 DEF Aged, Older
<1>4. Read(E, muxed)
  BY <1>1, <1>2 DEF Read
<1>5. Plainly(E)
  BY <1>1 DEF Plainly
<1> QED
  BY <1>1, <1>3, <1>4, <1>5 DEF Young, Ages

\* Of two jobs of a path that have muxed, the later one has the later stamp.
LEMMA YoungOnce ==
  ASSUME IInv, Young PROVE StampMuxedOnce
<1> SUFFICES ASSUME NEW i \in Ids, NEW j \in Ids, i # j, jobs[i].key = jobs[j].key,
                    muxed[i] # 0, muxed[j] # 0, jobs[i].stamp = jobs[j].stamp
             PROVE  FALSE
  BY DEF StampMuxedOnce
<1>1. E.jobs = jobs /\ Sound(E)
  BY DEF E, IInv
<1>2. /\ Present(E, i) /\ Present(E, j) /\ Mark(E, i) # 0 /\ Mark(E, j) = Mark(E, i)
  BY <1>1 DEF Young, Ages, Read, Mark
<1>3. jobs[i].gen \in Nat /\ jobs[j].gen \in Nat /\ i \in Nat /\ j \in Nat /\ Mark(E, i) \in Nat
  <2>1. jobs[i] \in JobRecord /\ jobs[j] \in JobRecord
    BY Typed
  <2> QED
    BY <1>1, <2>1, BoundsAssumption, MarkIsNat DEF JobRecord, Ids
<1>4. Older(E, i, j) \/ Older(E, j, i)
  BY <1>1, <1>2, <1>3 DEF Older, Outranks
<1>5. PairAged(E, i, j) \/ PairAged(E, j, i)
  BY <1>4 DEF Young, Ages, Aged
<1> QED
  BY <1>2, <1>3, <1>5 DEF PairAged

(* One export, one mux: no two jobs of a path ever mux the file of the     *)
(* same stamp, however late the log, the watched folder, the scans and the *)
(* verdicts report it and however often it is exported again, and what a   *)
(* job sends to the Recycle Bin is what it muxed.  As in the run, exports  *)
(* are new files, no two paths differ in their extension only, the panel   *)
(* and the sidecars stay silent (an early trigger makes a job before there *)
(* is a file to tell apart) and no command starts a job again or removes   *)
(* it; unlike in the run, the user may hold jobs and empty the finished    *)
(* ones' files into the bin at any time.                                   *)
THEOREM OneExportOneMux ==
  ASSUME Distinct, ~Truncates, NoPanel, OnlyHolds
  PROVE  Spec => OncePerExport
<1> DEFINE Known == IInv /\ Ordered(E) /\ Marked(E, exports, muxed) /\ Young
<1>1. Init => Known
  BY InitSound, InitOrdered, InitMarked, InitYoung
<1>2. Known /\ [Next]_vars => Known' /\ Bins(E, E', muxed)
  <2> SUFFICES ASSUME Known, [Next]_vars PROVE Known' /\ Bins(E, E', muxed)
    OBVIOUS
  <2>1. StartsNothingOver
    BY DEF StartsNothingOver, OnlyHolds
  <2>2. IInv' /\ Ordered(E)'
    BY <2>1, NextAdvances DEF Advances
  <2>3. MarksStep
    BY NextMarks
  <2>4. Young'
    BY NextYoung
  <2> QED
    BY <2>2, <2>3, <2>4 DEF MarksStep
<1>3. Known => StampMuxedOnce
  BY YoungOnce
<1>4. Known /\ [Next]_vars =>
        [\A j \in Ids : jobs'[j].recycle = "Recycled" /\ jobs[j].recycle # "Recycled"
            => file[jobs[j].key].content = muxed[j]]_vars
  <2> SUFFICES ASSUME Known, [Next]_vars, NEW j \in Ids,
                      jobs'[j].recycle = "Recycled", jobs[j].recycle # "Recycled"
               PROVE  file[jobs[j].key].content = muxed[j]
    OBVIOUS
  <2>1. Bins(E, E', muxed)
    BY <1>2
  <2>2. E.jobs = jobs /\ E'.jobs = jobs' /\ E.file = file
    BY DEF E
  <2> QED
    BY <2>1, <2>2 DEF Bins
<1> HIDE DEF Known
<1> QED
  BY <1>1, <1>2, <1>3, <1>4, PTL DEF Spec, OncePerExport, RecycledWasMuxed
=============================================================================
