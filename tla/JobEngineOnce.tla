---------------------------- MODULE JobEngineOnce ----------------------------
(***************************************************************************)
(* Theorem about JobEngine: an export has one active job, with one probe,  *)
(* and a job that has ended stays ended.                                   *)
(*                                                                         *)
(* To the invariant of JobEngineProofs it adds that a waiting job's        *)
(* verdict is on its way exactly while the job is tracked (Followed) and   *)
(* that the active job of a path is the newest of the path (Ranked).       *)
(* A handler that takes a verdict has a job for a moment that is followed  *)
(* by nothing (Judged); it goes on at once to a state in which it does not *)
(* wait.                                                                   *)
(***************************************************************************)
EXTENDS JobEngineProofs

\* The end of a probe, in the inbox.
Verdict(ev, j) == ev.type = "probe" /\ ev.job = j /\ ev.out # "Writing"
Told(s, j) == \E i \in 1..Len(s) : Verdict(s[i], j)
OnlyFails(s, j) == \A i \in 1..Len(s) : Verdict(s[i], j) => s[i].out = "Failed"
OneReady(s, j) == \A i, k \in 1..Len(s) : i < k /\ Verdict(s[i], j) /\ Verdict(s[k], j)
                                          => s[k].out = "Failed"
Live(e, j) == e.probe[j].st \in {"live", "failing"}

\* A job that waits is tracked while its probe runs or its verdict is on the
\* way; what comes after the verdict is a failure that finds the job elsewhere.
JobFollowed(e, j) ==
    /\ j \in e.tracked => /\ e.jobs[j].state \in Waiting
                          /\ Live(e, j) \/ Told(e.inbox, j)
    /\ e.jobs[j].state # Absent =>
          /\ Live(e, j) => j \in e.tracked /\ ~Told(e.inbox, j)
          /\ j \notin e.tracked => OnlyFails(e.inbox, j)
          /\ OneReady(e.inbox, j)
    /\ e.jobs[j].state \in Waiting /\ j \notin e.tracked =>
          e.probe[j].st = "none" /\ ~Told(e.inbox, j)
    /\ j >= e.nextId => e.probe[j].st = "none" /\ ~Told(e.inbox, j)
FollowedBut(e, S) == \A j \in Ids \ S : JobFollowed(e, j)
Followed(e) == FollowedBut(e, {})

\* The active job of a path is the newest of the path.
IsActive(e, i) == e.jobs[i].state \notin Terminal \cup {Absent}
Ranked(e) == \A i, j \in Ids : IsActive(e, i) /\ i # j /\ e.jobs[i].key = e.jobs[j].key
                               => Outranks(e, i, j)

Ordered(e) == Sound(e) /\ Followed(e) /\ Ranked(e)
Final(e, f) == \A j \in Ids : e.jobs[j].state \in Terminal => f.jobs[j].state = e.jobs[j].state
Onward(e, f) == Ordered(f) /\ Final(e, f)

SameRow(e, f, i) == /\ f.jobs[i].state = e.jobs[i].state /\ f.jobs[i].key = e.jobs[i].key
                    /\ f.jobs[i].gen = e.jobs[i].gen
SameBooks(e, f) == /\ f.tracked = e.tracked /\ f.probe = e.probe
                   /\ f.inbox = e.inbox /\ f.nextId = e.nextId
Alike(e, f) == SameBooks(e, f) /\ \A i \in Ids : SameRow(e, f, i)

\* The verdict of the job has come.
Settled(e, j) == /\ Present(e, j) /\ e.jobs[j].state \notin Terminal
                 /\ j \notin e.tracked /\ ~Live(e, j) /\ OnlyFails(e.inbox, j)
Judged(e, j) == Sound(e) /\ FollowedBut(e, {j}) /\ Ranked(e) /\ Settled(e, j)

-----------------------------------------------------------------------------

LEMMA OnwardTwice ==
  ASSUME NEW e, NEW f, NEW g, Onward(e, f), Onward(f, g) PROVE Onward(e, g)
BY DEF Onward, Final

LEMMA OnwardItself ==
  ASSUME NEW e, Ordered(e) PROVE Onward(e, e)
BY DEF Onward, Final

LEMMA AlikeRanked ==
  ASSUME NEW e, NEW f, Ranked(e), \A i \in Ids : SameRow(e, f, i) PROVE Ranked(f)
BY DEF Ranked, SameRow, IsActive, Outranks

LEMMA AlikeFollowed ==
  ASSUME NEW e, NEW f, NEW i \in Ids, JobFollowed(e, i), SameBooks(e, f), SameRow(e, f, i)
  PROVE  JobFollowed(f, i)
BY DEF JobFollowed, SameBooks, SameRow, Live

LEMMA AlikeOnward ==
  ASSUME NEW e, NEW f, Ordered(e), Sound(f), Alike(e, f) PROVE Onward(e, f)
<1>1. Followed(f)
  BY AlikeFollowed DEF Ordered, Followed, FollowedBut, Alike
<1>2. Ranked(f)
  BY AlikeRanked DEF Ordered, Alike
<1>3. Final(e, f)
  BY DEF Final, Alike, SameRow
<1> QED
  BY <1>1, <1>2, <1>3 DEF Onward, Ordered

LEMMA AlikeJudged ==
  ASSUME NEW e, NEW f, NEW j, Judged(e, j), Sound(f), Alike(e, f) PROVE Judged(f, j) /\ Final(e, f)
<1>1. FollowedBut(f, {j})
  BY AlikeFollowed DEF Judged, FollowedBut, Alike
<1>2. Ranked(f)
  BY AlikeRanked DEF Judged, Alike
<1>3. Settled(f, j)
  BY DEF Judged, Settled, Present, Live, Alike, SameBooks, SameRow
<1>4. Final(e, f)
  BY DEF Final, Alike, SameRow
<1> QED
  BY <1>1, <1>2, <1>3, <1>4 DEF Judged

LEMMA OrderedJudged ==
  ASSUME NEW e, NEW j, Ordered(e), Present(e, j), e.jobs[j].state \notin Terminal,
         j \notin e.tracked
  PROVE  Judged(e, j)
<1>1. JobFollowed(e, j) /\ FollowedBut(e, {j})
  BY DEF Ordered, Followed, FollowedBut, Present
<1> QED
  BY <1>1 DEF Ordered, Judged, Settled, JobFollowed, Present

\* What a transition of a job that is not tracked changes.
LEMMA TransitionRow ==
  ASSUME NEW e, Sound(e), NEW j, Present(e, j), NEW s \in States \ {Absent}, NEW w \in Reasons,
         j \notin e.tracked \/ s \notin Terminal, NEW f, f = Transition(e, j, s, w)
  PROVE  /\ Sound(f) /\ SameBooks(e, f) /\ Present(f, j)
         /\ \A i \in Ids \ {j} : SameRow(e, f, i)
         /\ f.jobs[j].state = s /\ f.jobs[j].key = e.jobs[j].key
         /\ f.jobs[j].gen = e.jobs[j].gen
<1> DEFINE moved == [e EXCEPT !.jobs[j].state = s, !.jobs[j].why = w]
<1>1. e \in Engine /\ j \in Ids
  BY DEF Sound, Present
<1>2. Sound(f) /\ Present(f, j)
  BY TransitionKeeps
<1>3. /\ moved \in [jobs : [Ids -> JobRecord], nextId : 1..(MaxJobs + 1), tracked : SUBSET Ids,
                    forced : SUBSET Ids, auto : BOOLEAN, tool : BOOLEAN, probe : [Ids -> ProbeRecord],
                    queue : Seq(Request), muxing : MuxRecord, inbox : Seq(Event),
                    file : [Keys -> FileRecord], change : [Keys -> Changes]]
      /\ SameBooks(e, moved) /\ moved.forced = e.forced
      /\ \A i \in Ids \ {j} : SameRow(e, moved, i)
      /\ moved.jobs[j].state = s /\ moved.jobs[j].key = e.jobs[j].key
      /\ moved.jobs[j].gen = e.jobs[j].gen
  <2> DEFINE r == [e.jobs[j] EXCEPT !.state = s, !.why = w]
             t == [e.jobs EXCEPT ![j] = r]
  <2>1. e.jobs[j] \in JobRecord
    BY <1>1 DEF Engine
  <2>2. /\ r \in JobRecord /\ r.state = s /\ r.key = e.jobs[j].key /\ r.gen = e.jobs[j].gen
    BY <2>1 DEF JobRecord
  <2>3. moved = [e EXCEPT !.jobs = t]
    BY <1>1 DEF Engine
  <2> HIDE DEF r, moved
  <2>4. t \in [Ids -> JobRecord] /\ t[j] = r /\ \A i \in Ids \ {j} : t[i] = e.jobs[i]
    BY <1>1, <2>2 DEF Engine
  <2> HIDE DEF t
  <2>5. moved.jobs = t /\ SameBooks(e, moved) /\ moved.forced = e.forced /\ moved \in Engine
    BY <1>1, <2>3, <2>4 DEF Engine, SameBooks
  <2> QED
    BY <2>2, <2>4, <2>5 DEF Engine, SameRow
<1>4. f = IF s \in Terminal THEN [CancelProbe(moved, j) EXCEPT !.forced = @ \ {j}] ELSE moved
  BY DEF Transition
<1> HIDE DEF moved
<1>5. CASE s \notin Terminal
  BY <1>2, <1>3, <1>4, <1>5
<1>6. CASE s \in Terminal
  <2>1. CancelProbe(moved, j) = moved
    BY <1>3, <1>6 DEF CancelProbe, SameBooks
  <2>2. f = [moved EXCEPT !.forced = moved.forced \ {j}]
    BY <1>3, <1>4, <1>6, <2>1
  <2>3. /\ f.jobs = moved.jobs /\ f.tracked = moved.tracked /\ f.probe = moved.probe
        /\ f.inbox = moved.inbox /\ f.nextId = moved.nextId
    BY <1>3, <2>2
  <2> QED
    BY <1>2, <1>3, <2>3 DEF SameBooks, SameRow
<1> QED
  BY <1>5, <1>6

LEMMA MovedRanked ==
  ASSUME NEW e, NEW f, NEW j \in Ids, Ranked(e), IsActive(e, j),
         \A i \in Ids \ {j} : SameRow(e, f, i), f.jobs[j].key = e.jobs[j].key,
         f.jobs[j].gen = e.jobs[j].gen
  PROVE  Ranked(f)
<1> SUFFICES ASSUME NEW i \in Ids, NEW k \in Ids, IsActive(f, i), i # k,
                    f.jobs[i].key = f.jobs[k].key
             PROVE  Outranks(f, i, k)
  BY DEF Ranked
<1>1. /\ f.jobs[i].key = e.jobs[i].key /\ f.jobs[i].gen = e.jobs[i].gen
      /\ f.jobs[k].key = e.jobs[k].key /\ f.jobs[k].gen = e.jobs[k].gen
  BY DEF SameRow
<1>2. IsActive(e, i)
  BY DEF IsActive, SameRow
<1> QED
  BY <1>1, <1>2 DEF Ranked, Outranks

\* A job whose verdict has come goes on: it never waits again.
LEMMA JudgedTransition ==
  ASSUME NEW e, NEW j, Judged(e, j), NEW s \in States \ (Waiting \cup {Absent}), NEW w \in Reasons,
         NEW f, f = Transition(e, j, s, w)
  PROVE  Onward(e, f) /\ (s \notin Terminal => Judged(f, j)) /\ f.jobs[j].state = s
<1>1. /\ Sound(e) /\ FollowedBut(e, {j}) /\ Ranked(e) /\ Present(e, j) /\ j \in Ids
      /\ e.jobs[j].state \notin Terminal /\ e.jobs[j].state # Absent
      /\ j \notin e.tracked /\ ~Live(e, j) /\ OnlyFails(e.inbox, j)
  BY DEF Judged, Settled, Present
<1>2. /\ Sound(f) /\ SameBooks(e, f) /\ Present(f, j)
      /\ \A i \in Ids \ {j} : SameRow(e, f, i)
      /\ f.jobs[j].state = s /\ f.jobs[j].key = e.jobs[j].key
      /\ f.jobs[j].gen = e.jobs[j].gen
  BY <1>1, TransitionRow
<1>3. FollowedBut(f, {j})
  BY <1>1, <1>2, AlikeFollowed DEF FollowedBut
<1>4. JobFollowed(f, j)
  <2>1. ~(j >= f.nextId)
    BY <1>2 DEF Sound, JobSound, Present
  <2>2. j \notin f.tracked /\ ~Live(f, j) /\ OnlyFails(f.inbox, j)
    BY <1>1, <1>2 DEF SameBooks, Live
  <2>3. OneReady(f.inbox, j)
    BY <2>2 DEF OnlyFails, OneReady
  <2>4. f.jobs[j].state \notin Waiting
    BY <1>2
  <2> QED
    BY <2>1, <2>2, <2>3, <2>4 DEF JobFollowed
<1>5. Followed(f)
  BY <1>3, <1>4 DEF Followed, FollowedBut
<1>6. Ranked(f)
  BY <1>1, <1>2, MovedRanked DEF IsActive
<1>7. Final(e, f)
  BY <1>1, <1>2 DEF Final, SameRow
<1>8. s \notin Terminal => Judged(f, j)
  BY <1>1, <1>2, <1>3, <1>6 DEF Judged, Settled, SameBooks, Live
<1> QED
  BY <1>2, <1>5, <1>6, <1>7, <1>8 DEF Onward, Ordered

LEMMA BegunOnward ==
  ASSUME NEW e, Ordered(e), NEW j, Present(e, j),
         NEW f, f = IF e.jobs[j].state = "Discovered" THEN Transition(e, j, "Encoding", "") ELSE e
  PROVE  Onward(e, f)
<1>1. CASE e.jobs[j].state # "Discovered"
  BY <1>1, OnwardItself
<1>2. CASE e.jobs[j].state = "Discovered"
  <2>1. "Encoding" \in States \ {Absent} /\ "" \in Reasons /\ "Encoding" \notin Terminal /\ j \in Ids
    BY StateFacts DEF Reasons, Calm, Terminal, Present
  <2>2. /\ Sound(f) /\ SameBooks(e, f) /\ Present(f, j)
        /\ \A i \in Ids \ {j} : SameRow(e, f, i)
        /\ f.jobs[j].state = "Encoding" /\ f.jobs[j].key = e.jobs[j].key
        /\ f.jobs[j].gen = e.jobs[j].gen
    <3> DEFINE s == "Encoding"
               w == ""
    <3>1. f = Transition(e, j, s, w) /\ Sound(e)
      BY <1>2 DEF Ordered
    <3>2. s \in States \ {Absent} /\ w \in Reasons /\ s \notin Terminal
      BY <2>1
    <3> HIDE DEF s, w
    <3>3. /\ Sound(f) /\ SameBooks(e, f) /\ Present(f, j)
          /\ \A i \in Ids \ {j} : SameRow(e, f, i)
          /\ f.jobs[j].state = s /\ f.jobs[j].key = e.jobs[j].key
          /\ f.jobs[j].gen = e.jobs[j].gen
      <4>1. j \notin e.tracked \/ s \notin Terminal
        BY <3>2
      <4> QED
        BY ONLY Present(e, j), <3>1, <3>2, <4>1, TransitionRow
    <3> QED
      BY <3>3 DEF s
  <2>3. JobFollowed(f, j)
    <3>1. JobFollowed(e, j)
      BY <2>1 DEF Ordered, Followed, FollowedBut
    <3>2. e.jobs[j].state \in Waiting /\ f.jobs[j].state \in Waiting /\ e.jobs[j].state # Absent
      BY <1>2, <2>2 DEF Waiting, Absent
    <3> QED
      BY <2>2, <3>1, <3>2 DEF JobFollowed, SameBooks, Live
  <2>4. Followed(f)
    BY <2>2, <2>3, AlikeFollowed DEF Ordered, Followed, FollowedBut
  <2>5. Ranked(f)
    BY <1>2, <2>1, <2>2, MovedRanked DEF Ordered, IsActive, Terminal, Absent
  <2>6. Final(e, f)
    BY <1>2, <2>2 DEF Final, SameRow, Terminal
  <2> QED
    BY <2>2, <2>4, <2>5, <2>6 DEF Onward, Ordered
<1> QED
  BY <1>1, <1>2

LEMMA ScheduleRow ==
  ASSUME NEW e, Sound(e), NEW j, Present(e, j), NEW f, f = Schedule(e, j)
  PROVE  /\ Sound(f) /\ f.jobs = e.jobs /\ f.inbox = e.inbox /\ f.nextId = e.nextId
         /\ f.tracked = e.tracked \cup {j} /\ f.probe[j].st = "live"
         /\ \A i \in Ids \ {j} : f.probe[i] = e.probe[i]
<1>1. Sound(f)
  BY ScheduleKeeps
<1> DEFINE n == [st |-> "live", key |-> e.jobs[j].key]
<1>2. f = [e EXCEPT !.probe = [e.probe EXCEPT ![j] = n], !.tracked = e.tracked \cup {j}]
  BY DEF Schedule, Sound, Engine
<1>3. n.st = "live" /\ j \in Ids /\ e \in Engine
  BY DEF Sound, Present
<1> HIDE DEF n
<1> QED
  BY <1>1, <1>2, <1>3 DEF Engine

LEMMA ScheduleIfWaitingOnward ==
  ASSUME NEW e, Ordered(e), NEW j, Present(e, j), NEW f, f = ScheduleIfWaiting(e, j)
  PROVE  Onward(e, f)
<1>1. CASE ~(e.jobs[j].state \in Waiting /\ j \notin e.tracked)
  BY <1>1, OnwardItself DEF ScheduleIfWaiting
<1>2. CASE e.jobs[j].state \in Waiting /\ j \notin e.tracked
  <2>1. f = Schedule(e, j) /\ j \in Ids
    BY <1>2 DEF ScheduleIfWaiting, Present
  <2>2. /\ Sound(f) /\ f.jobs = e.jobs /\ f.inbox = e.inbox /\ f.nextId = e.nextId
        /\ f.tracked = e.tracked \cup {j} /\ f.probe[j].st = "live"
        /\ \A i \in Ids \ {j} : f.probe[i] = e.probe[i]
    BY <2>1, ScheduleRow DEF Ordered
  <2>3. JobFollowed(f, j)
    <3>1. JobFollowed(e, j)
      BY <2>1 DEF Ordered, Followed, FollowedBut
    <3>2. ~(j >= f.nextId)
      BY <1>2, <2>1, <2>2 DEF Sound, JobSound, Present
    <3> QED
      BY <1>2, <2>2, <3>1, <3>2 DEF JobFollowed, Live
  <2>4. ASSUME NEW i \in Ids \ {j} PROVE JobFollowed(f, i)
    <3>1. JobFollowed(e, i)
      BY DEF Ordered, Followed, FollowedBut
    <3> QED
      BY <2>2, <3>1 DEF JobFollowed, Live
  <2>5. Followed(f)
    BY <2>3, <2>4 DEF Followed, FollowedBut
  <2>6. Ranked(f)
    BY <2>2, AlikeRanked DEF Ordered, SameRow
  <2> QED
    BY <2>2, <2>5, <2>6 DEF Onward, Ordered, Final
<1> QED
  BY <1>1, <1>2

LEMMA FailProbeOnward ==
  ASSUME NEW e, Ordered(e), NEW j \in Ids, NEW f, f = FailProbe(e, j)
  PROVE  Onward(e, f)
<1>1. Sound(f) /\ f.jobs = e.jobs
  BY FailProbeKeeps DEF Ordered
<1>2. /\ f.tracked = e.tracked /\ f.inbox = e.inbox /\ f.nextId = e.nextId
      /\ \A i \in Ids \ {j} : f.probe[i] = e.probe[i]
      /\ (Live(f, j) <=> Live(e, j)) /\ (f.probe[j].st = "none" <=> e.probe[j].st = "none")
  <2> DEFINE st == CASE e.probe[j].st = "live" -> "failing" [] e.probe[j].st = "judged" -> "judgedFailing"
                     [] OTHER -> e.probe[j].st
  <2>1. f = [e EXCEPT !.probe = [e.probe EXCEPT ![j] = [e.probe[j] EXCEPT !.st = st]]]
    BY DEF FailProbe, Ordered, Sound, Engine
  <2>2. /\ st \in {"live", "failing"} <=> e.probe[j].st \in {"live", "failing"}
        /\ st = "none" <=> e.probe[j].st = "none"
    OBVIOUS
  <2> HIDE DEF st
  <2>3. e \in Engine /\ e.probe[j] \in ProbeRecord
    BY DEF Ordered, Sound, Engine
  <2>4. f.probe[j].st = st
    BY <2>1, <2>3 DEF Engine, ProbeRecord
  <2> QED
    BY <2>1, <2>2, <2>3, <2>4 DEF Engine, Live
<1>3. ASSUME NEW i \in Ids PROVE JobFollowed(f, i)
  <2>1. JobFollowed(e, i)
    BY DEF Ordered, Followed, FollowedBut
  <2>2. (Live(f, i) <=> Live(e, i)) /\ (f.probe[i].st = "none" <=> e.probe[i].st = "none")
    BY <1>2 DEF Live
  <2> QED
    BY <1>1, <1>2, <2>1, <2>2 DEF JobFollowed
<1>4. Ranked(f)
  BY <1>1, AlikeRanked DEF Ordered, SameRow
<1> QED
  BY <1>1, <1>3, <1>4 DEF Onward, Ordered, Final, Followed, FollowedBut

-----------------------------------------------------------------------------
(* JobStore: create() is called when no job of the path is active *)

LEMMA ActiveFacts ==
  ASSUME NEW e, Sound(e), NEW k \in Keys
  PROVE  /\ FindActiveByKey(e, k) = 0 <=> \A i \in Ids : e.jobs[i].key = k => ~IsActive(e, i)
         /\ FindActiveByKey(e, k) # 0 => /\ Present(e, FindActiveByKey(e, k))
                                         /\ IsActive(e, FindActiveByKey(e, k))
                                         /\ e.jobs[FindActiveByKey(e, k)].key = k
<1> DEFINE S == OfKey(e, k) \cap Active(e)
<1>1. S \subseteq Ids /\ \A i \in Ids : i \in S <=> e.jobs[i].key = k /\ IsActive(e, i)
  BY DEF OfKey, Active, IsActive
<1>2. FindActiveByKey(e, k) = Best(e, S)
  BY DEF FindActiveByKey
<1> HIDE DEF S
<1>3. (Best(e, S) = 0 <=> S = {}) /\ (S # {} => Best(e, S) \in S)
  BY <1>1, BestIsMember
<1> QED
  BY <1>1, <1>2, <1>3 DEF Present, IsActive

LEMMA CreateOnward ==
  ASSUME NEW e, Ordered(e), e.nextId \in Ids, NEW k \in Keys, NEW source \in Sources,
         FindActiveByKey(e, k) = 0, NEW f, f = Create(e, k, source)
  PROVE  /\ Onward(e, f) /\ Present(f, e.nextId) /\ f.jobs[e.nextId].state = "Discovered"
         /\ e.nextId \notin f.tracked
<1> DEFINE previous == FindByKey(e, k)
           gen == IF previous = 0 THEN 1 ELSE e.jobs[previous].gen + 1
           r == [NoJob EXCEPT !.key = k, !.gen = gen, !.state = "Discovered", !.source = source]
           j == e.nextId
           t == [e.jobs EXCEPT ![j] = r]
           n == j + 1
<1>1. Sound(e) /\ e \in Engine /\ Followed(e) /\ Ranked(e) /\ JobSound(e, j) /\ JobFollowed(e, j)
  BY DEF Ordered, Sound, Followed, FollowedBut
<1>2. Sound(f) /\ Present(f, j) /\ f.jobs[j].state = "Discovered"
  BY <1>1, CreateMakes
<1>3. f = [e EXCEPT !.jobs = t, !.nextId = n]
  BY <1>1 DEF Create, Engine
<1>4. r.key = k /\ r.gen = gen
  BY DEF NoJob
<1>5. \A i \in OfKey(e, k) : e.jobs[i].gen < gen /\ e.jobs[i].gen \in Nat /\ gen \in Nat
  <2> SUFFICES ASSUME NEW i \in OfKey(e, k)
               PROVE  e.jobs[i].gen < gen /\ e.jobs[i].gen \in Nat /\ gen \in Nat
    OBVIOUS
  <2>1. OfKey(e, k) \subseteq Ids /\ OfKey(e, k) # {}
    BY DEF OfKey
  <2>2. previous \in OfKey(e, k) /\ previous # 0
    BY <1>1, <2>1, BestIsMember DEF FindByKey
  <2>3. \A m \in OfKey(e, k) \ {previous} : Outranks(e, previous, m)
    BY <1>1, <2>1, BestIsMember DEF FindByKey
  <2> HIDE DEF previous
  <2>4. e.jobs[previous] \in JobRecord /\ e.jobs[i] \in JobRecord
    BY <1>1, <2>1, <2>2 DEF Engine
  <2>5. e.jobs[previous].gen \in Nat /\ e.jobs[i].gen \in Nat
    BY <2>4 DEF JobRecord
  <2>6. e.jobs[i].gen <= e.jobs[previous].gen
    BY <2>3, <2>5 DEF Outranks
  <2> QED
    BY <2>2, <2>5, <2>6
<1>6. \A i \in Ids : e.jobs[i].key = k => ~IsActive(e, i)
  BY <1>1, ActiveFacts
<1>7. e.jobs[j].state = Absent /\ j \in Nat /\ MaxJobs \in Nat
  BY <1>1, BoundsAssumption DEF JobSound, Ids
<1> HIDE DEF gen, r
<1>8. t[j] = r /\ \A i \in Ids \ {j} : t[i] = e.jobs[i]
  BY <1>1 DEF Engine
<1> HIDE DEF t, n
<1>9. f.jobs = t /\ f.nextId = n /\ f.tracked = e.tracked /\ f.probe = e.probe /\ f.inbox = e.inbox
  BY <1>1, <1>3 DEF Engine
<1>10. e.jobs[j].state \notin Waiting /\ j \notin e.tracked /\ f.jobs[j].state \in Waiting
  BY <1>1, <1>2, <1>7 DEF JobFollowed, Waiting, Absent
<1>11. JobFollowed(f, j)
  <2>1. e.probe[j].st = "none" /\ ~Told(e.inbox, j)
    BY <1>1, <1>7 DEF JobFollowed
  <2>2. OnlyFails(e.inbox, j) /\ OneReady(e.inbox, j)
    BY <2>1 DEF Told, OnlyFails, OneReady
  <2> QED
    BY <1>9, <1>10, <2>1, <2>2 DEF JobFollowed, Live
<1>12. ASSUME NEW i \in Ids \ {j} PROVE JobFollowed(f, i)
  <2>1. JobFollowed(e, i) /\ f.jobs[i] = e.jobs[i]
    BY <1>1, <1>8, <1>9 DEF Followed, FollowedBut
  <2>2. i >= f.nextId => i >= e.nextId
    BY <1>7, <1>9 DEF n, Ids
  <2> QED
    BY <1>9, <2>1, <2>2 DEF JobFollowed, Live
<1>13. Followed(f)
  BY <1>11, <1>12 DEF Followed, FollowedBut
<1>14. Ranked(f)
  <2> SUFFICES ASSUME NEW i \in Ids, NEW m \in Ids, IsActive(f, i), i # m,
                      f.jobs[i].key = f.jobs[m].key
               PROVE  Outranks(f, i, m)
    BY DEF Ranked
  <2>1. CASE i = j
    <3>1. f.jobs[i] = r /\ f.jobs[m] = e.jobs[m]
      BY <1>8, <1>9, <2>1
    <3>2. m \in OfKey(e, k)
      BY <1>4, <3>1 DEF OfKey
    <3> QED
      BY <1>4, <1>5, <3>1, <3>2 DEF Outranks
  <2>2. CASE i # j /\ m = j
    <3>1. f.jobs[m] = r /\ f.jobs[i] = e.jobs[i]
      BY <1>8, <1>9, <2>2
    <3> QED
      BY <1>4, <1>6, <3>1 DEF IsActive
  <2>3. CASE i # j /\ m # j
    <3>1. f.jobs[m] = e.jobs[m] /\ f.jobs[i] = e.jobs[i]
      BY <1>8, <1>9, <2>3
    <3> QED
      BY <1>1, <3>1 DEF IsActive, Ranked, Outranks
  <2> QED
    BY <2>1, <2>2, <2>3
<1>15. Final(e, f)
  BY <1>7, <1>8, <1>9 DEF Final, Terminal, Absent
<1> QED
  BY <1>2, <1>9, <1>10, <1>13, <1>14, <1>15 DEF Onward, Ordered

LEMMA EnsureOnward ==
  ASSUME NEW e, Ordered(e), e.nextId \in Ids, NEW k \in Keys, NEW source \in Sources,
         NEW f, f = Ensure(e, k, source), NEW j, j = EnsuredId(e, k)
  PROVE  /\ Onward(e, f) /\ Present(f, j) /\ IsActive(f, j)
         /\ FindActiveByKey(e, k) = 0 => f.jobs[j].state = "Discovered" /\ j \notin f.tracked
<1>1. CASE FindActiveByKey(e, k) # 0
  <2>1. f = e /\ j = FindActiveByKey(e, k)
    BY <1>1 DEF Ensure, EnsuredId
  <2> QED
    BY <1>1, <2>1, ActiveFacts, OnwardItself DEF Ordered
<1>2. CASE FindActiveByKey(e, k) = 0
  <2>1. f = Create(e, k, source) /\ j = e.nextId
    BY <1>2 DEF Ensure, EnsuredId
  <2> QED
    BY <1>2, <2>1, CreateOnward DEF IsActive, Terminal, Absent
<1> QED
  BY <1>1, <1>2

-----------------------------------------------------------------------------
(* onReady *)

LEMMA RowAlike ==
  ASSUME NEW e, Sound(e), NEW j, Present(e, j), NEW f,
         \E r \in JobRecord : /\ f = [e EXCEPT !.jobs = [e.jobs EXCEPT ![j] = r]]
                              /\ r.state = e.jobs[j].state /\ r.key = e.jobs[j].key
                              /\ r.gen = e.jobs[j].gen
  PROVE  Alike(e, f)
BY DEF Sound, Engine, Present, Alike, SameBooks, SameRow

LEMMA LearnAlike ==
  ASSUME NEW e, Sound(e), NEW j, Present(e, j), NEW f, f = Learn(e, j) \/ f = Correct(e, j)
  PROVE  Sound(f) /\ Alike(e, f)
<1>1. Sound(f)
  BY LearnQuiet, CorrectQuiet
<1>2. \E r \in JobRecord : /\ f = [e EXCEPT !.jobs = [e.jobs EXCEPT ![j] = r]]
                           /\ r.state = e.jobs[j].state /\ r.key = e.jobs[j].key
                           /\ r.gen = e.jobs[j].gen
  <2>1. j \in Ids /\ e \in Engine /\ e.jobs[j] \in JobRecord /\ e.jobs[j].key \in Keys
    BY KeyOfPresent
  <2>2. CASE f = Learn(e, j)
    <3> DEFINE t == IF e.jobs[j].transfer = "unknown" THEN Colour[e.jobs[j].key]
                                                      ELSE e.jobs[j].transfer
               r == [e.jobs[j] EXCEPT !.transfer = t]
    <3>1. t \in {"unknown", "hdr", "sdr"}
      BY <2>1, ColourAssumption DEF JobRecord
    <3>2. f = [e EXCEPT !.jobs = [e.jobs EXCEPT ![j] = r]]
      BY <2>1, <2>2 DEF Learn, Engine
    <3> HIDE DEF t
    <3>3. r \in JobRecord /\ r.state = e.jobs[j].state /\ r.key = e.jobs[j].key
          /\ r.gen = e.jobs[j].gen
      BY <2>1, <3>1 DEF JobRecord
    <3> HIDE DEF r
    <3> QED
      BY <3>2, <3>3
  <2>3. CASE f = Correct(e, j)
    <3> DEFINE t == Colour[e.jobs[j].key]
               r == [e.jobs[j] EXCEPT !.transfer = t, !.byUser = FALSE]
    <3>1. t \in {"unknown", "hdr", "sdr"}
      BY <2>1, ColourAssumption
    <3>2. f = [e EXCEPT !.jobs = [e.jobs EXCEPT ![j] = r]]
      BY <2>1, <2>3 DEF Correct, Engine
    <3> HIDE DEF t
    <3>3. r \in JobRecord /\ r.state = e.jobs[j].state /\ r.key = e.jobs[j].key
          /\ r.gen = e.jobs[j].gen
      BY <2>1, <3>1 DEF JobRecord
    <3> HIDE DEF r
    <3> QED
      BY <3>2, <3>3
  <2> QED
    BY <2>2, <2>3
<1> QED
  BY <1>1, <1>2, RowAlike

LEMMA FieldAlike ==
  ASSUME NEW e, Sound(e), NEW f, f.jobs = e.jobs, f.tracked = e.tracked, f.probe = e.probe,
         f.inbox = e.inbox, f.nextId = e.nextId
  PROVE  Alike(e, f)
BY DEF Alike, SameBooks, SameRow

LEMMA LessForcedAlike ==
  ASSUME NEW e, Sound(e), NEW j, NEW f, f = [e EXCEPT !.forced = @ \ {j}]
  PROVE  Sound(f) /\ Alike(e, f) /\ f.jobs = e.jobs
<1> DEFINE d == e.forced \ {j}
<1>1. f = [e EXCEPT !.forced = d] /\ e \in Engine
  BY DEF Sound, Engine
<1>2. Sound(f) /\ f.jobs = e.jobs
  BY <1>1, LessForced
<1> HIDE DEF d
<1>3. f.tracked = e.tracked /\ f.probe = e.probe /\ f.inbox = e.inbox /\ f.nextId = e.nextId
  BY <1>1 DEF Engine
<1> QED
  BY <1>2, <1>3, FieldAlike

LEMMA DispatchOnward ==
  ASSUME NEW e, NEW j, Judged(e, j), e.jobs[j].state \notin InMux, e.jobs[j] \notin Holding,
         NEW f, f = Dispatch(e, j)
  PROVE  Onward(e, f)
<1>1. /\ {"mkvmerge", "source", ""} \subseteq Reasons
      /\ {"Held", "Muxing"} \subseteq States \ (Waiting \cup {Absent})
  BY DEF Reasons, States, InMux, Waiting, Absent
<1>2. CASE f = Transition(e, j, "Held", "mkvmerge") \/ f = Transition(e, j, "Held", "source")
  BY <1>1, <1>2, JudgedTransition
<1>3. CASE f = [Transition(e, j, "Muxing", "") EXCEPT !.queue = Append(@, [job |-> j, key |-> e.jobs[j].key])]
  <2> DEFINE t == Transition(e, j, "Muxing", "")
             q == Append(t.queue, [job |-> j, key |-> e.jobs[j].key])
  <2>1. Onward(e, t)
    BY <1>1, JudgedTransition
  <2>2. Sound(f)
    BY DispatchKeeps DEF Judged, Settled
  <2>3. f = [t EXCEPT !.queue = q] /\ t \in Engine
    BY <1>3, <2>1 DEF Onward, Ordered, Sound
  <2> HIDE DEF t, q
  <2>4. /\ f.jobs = t.jobs /\ f.tracked = t.tracked /\ f.probe = t.probe
        /\ f.inbox = t.inbox /\ f.nextId = t.nextId
    BY <2>3 DEF Engine
  <2>5. Alike(t, f)
    BY <2>1, <2>4, FieldAlike DEF Onward, Ordered
  <2> QED
    BY <2>1, <2>2, <2>5, AlikeOnward, OnwardTwice DEF Onward
<1> QED
  BY <1>2, <1>3 DEF Dispatch

LEMMA PoliciesOnward ==
  ASSUME NEW e, NEW j, Judged(e, j), e.jobs[j].state \notin InMux,
         NEW S, j \in S => e.jobs[j] \notin Holding, NEW f, f = Policies(e, j, j \in S)
  PROVE  Onward(e, f)
<1>1. /\ {"sdr", "unknown", "waiting"} \subseteq Reasons
      /\ {"Held", "SkippedSdr"} \subseteq States \ (Waiting \cup {Absent})
  BY DEF Reasons, States, Terminal, Waiting, Absent
<1>2. \/ f = Transition(e, j, "SkippedSdr", "sdr") \/ f = Transition(e, j, "Held", "sdr")
      \/ f = Transition(e, j, "Held", "unknown") \/ f = Transition(e, j, "Held", "waiting")
      \/ /\ f = Dispatch(e, j)
         /\ ~(j \notin S /\ (e.jobs[j].hold \/ ~e.auto \/ e.jobs[j].source \notin AutoSources))
  BY DEF Policies
<1>3. CASE \/ f = Transition(e, j, "SkippedSdr", "sdr") \/ f = Transition(e, j, "Held", "sdr")
           \/ f = Transition(e, j, "Held", "unknown") \/ f = Transition(e, j, "Held", "waiting")
  BY <1>1, <1>3, JudgedTransition
<1>4. CASE f = Dispatch(e, j) /\ ~(j \notin S /\ (e.jobs[j].hold \/ ~e.auto
                                                  \/ e.jobs[j].source \notin AutoSources))
  <2>1. e.jobs[j] \notin Holding
    BY <1>4 DEF Holding
  <2> QED
    BY <1>4, <2>1, DispatchOnward
<1> QED
  BY <1>2, <1>3, <1>4

LEMMA OnReadyOnward ==
  ASSUME NEW e, NEW j, Judged(e, j), e.jobs[j].state \notin InMux, NEW f, f \in OnReady(e, j)
  PROVE  Onward(e, f)
<1> DEFINE a == [e EXCEPT !.forced = @ \ {j}]
           b == Transition(a, j, "Ready", "")
<1>1. /\ "Ready" \in States \ (Waiting \cup {Absent}) /\ "" \in Reasons /\ "Ready" \notin Terminal
      /\ "Ready" \notin InMux /\ "Ready" \in States \ {Absent}
  BY DEF Reasons, States, InMux, Terminal, Waiting, Absent
<1>2. Sound(e) /\ Present(e, j) /\ j \in Ids
  BY DEF Judged, Settled, Present
<1>3. PICK r : r \in {b, Learn(b, j)} /\ f = Policies(r, j, j \in e.forced)
  BY DEF OnReady
<1>4. Judged(a, j) /\ Final(e, a) /\ a.jobs = e.jobs
  BY <1>2, LessForcedAlike, AlikeJudged
<1>5. b = Transition(a, j, "Ready", "")
  OBVIOUS
<1> HIDE DEF a, b
<1>6. Onward(a, b) /\ Judged(b, j) /\ b.jobs[j].state = "Ready"
  <2> DEFINE s == "Ready"
             w == ""
  <2>1. /\ b = Transition(a, j, s, w) /\ s \in States \ (Waiting \cup {Absent}) /\ w \in Reasons
        /\ s \notin Terminal
    BY <1>1, <1>5
  <2> HIDE DEF s, w
  <2>2. Onward(a, b) /\ Judged(b, j) /\ b.jobs[j].state = s
    BY <1>4, <2>1, JudgedTransition
  <2> QED
    BY <2>2 DEF s
<1>7. b.jobs[j] \in Holding => a.jobs[j] \in Holding
  <2>1. Moved(a, b, j, "Ready")
    BY <1>1, <1>4, <1>5, TransitionKeeps DEF Judged, Settled
  <2> QED
    BY <2>1 DEF Moved
<1>8. /\ Judged(r, j) /\ Final(b, r) /\ r.jobs[j].state = "Ready"
      /\ r.jobs[j] \in Holding => b.jobs[j] \in Holding
  <2>1. CASE r = b
    BY <1>6, <2>1 DEF Final
  <2>2. CASE r = Learn(b, j)
    <3>1. Sound(b) /\ Present(b, j)
      BY <1>6 DEF Judged, Settled
    <3>2. Sound(r) /\ Alike(b, r)
      BY <2>2, <3>1, LearnAlike
    <3>3. r.jobs[j].state = b.jobs[j].state /\ (r.jobs[j] \in Holding => b.jobs[j] \in Holding)
      BY <2>2, <3>1, LearnQuiet
    <3> QED
      BY <1>6, <3>2, <3>3, AlikeJudged
  <2> QED
    BY <1>3, <2>1, <2>2
<1>9. j \in e.forced => r.jobs[j] \notin Holding
  <2>1. JobSound(e, j)
    BY <1>2 DEF Sound
  <2> QED
    BY <1>4, <1>7, <1>8, <2>1 DEF JobSound
<1>10. Onward(r, f)
  BY <1>1, <1>3, <1>8, <1>9, PoliciesOnward
<1> QED
  BY <1>4, <1>6, <1>8, <1>10 DEF Onward, Final

-----------------------------------------------------------------------------
(* Completion *)

LEMMA RecycleStatusAlike ==
  ASSUME NEW e, Sound(e), NEW j, Present(e, j), NEW f,
         NEW s \in {"NotRequested", "Pending", "Recycled", "KeptSourceChanged", "KeptNoBin",
                    "KeptDisabled", "Failed"},
         f = [e EXCEPT !.jobs[j].recycle = s]
  PROVE  Sound(f) /\ Alike(e, f)
<1>1. j \in Ids /\ e \in Engine /\ e.jobs[j] \in JobRecord
  BY KeyOfPresent
<1> DEFINE r == [e.jobs[j] EXCEPT !.recycle = s]
<1>2. f = [e EXCEPT !.jobs = [e.jobs EXCEPT ![j] = r]]
  BY <1>1 DEF Engine
<1>3. /\ r \in JobRecord /\ r.state = e.jobs[j].state /\ r.key = e.jobs[j].key
      /\ r.gen = e.jobs[j].gen
  BY <1>1 DEF JobRecord
<1> HIDE DEF r
<1>4. Sound(f)
  BY RecycleQuiet
<1> QED
  BY <1>2, <1>3, <1>4, RowAlike

LEMMA RecycleJobAlike ==
  ASSUME NEW e, Sound(e), NEW j, Present(e, j), NEW f, f \in RecycleJob(e, j)
  PROVE  Sound(f) /\ Alike(e, f)
<1> DEFINE k == e.jobs[j].key
           g == [e EXCEPT !.jobs[j].recycle = "Recycled"]
<1>1. \/ f = e
      \/ f = [e EXCEPT !.jobs[j].recycle = "KeptSourceChanged"]
      \/ f = [e EXCEPT !.jobs[j].recycle = "KeptNoBin"]
      \/ f = [e EXCEPT !.jobs[j].recycle = "Failed"]
      \/ f = [e EXCEPT !.jobs[j].recycle = "Recycled", !.file[k] = NoFile, !.change[k] = "Removed"]
  BY DEF RecycleJob
<1>2. Sound(f)
  BY RecycleJobKeeps
<1>3. CASE f = e
  BY <1>2, <1>3 DEF Alike, SameBooks, SameRow
<1>4. CASE f = [e EXCEPT !.jobs[j].recycle = "KeptSourceChanged"]
  BY <1>4, RecycleStatusAlike
<1>5. CASE f = [e EXCEPT !.jobs[j].recycle = "KeptNoBin"]
  BY <1>5, RecycleStatusAlike
<1>6. CASE f = [e EXCEPT !.jobs[j].recycle = "Failed"]
  BY <1>6, RecycleStatusAlike
<1>7. CASE f = [e EXCEPT !.jobs[j].recycle = "Recycled", !.file[k] = NoFile, !.change[k] = "Removed"]
  <2>1. Sound(g) /\ Alike(e, g)
    BY RecycleStatusAlike
  <2>2. /\ f.jobs = g.jobs /\ f.tracked = g.tracked /\ f.probe = g.probe
        /\ f.inbox = g.inbox /\ f.nextId = g.nextId
    BY <1>7 DEF Sound, Engine
  <2> QED
    BY <1>2, <2>1, <2>2 DEF Alike, SameBooks, SameRow
<1> QED
  BY <1>1, <1>3, <1>4, <1>5, <1>6, <1>7

LEMMA FinishDoneOnward ==
  ASSUME NEW e, NEW j, Judged(e, j), NEW f, f \in FinishDone(e, j)
  PROVE  Onward(e, f)
<1> DEFINE d == Transition(e, j, "Done", "")
           g == [d EXCEPT !.jobs[j].recycle = "Pending"]
<1>1. "Done" \in States \ (Waiting \cup {Absent}) /\ "" \in Reasons
  BY DEF Reasons, States, Terminal, Waiting, Absent
<1>2. \/ f = [d EXCEPT !.jobs[j].recycle = "KeptDisabled"]
      \/ f = g
      \/ f \in RecycleJob(g, j)
  BY DEF FinishDone
<1>3. Onward(e, d) /\ d.jobs[j].state = "Done"
  <2> DEFINE s == "Done"
             w == ""
  <2>1. d = Transition(e, j, s, w) /\ s \in States \ (Waiting \cup {Absent}) /\ w \in Reasons
    BY <1>1
  <2> HIDE DEF d, s, w
  <2>2. Onward(e, d) /\ d.jobs[j].state = s
    BY <2>1, JudgedTransition
  <2> QED
    BY <2>2 DEF s
<1>4. Sound(d) /\ Present(d, j) /\ Ordered(d)
  BY <1>3 DEF Onward, Ordered, Present, Judged, Settled, Absent
<1> HIDE DEF d
<1>5. Sound(g) /\ Alike(d, g)
  BY <1>4, RecycleStatusAlike
<1>6. Onward(d, g) /\ Present(g, j)
  BY <1>4, <1>5, AlikeOnward DEF Alike, SameRow, Present
<1>7. CASE f = [d EXCEPT !.jobs[j].recycle = "KeptDisabled"]
  <2>1. Sound(f) /\ Alike(d, f)
    BY <1>4, <1>7, RecycleStatusAlike
  <2> QED
    BY <1>3, <1>4, <2>1, AlikeOnward, OnwardTwice
<1>8. CASE f = g
  BY <1>3, <1>6, <1>8, OnwardTwice
<1>9. CASE f \in RecycleJob(g, j)
  <2> HIDE DEF g
  <2>1. Sound(f) /\ Alike(g, f)
    BY <1>5, <1>6, <1>9, RecycleJobAlike
  <2>2. Onward(g, f)
    BY <1>6, <2>1, AlikeOnward DEF Onward
  <2> QED
    BY <1>3, <1>6, <2>2, OnwardTwice
<1> QED
  BY <1>2, <1>7, <1>8, <1>9

-----------------------------------------------------------------------------
(* The triggers *)

\* No two exports differ only in their extension.
Distinct == \A k, l \in Keys : Guess[k] = Guess[l] => k = l

LEMMA LogSuccessOnward ==
  ASSUME NEW e, Ordered(e), e.nextId \in Ids, NEW k \in Keys, NEW f, f \in LogSuccess(e, k)
  PROVE  Onward(e, f)
<1> DEFINE j == EnsuredId(e, k)
           made == Ensure(e, k, "log")
           learned == Learn(made, j)
<1>1. f = e \/ f = ScheduleIfWaiting(learned, j)
  BY DEF LogSuccess
<1>2. Onward(e, made) /\ Present(made, j)
  BY EnsureOnward DEF Sources
<1> HIDE DEF made, j
<1>3. Sound(learned) /\ Alike(made, learned)
  BY <1>2, LearnAlike DEF Onward, Ordered
<1>4. Onward(made, learned) /\ Present(learned, j)
  BY <1>2, <1>3, AlikeOnward DEF Onward, Present, Alike, SameRow
<1> HIDE DEF learned
<1>5. CASE f = e
  BY <1>5, OnwardItself
<1>6. CASE f = ScheduleIfWaiting(learned, j)
  <2>1. Onward(learned, f)
    BY <1>4, <1>6, ScheduleIfWaitingOnward DEF Onward
  <2> QED
    BY <1>2, <1>4, <2>1, OnwardTwice
<1> QED
  BY <1>1, <1>5, <1>6

LEMMA ReportFailureOnward ==
  ASSUME NEW e, Ordered(e), NEW j, Present(e, j), IsActive(e, j), NEW f, f = ReportFailure(e, j)
  PROVE  Onward(e, f)
<1>1. CASE e.jobs[j].state \in InMux
  BY <1>1, OnwardItself DEF ReportFailure
<1>2. CASE e.jobs[j].state \notin InMux /\ j \in e.tracked
  BY <1>2, FailProbeOnward DEF ReportFailure, Present
<1>3. CASE e.jobs[j].state \notin InMux /\ j \notin e.tracked
  <2>1. f = Transition(e, j, "Failed", "reported")
    BY <1>3 DEF ReportFailure
  <2>2. Judged(e, j)
    BY <1>3, OrderedJudged DEF IsActive
  <2>3. "Failed" \in States \ (Waiting \cup {Absent}) /\ "reported" \in Reasons
    BY DEF States, Terminal, Waiting, Absent, Reasons
  <2> QED
    BY <2>1, <2>2, <2>3, JudgedTransition
<1> QED
  BY <1>1, <1>2, <1>3

LEMMA LogFailedOnward ==
  ASSUME NEW e, Ordered(e), NEW k \in Keys, NEW f, f \in LogFailed(e, k)
  PROVE  Onward(e, f)
<1>1. CASE FindActiveByKey(e, k) = 0
  BY <1>1, OnwardItself DEF LogFailed
<1>2. CASE FindActiveByKey(e, k) # 0
  BY <1>2, ActiveFacts, ReportFailureOnward DEF LogFailed, Ordered
<1> QED
  BY <1>1, <1>2

\* When the newest job of a path is not active, none of the path is.
LEMMA NewestSpeaks ==
  ASSUME NEW e, Ordered(e), NEW k \in Keys,
         FindByKey(e, k) = 0 \/ FindByKey(e, k) \notin Active(e)
  PROVE  FindActiveByKey(e, k) = 0
<1> SUFFICES ASSUME NEW i \in Ids, e.jobs[i].key = k, IsActive(e, i) PROVE FALSE
  BY ActiveFacts DEF Ordered
<1> DEFINE b == FindByKey(e, k)
<1>1. OfKey(e, k) \subseteq Ids /\ i \in OfKey(e, k)
  BY DEF OfKey
<1>2. b # 0 /\ b \in OfKey(e, k) /\ \A m \in OfKey(e, k) \ {b} : Outranks(e, b, m)
  BY <1>1, BestIsMember DEF FindByKey, Ordered
<1> HIDE DEF b
<1>3. b # i /\ b \in Ids /\ e.jobs[b].key = k
  BY <1>1, <1>2 DEF Active, IsActive, OfKey, b
<1>4. Outranks(e, b, i) /\ Outranks(e, i, b)
  BY <1>1, <1>2, <1>3 DEF Ordered, Ranked
<1>5. e.jobs[i].gen \in Nat /\ e.jobs[b].gen \in Nat /\ i \in Nat /\ b \in Nat
  <2>1. e.jobs[i] \in JobRecord /\ e.jobs[b] \in JobRecord
    BY <1>3 DEF Ordered, Sound, Engine
  <2> QED
    BY <1>3, <2>1, BoundsAssumption DEF JobRecord, Ids
<1> QED
  BY <1>4, <1>5 DEF Outranks

LEMMA CatchUpOnward ==
  ASSUME NEW e, Ordered(e), e.nextId \in Ids, NEW k \in Keys, NEW newer, NEW f,
         f \in CatchUp(e, k, newer)
  PROVE  Onward(e, f)
<1> DEFINE j == e.nextId
           made == Create(e, k, "catchUp")
           learned == Learn(made, j)
<1>1. \/ f = e
      \/ /\ f = Transition(learned, j, "Held", "catchUp")
         /\ FindByKey(e, k) = 0 \/ FindByKey(e, k) \notin Active(e)
  BY DEF CatchUp
<1>2. CASE f = e
  BY <1>2, OnwardItself
<1>3. CASE /\ f = Transition(learned, j, "Held", "catchUp")
           /\ FindByKey(e, k) = 0 \/ FindByKey(e, k) \notin Active(e)
  <2>1. FindActiveByKey(e, k) = 0 /\ "catchUp" \in Sources
    BY <1>3, NewestSpeaks DEF Sources
  <2>2. /\ Onward(e, made) /\ Present(made, j) /\ made.jobs[j].state = "Discovered"
        /\ j \notin made.tracked
    BY <2>1, CreateOnward
  <2> HIDE DEF made, j
  <2>3. Sound(learned) /\ Alike(made, learned)
    BY <2>2, LearnAlike DEF Onward, Ordered
  <2>4. Judged(made, j)
    BY <2>2, OrderedJudged DEF Onward, Terminal
  <2>5. Judged(learned, j) /\ Final(made, learned)
    BY <2>3, <2>4, AlikeJudged
  <2> HIDE DEF learned
  <2>6. "Held" \in States \ (Waiting \cup {Absent}) /\ "catchUp" \in Reasons
    BY DEF States, Waiting, Absent, Reasons
  <2>7. Onward(learned, f)
    BY <1>3, <2>5, <2>6, JudgedTransition
  <2> QED
    BY <2>2, <2>5, <2>7 DEF Onward, Final
<1> QED
  BY <1>1, <1>2, <1>3

LEMMA CepStartedOnward ==
  ASSUME NEW e, Ordered(e), e.nextId \in Ids, NEW k \in Keys, NEW f, f \in CepStarted(e, k)
  PROVE  Onward(e, f)
<1> DEFINE j == EnsuredId(e, k)
           made == Ensure(e, k, "cep")
<1>1. f = IF made.jobs[j].state = "Discovered" THEN Transition(made, j, "Encoding", "") ELSE made
  BY DEF CepStarted
<1>2. Onward(e, made) /\ Present(made, j)
  BY EnsureOnward DEF Sources
<1> HIDE DEF made, j
<1>3. Onward(made, f)
  BY <1>1, <1>2, BegunOnward DEF Onward
<1> QED
  BY <1>2, <1>3, OnwardTwice

LEMMA CepCompleteOnward ==
  ASSUME NEW e, Ordered(e), e.nextId \in Ids, NEW k \in Keys, NEW ok, NEW f,
         f \in CepComplete(e, k, ok)
  PROVE  Onward(e, f)
<1> DEFINE j == EnsuredId(e, k)
           made == Ensure(e, k, "cep")
<1>1. f = ScheduleIfWaiting(made, j) \/ f = ReportFailure(made, j)
  BY DEF CepComplete
<1>2. Onward(e, made) /\ Present(made, j) /\ IsActive(made, j)
  BY EnsureOnward DEF Sources
<1> HIDE DEF made, j
<1>3. Onward(made, f)
  BY <1>1, <1>2, ScheduleIfWaitingOnward, ReportFailureOnward DEF Onward
<1> QED
  BY <1>2, <1>3, OnwardTwice

LEMMA OnSidecarOnward ==
  ASSUME NEW e, Ordered(e), e.nextId \in Ids, NEW ev, ev.key \in Keys, NEW f, f \in OnSidecar(e, ev)
  PROVE  Onward(e, f)
<1> DEFINE found == FindActiveByStem(e, ev.key)
           g == Guess[ev.key]
           made == IF found = 0 THEN Ensure(e, g, "folder") ELSE e
           j == IF found = 0 THEN EnsuredId(e, g) ELSE found
<1>1. f = IF made.jobs[j].state = "Discovered" THEN Transition(made, j, "Encoding", "") ELSE made
  BY DEF OnSidecar
<1>2. Onward(e, made) /\ Present(made, j)
  <2>1. CASE found = 0
    <3>1. g \in Keys /\ "folder" \in Sources
      BY KeysAssumption DEF Sources
    <3> HIDE DEF g
    <3>2. Onward(e, Ensure(e, g, "folder")) /\ Present(Ensure(e, g, "folder"), EnsuredId(e, g))
      BY <3>1, EnsureOnward
    <3> QED
      BY <2>1, <3>2
  <2>2. CASE found # 0
    <3>1. made = e /\ j = found
      BY <2>2
    <3>2. found \in Ids /\ e.jobs[found].state # Absent
      BY <2>2, FindFacts DEF Ordered
    <3> QED
      BY <3>1, <3>2, OnwardItself DEF Present
  <2> QED
    BY <2>1, <2>2
<1> HIDE DEF made, j
<1>3. Onward(made, f)
  BY <1>1, <1>2, BegunOnward DEF Onward
<1> QED
  BY <1>2, <1>3, OnwardTwice

LEMMA OutputRemovedOnward ==
  ASSUME NEW e, Ordered(e), NEW k \in Keys, NEW f, f \in OutputRemoved(e, k)
  PROVE  Onward(e, f)
<1> DEFINE j == FindActiveByKey(e, k)
<1>1. \/ f = e
      \/ /\ j # 0 /\ e.jobs[j].state \in Waiting /\ j \notin e.tracked
         /\ f = Transition(e, j, "Failed", "removed")
      \/ /\ j # 0 /\ e.jobs[j].state \in {"Ready", "Held"}
         /\ f = Transition(CancelProbe(e, j), j, "Failed", "source")
  BY DEF OutputRemoved
<1>2. /\ "Failed" \in States \ (Waiting \cup {Absent})
      /\ "removed" \in Reasons /\ "source" \in Reasons
  BY DEF States, Terminal, Waiting, Absent, Reasons
<1>3. j # 0 => Present(e, j) /\ e.jobs[j].state \notin Terminal
  BY ActiveFacts DEF Ordered, IsActive
<1> HIDE DEF j
<1>4. CASE f = e
  BY <1>4, OnwardItself
<1>5. CASE /\ j # 0 /\ e.jobs[j].state \in Waiting /\ j \notin e.tracked
           /\ f = Transition(e, j, "Failed", "removed")
  BY <1>2, <1>3, <1>5, OrderedJudged, JudgedTransition
<1>6. CASE /\ j # 0 /\ e.jobs[j].state \in {"Ready", "Held"}
           /\ f = Transition(CancelProbe(e, j), j, "Failed", "source")
  <2>1. j \notin e.tracked
    BY <1>3, <1>6 DEF Ordered, Followed, FollowedBut, JobFollowed, Present, Waiting
  <2>2. f = Transition(e, j, "Failed", "source")
    BY <1>6, <2>1 DEF CancelProbe
  <2> QED
    BY <1>2, <1>3, <1>6, <2>1, <2>2, OrderedJudged, JudgedTransition
<1> QED
  BY <1>1, <1>4, <1>5, <1>6

LEMMA UpgradeIdle ==
  ASSUME NEW e, Ordered(e), Distinct, NEW k \in Keys PROVE Upgrade(e, k) = e
<1> DEFINE j == FindActiveByStem(e, k)
           S == {i \in Active(e) : Guess[e.jobs[i].key] = Guess[k]}
<1> SUFFICES ASSUME j # 0, FindActiveByKey(e, k) = 0 PROVE FALSE
  BY DEF Upgrade
<1>1. S \subseteq Ids /\ j = Best(e, S)
  BY DEF Active, FindActiveByStem
<1> HIDE DEF S
<1>2. j \in S
  BY <1>1, BestIsMember DEF Ordered
<1>3. /\ j \in Ids /\ IsActive(e, j) /\ Present(e, j) /\ Guess[e.jobs[j].key] = Guess[k]
  BY <1>2 DEF S, Active, IsActive, Present
<1> HIDE DEF j
<1>4. e.jobs[j].key \in Keys
  BY <1>3, KeyOfPresent DEF Ordered
<1>5. e.jobs[j].key = k
  BY <1>3, <1>4 DEF Distinct
<1> QED
  BY <1>3, <1>5, ActiveFacts DEF Ordered

LEMMA OutputSeenOnward ==
  ASSUME NEW e, Ordered(e), Distinct, e.nextId \in Ids, NEW k \in Keys, NEW action, NEW scan,
         NEW f, f \in OutputSeen(e, k, action, scan)
  PROVE  Onward(e, f)
<1> DEFINE j == EnsuredId(e, k)
           made == Ensure(e, k, "folder")
<1>1. \/ f = e
      \/ FindActiveByKey(e, k) = 0 /\ f = Transition(made, j, "Held", "catchUp")
      \/ f = ScheduleIfWaiting(made, j)
  BY UpgradeIdle DEF OutputSeen
<1>2. /\ Onward(e, made) /\ Present(made, j)
      /\ FindActiveByKey(e, k) = 0 => made.jobs[j].state = "Discovered" /\ j \notin made.tracked
  BY EnsureOnward DEF Sources
<1> HIDE DEF made, j
<1>3. CASE f = e
  BY <1>3, OnwardItself
<1>4. CASE FindActiveByKey(e, k) = 0 /\ f = Transition(made, j, "Held", "catchUp")
  <2>1. "Held" \in States \ (Waiting \cup {Absent}) /\ "catchUp" \in Reasons
    BY DEF States, Waiting, Absent, Reasons
  <2>2. Judged(made, j)
    BY <1>2, <1>4, OrderedJudged DEF Onward, Terminal
  <2>3. Onward(made, f)
    BY <1>4, <2>1, <2>2, JudgedTransition
  <2> QED
    BY <1>2, <2>3, OnwardTwice
<1>5. CASE f = ScheduleIfWaiting(made, j)
  <2>1. Onward(made, f)
    BY <1>2, <1>5, ScheduleIfWaitingOnward DEF Onward
  <2> QED
    BY <1>2, <2>1, OnwardTwice
<1> QED
  BY <1>1, <1>3, <1>4, <1>5

-----------------------------------------------------------------------------
(* Verdicts and outcomes *)

LEMMA VerdictsTail ==
  ASSUME NEW s \in Seq(Event), s # <<>>, NEW j
  PROVE  /\ Told(Tail(s), j) => Told(s, j)
         /\ ~Verdict(Head(s), j) => (Told(s, j) => Told(Tail(s), j))
         /\ Verdict(Head(s), j) => Told(s, j)
         /\ OnlyFails(s, j) => OnlyFails(Tail(s), j)
         /\ OneReady(s, j) => OneReady(Tail(s), j)
         /\ OneReady(s, j) /\ Verdict(Head(s), j) => OnlyFails(Tail(s), j)
         /\ OnlyFails(s, j) /\ Verdict(Head(s), j) => Head(s).out = "Failed"
<1> DEFINE t == Tail(s)
<1>1. /\ Len(t) = Len(s) - 1 /\ \A i \in 1..Len(t) : t[i] = s[i + 1]
  BY HeadTailProperties
<1>2. Len(s) \in Nat \ {0} /\ Head(s) = s[1]
  BY LenProperties, EmptySeq
<1> HIDE DEF t
<1>3. Told(t, j) => Told(s, j)
  BY <1>1, <1>2 DEF Told
<1>4. ASSUME ~Verdict(Head(s), j), Told(s, j) PROVE Told(t, j)
  <2>1. PICK i \in 1..Len(s) : Verdict(s[i], j)
    BY <1>4 DEF Told
  <2>2. i - 1 \in 1..Len(t) /\ t[i - 1] = s[i]
    BY <1>1, <1>2, <1>4, <2>1
  <2> QED
    BY <2>1, <2>2 DEF Told
<1>5. Verdict(Head(s), j) => Told(s, j)
  BY <1>2 DEF Told
<1>6. OnlyFails(s, j) => OnlyFails(t, j)
  BY <1>1, <1>2 DEF OnlyFails
<1>7. ASSUME OneReady(s, j) PROVE OneReady(t, j)
  <2> SUFFICES ASSUME NEW i \in 1..Len(t), NEW k \in 1..Len(t), i < k, Verdict(t[i], j), Verdict(t[k], j)
               PROVE  t[k].out = "Failed"
    BY DEF OneReady
  <2>1. /\ i + 1 \in 1..Len(s) /\ k + 1 \in 1..Len(s) /\ i + 1 < k + 1
        /\ t[i] = s[i + 1] /\ t[k] = s[k + 1]
    BY <1>1, <1>2
  <2> QED
    BY <1>7, <2>1 DEF OneReady
<1>8. ASSUME OneReady(s, j), Verdict(Head(s), j) PROVE OnlyFails(t, j)
  <2> SUFFICES ASSUME NEW i \in 1..Len(t), Verdict(t[i], j) PROVE t[i].out = "Failed"
    BY DEF OnlyFails
  <2>1. 1 \in 1..Len(s) /\ i + 1 \in 1..Len(s) /\ 1 < i + 1 /\ t[i] = s[i + 1]
    BY <1>1, <1>2
  <2> QED
    BY <1>2, <1>8, <2>1 DEF OneReady
<1>9. OnlyFails(s, j) /\ Verdict(Head(s), j) => Head(s).out = "Failed"
  BY <1>2 DEF OnlyFails
<1> QED
  BY <1>3, <1>4, <1>5, <1>6, <1>7, <1>8, <1>9 DEF t

\* The next event is taken out of the queue.  After a verdict its job is not
\* followed until the event is applied.
LEMMA PoppedFollowed ==
  ASSUME NEW e, Ordered(e), e.inbox # <<>>, NEW d, d = [e EXCEPT !.inbox = Tail(@)], Sound(d)
  PROVE  /\ d.jobs = e.jobs /\ d.tracked = e.tracked /\ d.probe = e.probe /\ d.nextId = e.nextId
         /\ Ranked(d)
         /\ \A i \in Ids : ~Verdict(Head(e.inbox), i) => JobFollowed(d, i)
         /\ \A i \in Ids : Verdict(Head(e.inbox), i) =>
               /\ OnlyFails(d.inbox, i) \/ ~Present(e, i)
               /\ ~Live(d, i) \/ ~Present(e, i)
               /\ ~(i >= d.nextId)
               /\ Present(e, i) /\ i \notin e.tracked => Head(e.inbox).out = "Failed"
<1>1. e \in Engine /\ e.inbox \in Seq(Event) /\ \A i \in Ids : JobFollowed(e, i)
  BY DEF Ordered, Sound, Engine, Followed, FollowedBut
<1>2. /\ d.jobs = e.jobs /\ d.tracked = e.tracked /\ d.probe = e.probe /\ d.nextId = e.nextId
      /\ d.inbox = Tail(e.inbox)
  BY <1>1 DEF Engine
<1>3. Ranked(d)
  BY <1>2, AlikeRanked DEF Ordered, SameRow
<1>4. ASSUME NEW i \in Ids, ~Verdict(Head(e.inbox), i) PROVE JobFollowed(d, i)
  <2>1. JobFollowed(e, i)
    BY <1>1
  <2>2. /\ Told(d.inbox, i) <=> Told(e.inbox, i)
        /\ OnlyFails(e.inbox, i) => OnlyFails(d.inbox, i)
        /\ OneReady(e.inbox, i) => OneReady(d.inbox, i)
    BY <1>1, <1>2, <1>4, VerdictsTail
  <2> QED
    BY <1>2, <2>1, <2>2 DEF JobFollowed, Live
<1>5. ASSUME NEW i \in Ids, Verdict(Head(e.inbox), i)
      PROVE  /\ OnlyFails(d.inbox, i) \/ ~Present(e, i)
             /\ ~Live(d, i) \/ ~Present(e, i)
             /\ ~(i >= d.nextId)
             /\ Present(e, i) /\ i \notin e.tracked => Head(e.inbox).out = "Failed"
  <2>1. JobFollowed(e, i)
    BY <1>1
  <2>2. /\ Told(e.inbox, i) /\ (OneReady(e.inbox, i) => OnlyFails(d.inbox, i))
        /\ OnlyFails(e.inbox, i) => Head(e.inbox).out = "Failed"
    BY <1>1, <1>2, <1>5, VerdictsTail
  <2> QED
    BY <1>2, <2>1, <2>2 DEF JobFollowed, Live, Present
<1> QED
  BY <1>2, <1>3, <1>4, <1>5

LEMMA UntrackRow ==
  ASSUME NEW e, Sound(e), NEW j \in Ids, NEW f, f = Untrack(e, j)
  PROVE  /\ Sound(f) /\ f.jobs = e.jobs /\ f.inbox = e.inbox /\ f.nextId = e.nextId
         /\ f.probe = e.probe /\ f.tracked = e.tracked \ {j}
<1>1. Sound(f)
  BY UntrackKeeps
<1> QED
  BY <1>1 DEF Untrack, Sound, Engine

\* A verdict: the job is no longer tracked.
LEMMA VerdictOnward ==
  ASSUME NEW e, Ordered(e), e.inbox # <<>>, NEW d, d = [e EXCEPT !.inbox = Tail(@)], Sound(d),
         NEW ev \in ProbeEvents, ev = Head(e.inbox), ev.out # "Writing",
         NEW f, f \in OnProbe(d, ev)
  PROVE  Onward(d, f)
<1> DEFINE j == ev.job
           u == Untrack(d, j)
           r == [u EXCEPT !.jobs[j].stamp = ev.stamp]
<1>1. /\ j \in Ids /\ ev.out \in {"Failed", "Ready"} /\ Verdict(ev, j)
      /\ (ev.out = "Ready" => ev.stamp \in Stamps) /\ \A i \in Ids \ {j} : ~Verdict(ev, i)
  BY DEF ProbeEvents, Verdict
<1>2. /\ d.jobs = e.jobs /\ d.tracked = e.tracked /\ d.probe = e.probe /\ d.nextId = e.nextId
      /\ Ranked(d)
      /\ \A i \in Ids \ {j} : JobFollowed(d, i)
      /\ OnlyFails(d.inbox, j) \/ ~Present(e, j)
      /\ ~Live(d, j) \/ ~Present(e, j)
      /\ ~(j >= d.nextId)
      /\ Present(e, j) /\ j \notin e.tracked => ev.out = "Failed"
  BY <1>1, PoppedFollowed
<1>3. /\ Sound(u) /\ u.jobs = d.jobs /\ u.inbox = d.inbox /\ u.nextId = d.nextId
      /\ u.probe = d.probe /\ u.tracked = d.tracked \ {j}
  <2>1. u = Untrack(d, j) /\ j \in Ids
    BY <1>1
  <2> HIDE DEF u, j
  <2> QED
    BY ONLY Sound(d), <2>1, UntrackRow
<1>4. \/ f = u /\ (e.jobs[j].state = Absent \/ e.jobs[j].state \in Terminal \cup InMux)
      \/ /\ f = Transition(u, j, "Failed", "probe")
         /\ e.jobs[j].state \notin Terminal \cup InMux \cup {Absent}
      \/ /\ f \in OnReady(r, j) /\ ev.out = "Ready"
         /\ e.jobs[j].state \notin InMux \cup {Absent}
  BY <1>1, <1>2 DEF OnProbe, Terminal
<1> HIDE DEF u
<1>5. ASSUME NEW i \in Ids \ {j} PROVE JobFollowed(u, i)
  <2>1. JobFollowed(d, i)
    BY <1>2
  <2> QED
    BY <1>3, <2>1 DEF JobFollowed, Live
<1>6. Ranked(u) /\ Final(d, u)
  BY <1>2, <1>3, AlikeRanked DEF SameRow, Final
<1>7. CASE f = u /\ (e.jobs[j].state = Absent \/ e.jobs[j].state \in Terminal \cup InMux)
  <2>1. JobFollowed(u, j)
    <3>1. e.jobs[j].state \notin Waiting
      BY <1>7 DEF Waiting, Absent, Terminal, InMux
    <3>2. OnlyFails(u.inbox, j) => OneReady(u.inbox, j)
      BY DEF OnlyFails, OneReady
    <3> QED
      BY <1>1, <1>2, <1>3, <3>1, <3>2 DEF JobFollowed, Live, Present
  <2>2. Followed(u)
    BY <1>5, <2>1 DEF Followed, FollowedBut
  <2> QED
    BY <1>3, <1>6, <1>7, <2>2 DEF Onward, Ordered
<1>8. ASSUME e.jobs[j].state \notin Terminal \cup {Absent} PROVE Judged(u, j)
  <2>1. Present(e, j) /\ Present(u, j) /\ u.jobs[j].state \notin Terminal
    BY <1>1, <1>2, <1>3, <1>8 DEF Present
  <2>2. FollowedBut(u, {j})
    BY <1>5 DEF FollowedBut
  <2>3. j \notin u.tracked /\ ~Live(u, j) /\ OnlyFails(u.inbox, j)
    BY <1>2, <1>3, <2>1 DEF Live
  <2> QED
    BY <1>3, <1>6, <2>1, <2>2, <2>3 DEF Judged, Settled
<1>9. CASE /\ f = Transition(u, j, "Failed", "probe")
           /\ e.jobs[j].state \notin Terminal \cup InMux \cup {Absent}
  <2>1. "Failed" \in States \ (Waiting \cup {Absent}) /\ "probe" \in Reasons
    BY DEF States, Terminal, Waiting, Absent, Reasons
  <2>2. Onward(u, f)
    BY <1>8, <1>9, <2>1, JudgedTransition
  <2> QED
    BY <1>6, <2>2 DEF Onward, Final
<1>10. CASE /\ f \in OnReady(r, j) /\ ev.out = "Ready"
            /\ e.jobs[j].state \notin InMux \cup {Absent}
  <2>1. e.jobs[j].state \in Waiting /\ Present(e, j)
    <3>1. Present(e, j) /\ j \in e.tracked /\ JobFollowed(e, j)
      BY <1>1, <1>2, <1>10 DEF Present, Ordered, Followed, FollowedBut
    <3> QED
      BY <3>1 DEF JobFollowed
  <2>2. Judged(u, j)
    BY <1>8, <2>1 DEF Present, Waiting, Terminal
  <2>3. Sound(r) /\ Alike(u, r)
    <3>1. Present(u, j) /\ u.jobs[j] \in JobRecord /\ u \in Engine
      BY <1>1, <1>3, <2>2 DEF Judged, Settled, Sound, Engine
    <3> DEFINE row == [u.jobs[j] EXCEPT !.stamp = ev.stamp]
    <3>2. r = [u EXCEPT !.jobs = [u.jobs EXCEPT ![j] = row]]
      BY <3>1 DEF Engine
    <3>3. /\ row \in JobRecord /\ row.state = u.jobs[j].state /\ row.key = u.jobs[j].key
          /\ row.gen = u.jobs[j].gen
      BY <1>1, <1>10, <3>1 DEF JobRecord, Stamps
    <3>4. Sound(r)
      BY <1>1, <1>3, <1>10, <3>1, StampQuiet
    <3> HIDE DEF row, r
    <3> QED
      BY <1>3, <3>1, <3>2, <3>3, <3>4, RowAlike
  <2> HIDE DEF r
  <2>4. Judged(r, j) /\ Final(u, r) /\ r.jobs[j].state \notin InMux
    BY <1>1, <1>2, <1>3, <1>10, <2>2, <2>3, AlikeJudged DEF Alike, SameRow
  <2>5. Onward(r, f)
    BY <1>10, <2>4, OnReadyOnward
  <2> QED
    BY <1>6, <2>4, <2>5 DEF Onward, Final
<1> QED
  BY <1>4, <1>7, <1>9, <1>10

LEMMA OnMuxOnward ==
  ASSUME NEW e, Ordered(e), NEW ev \in MuxEvents, NEW f, f \in OnMux(e, ev)
  PROVE  Onward(e, f)
<1> DEFINE j == ev.job
<1>1. j \in Ids /\ ev.out \in {"Verifying", "Done", "Failed", "Cancelled"}
  BY DEF MuxEvents
<1>2. PICK l : /\ l = e \/ (e.jobs[j].state # Absent /\ l = Correct(e, j))
               /\ f \in MuxOutcome(l, j, ev.out)
  BY DEF OnMux
<1>3. Onward(e, l)
  <2>1. CASE l = e
    BY <2>1, OnwardItself
  <2>2. CASE e.jobs[j].state # Absent /\ l = Correct(e, j)
    <3>1. Sound(l) /\ Alike(e, l)
      BY <1>1, <2>2, LearnAlike DEF Present, Ordered
    <3> QED
      BY <3>1, AlikeOnward
  <2> QED
    BY <1>2, <2>1, <2>2
<1> HIDE DEF j
<1>4. CASE l.jobs[j].state \notin InMux
  BY <1>2, <1>3, <1>4 DEF MuxOutcome
<1>5. CASE l.jobs[j].state \in InMux
  <2>1. Judged(l, j)
    <3>1. Present(l, j) /\ l.jobs[j].state \notin Terminal \cup Waiting
      BY <1>1, <1>5 DEF Present, InMux, Absent, Terminal, Waiting
    <3>2. j \notin l.tracked
      BY <1>1, <1>3, <3>1 DEF Onward, Ordered, Followed, FollowedBut, JobFollowed
    <3> QED
      BY <1>3, <3>1, <3>2, OrderedJudged DEF Onward
  <2>2. /\ {"Verifying", "Failed", "Cancelled"} \subseteq States \ (Waiting \cup {Absent})
        /\ {"", "mux"} \subseteq Reasons
    BY DEF States, Terminal, InMux, Waiting, Absent, Reasons
  <2>3. \/ f = Transition(l, j, "Verifying", "")
        \/ f \in FinishDone(l, j)
        \/ f = Transition(l, j, "Failed", "mux") \/ f = Transition(l, j, "Cancelled", "mux")
    BY <1>1, <1>2, <1>5 DEF MuxOutcome
  <2>4. Onward(l, f)
    BY <2>1, <2>2, <2>3, JudgedTransition, FinishDoneOnward
  <2> QED
    BY <1>3, <2>4, OnwardTwice
<1> QED
  BY <1>4, <1>5

LEMMA HandleOnward ==
  ASSUME NEW e, Ordered(e), Booked(e), Distinct, e.inbox # <<>>,
         Creating(Head(e.inbox)) => e.nextId \in Ids,
         NEW f, f \in Handle([e EXCEPT !.inbox = Tail(@)], Head(e.inbox))
  PROVE  Onward(e, f)
<1> DEFINE d == [e EXCEPT !.inbox = Tail(@)]
           ev == Head(e.inbox)
<1>1. Sound(d) /\ ev \in Event
  BY Popped DEF Ordered
<1>2. f \in Handle(d, ev) /\ d = [e EXCEPT !.inbox = Tail(@)]
  OBVIOUS
<1>3. Creating(ev) => e.nextId \in Ids
  OBVIOUS
<1> HIDE DEF d
<1>4. /\ d.jobs = e.jobs /\ d.nextId = e.nextId /\ Ranked(d)
      /\ \A i \in Ids : ~Verdict(ev, i) => JobFollowed(d, i)
  BY <1>1, <1>2, PoppedFollowed
<1>5. Final(e, d)
  BY <1>4 DEF Final
<1>6. (\A i \in Ids : ~Verdict(ev, i)) => Ordered(d)
  BY <1>1, <1>4 DEF Ordered, Followed, FollowedBut
<1>7. /\ ev.type \in {"log", "cep", "sidecar", "output"} => ev.key \in Keys
      /\ ev.type = "probe" => ev \in ProbeEvents
      /\ ev.type = "mux" => ev \in MuxEvents
      /\ ev.type \in {"log", "cep", "sidecar", "output", "probe", "mux"}
  BY <1>1, EventFacts
<1>8. CASE ev.type = "probe" /\ ev.out # "Writing"
  <2>1. f \in OnProbe(d, ev)
    BY <1>2, <1>8 DEF Handle
  <2>2. Onward(d, f)
    BY <1>1, <1>2, <1>7, <1>8, <2>1, VerdictOnward
  <2> QED
    BY <1>5, <2>2 DEF Onward, Final
<1>9. CASE ~(ev.type = "probe" /\ ev.out # "Writing")
  <2>1. Ordered(d)
    BY <1>6, <1>9 DEF Verdict
  <2> HIDE DEF ev
  <2>2. ev.type \in {"log", "cep", "sidecar", "output"} => d.nextId \in Ids /\ ev.key \in Keys
    BY <1>3, <1>4, <1>7 DEF Creating
  <2>3. CASE ev.type = "log"
    <3>1. \/ f \in LogSuccess(d, ev.key) \/ f \in LogFailed(d, ev.key)
          \/ f \in CatchUp(d, ev.key, ev.what = "newer")
      BY <1>2, <2>3 DEF Handle, OnLog
    <3>2. Onward(d, f)
      BY <2>1, <2>2, <2>3, <3>1, LogSuccessOnward, LogFailedOnward, CatchUpOnward
    <3> QED
      BY <1>5, <3>2 DEF Onward, Final
  <2>4. CASE ev.type = "cep"
    <3>1. \/ f \in CepStarted(d, ev.key) \/ f \in CepComplete(d, ev.key, ev.what = "ok")
      BY <1>2, <2>4 DEF Handle, OnCep
    <3>2. Onward(d, f)
      BY <2>1, <2>2, <2>4, <3>1, CepStartedOnward, CepCompleteOnward
    <3> QED
      BY <1>5, <3>2 DEF Onward, Final
  <2>5. CASE ev.type = "sidecar"
    <3>1. f \in OnSidecar(d, ev)
      BY <1>2, <2>5 DEF Handle
    <3>2. Onward(d, f)
      BY <2>1, <2>2, <2>5, <3>1, OnSidecarOnward
    <3> QED
      BY <1>5, <3>2 DEF Onward, Final
  <2>6. CASE ev.type = "output"
    <3>1. \/ f \in OutputRemoved(d, ev.key) \/ f \in OutputSeen(d, ev.key, ev.action, ev.scan)
      BY <1>2, <2>6 DEF Handle, OnOutput
    <3>2. Onward(d, f)
      BY <2>1, <2>2, <2>6, <3>1, OutputRemovedOnward, OutputSeenOnward
    <3> QED
      BY <1>5, <3>2 DEF Onward, Final
  <2>7. CASE ev.type = "probe"
    <3>1. f \in OnProbe(d, ev) /\ ev \in ProbeEvents /\ ev.out = "Writing" /\ ev.job \in Ids
      BY <1>2, <1>7, <1>9, <2>7 DEF Handle, ProbeEvents, ev
    <3>2. CASE d.jobs[ev.job].state = Absent
      <4>1. f = Untrack(d, ev.job) /\ ev.job \notin d.tracked
        BY <2>1, <3>1, <3>2 DEF OnProbe, Ordered, Followed, FollowedBut, JobFollowed, Waiting, Absent
      <4>2. /\ Sound(f) /\ f.jobs = d.jobs /\ f.inbox = d.inbox /\ f.nextId = d.nextId
            /\ f.probe = d.probe /\ f.tracked = d.tracked \ {ev.job}
        BY ONLY <1>1, <3>1, <4>1, UntrackRow
      <4>3. Sound(f) /\ Alike(d, f)
        BY <4>1, <4>2 DEF Alike, SameBooks, SameRow
      <4> QED
        BY <1>5, <2>1, <4>3, AlikeOnward DEF Onward, Final
    <3>3. CASE d.jobs[ev.job].state # Absent
      <4>1. f = IF d.jobs[ev.job].state = "Discovered" THEN Transition(d, ev.job, "Encoding", "") ELSE d
        BY <3>1, <3>3 DEF OnProbe
      <4>2. Onward(d, f)
        BY <2>1, <3>1, <3>3, <4>1, BegunOnward DEF Present
      <4> QED
        BY <1>5, <4>2 DEF Onward, Final
    <3> QED
      BY <3>2, <3>3
  <2>8. CASE ev.type = "mux"
    <3>1. f \in OnMux(d, ev) /\ ev \in MuxEvents
      BY <1>2, <1>7, <2>8 DEF Handle
    <3>2. Onward(d, f)
      BY <2>1, <3>1, OnMuxOnward
    <3> QED
      BY <1>5, <3>2 DEF Onward, Final
  <2> QED
    BY <1>7, <2>3, <2>4, <2>5, <2>6, <2>7, <2>8 DEF ev
<1> QED
  BY <1>8, <1>9
-----------------------------------------------------------------------------
(* Events are posted *)

LEMMA VerdictsAppend ==
  ASSUME NEW s \in Seq(Event), NEW ev, NEW j, NEW t, t = Append(s, ev)
  PROVE  /\ Told(t, j) <=> Told(s, j) \/ Verdict(ev, j)
         /\ (~Verdict(ev, j) \/ ev.out = "Failed") /\ OnlyFails(s, j) => OnlyFails(t, j)
         /\ (~Verdict(ev, j) \/ ev.out = "Failed") /\ OneReady(s, j) => OneReady(t, j)
         /\ ~Told(s, j) => OneReady(t, j)
<1> DEFINE n == Len(s) + 1
<1>1. Len(s) \in Nat
  BY LenProperties
<1>2. Len(t) = n /\ (\A i \in 1..Len(s) : t[i] = s[i]) /\ t[n] = ev
  <2>1. s \in Seq(Event \cup {ev}) /\ ev \in Event \cup {ev}
    BY SeqDef
  <2> QED
    BY <2>1, AppendProperties
<1>3. \A i \in 1..Len(t) : i \in 1..Len(s) \/ i = n
  BY <1>1, <1>2
<1>4. Told(t, j) <=> Told(s, j) \/ Verdict(ev, j)
  BY <1>1, <1>2, <1>3 DEF Told
<1>5. ASSUME ~Verdict(ev, j) \/ ev.out = "Failed", OnlyFails(s, j) PROVE OnlyFails(t, j)
  BY <1>2, <1>3, <1>5 DEF OnlyFails
<1>6. ASSUME ((~Verdict(ev, j) \/ ev.out = "Failed") /\ OneReady(s, j)) \/ ~Told(s, j)
      PROVE  OneReady(t, j)
  <2> SUFFICES ASSUME NEW i \in 1..Len(t), NEW k \in 1..Len(t), i < k, Verdict(t[i], j), Verdict(t[k], j)
               PROVE  t[k].out = "Failed"
    BY DEF OneReady
  <2>1. i \in 1..Len(s) /\ t[i] = s[i]
    BY <1>1, <1>2, <1>3
  <2>2. Told(s, j)
    BY <2>1 DEF Told
  <2>3. CASE k \in 1..Len(s)
    BY <1>2, <1>6, <2>1, <2>2, <2>3 DEF OneReady
  <2>4. CASE k = n
    BY <1>2, <1>6, <2>2, <2>4
  <2> QED
    BY <1>3, <2>3, <2>4
<1> QED
  BY <1>4, <1>5, <1>6

\* What was said of probes so far is what is said of them.
NoVerdict(s, t) == t = s \/ \E ev : t = Append(s, ev) /\ \A j \in Ids : ~Verdict(ev, j)

LEMMA NoVerdictTells ==
  ASSUME NEW s \in Seq(Event), NEW t, NoVerdict(s, t), NEW j \in Ids
  PROVE  /\ Told(t, j) <=> Told(s, j)
         /\ OnlyFails(s, j) => OnlyFails(t, j)
         /\ OneReady(s, j) => OneReady(t, j)
<1>1. CASE t = s
  BY <1>1
<1>2. ASSUME NEW ev, t = Append(s, ev), \A i \in Ids : ~Verdict(ev, i)
      PROVE  /\ Told(t, j) <=> Told(s, j)
             /\ OnlyFails(s, j) => OnlyFails(t, j)
             /\ OneReady(s, j) => OneReady(t, j)
  <2>1. ~Verdict(ev, j)
    BY <1>2
  <2>2. t = Append(s, ev)
    BY <1>2
  <2>3. /\ Told(t, j) <=> Told(s, j) \/ Verdict(ev, j)
        /\ (~Verdict(ev, j) \/ ev.out = "Failed") /\ OnlyFails(s, j) => OnlyFails(t, j)
        /\ (~Verdict(ev, j) \/ ev.out = "Failed") /\ OneReady(s, j) => OneReady(t, j)
    BY ONLY s \in Seq(Event), <2>2, VerdictsAppend
  <2> QED
    BY <2>1, <2>3 DEF Told
<1> QED
  BY <1>1, <1>2 DEF NoVerdict

LEMMA NoVerdictFollowed ==
  ASSUME NEW e, NEW f, NEW j \in Ids, JobFollowed(e, j), SameRow(e, f, j), f.tracked = e.tracked,
         f.probe[j] = e.probe[j], f.nextId = e.nextId, e.inbox \in Seq(Event),
         NoVerdict(e.inbox, f.inbox)
  PROVE  JobFollowed(f, j)
<1>1. /\ Told(f.inbox, j) <=> Told(e.inbox, j)
      /\ OnlyFails(e.inbox, j) => OnlyFails(f.inbox, j)
      /\ OneReady(e.inbox, j) => OneReady(f.inbox, j)
  BY NoVerdictTells
<1> QED
  BY <1>1 DEF JobFollowed, SameRow, Live

-----------------------------------------------------------------------------
(* The user's commands *)

LEMMA HoldJobOnward ==
  ASSUME NEW e, Ordered(e), NEW j, Present(e, j), NEW f, f \in HoldJob(e, j)
  PROVE  Onward(e, f)
<1> DEFINE d == e.forced \ {j}
           a == [e EXCEPT !.forced = d]
           r == [a.jobs[j] EXCEPT !.hold = TRUE]
           held == [a EXCEPT !.jobs = [a.jobs EXCEPT ![j] = r]]
<1>1. /\ j \in Ids /\ e \in Engine /\ Sound(e) /\ e.jobs[j] \in JobRecord
      /\ e.jobs[j].key \in Keys
  BY KeyOfPresent DEF Ordered
<1>2. [e EXCEPT !.jobs[j].hold = TRUE, !.forced = @ \ {j}] = held
  BY <1>1 DEF Engine
<1>3. \/ f = e
      \/ f = held
      \/ e.jobs[j].state \in {"Ready", "Held"} /\ f = Transition(held, j, "Held", "held")
  BY <1>2 DEF HoldJob
<1>4. j \notin d
  OBVIOUS
<1>5. Sound(a) /\ Alike(e, a) /\ a.jobs = e.jobs /\ a.forced = d
  <2>1. a = [e EXCEPT !.forced = @ \ {j}]
    BY <1>1 DEF Engine
  <2>2. a.forced = d
    BY <1>1 DEF Engine
  <2> HIDE DEF a, d
  <2> QED
    BY <1>1, <2>1, <2>2, LessForcedAlike
<1> HIDE DEF d, a
<1>6. /\ r \in JobRecord /\ r.state = e.jobs[j].state /\ r.key = e.jobs[j].key
      /\ r.gen = e.jobs[j].gen
  BY <1>1, <1>5 DEF JobRecord
<1> HIDE DEF r
<1>7. held = [a EXCEPT !.jobs = [a.jobs EXCEPT ![j] = r]]
  OBVIOUS
<1> HIDE DEF held
<1>8. Sound(held)
  <2>1. /\ r.state = Absent <=> r.key = NoKey
        /\ r.gen = a.jobs[j].gen
        /\ j \in a.forced => r \notin Holding
        /\ r.state = Absent <=> a.jobs[j].state = Absent
    BY <1>1, <1>4, <1>5, <1>6, KeysAssumption DEF Present
  <2> QED
    BY <1>1, <1>5, <1>6, <1>7, <2>1, EditJob
<1>9. Alike(a, held)
  BY <1>1, <1>5, <1>6, <1>7, RowAlike DEF Present
<1>10. Onward(e, held)
  <2>1. Onward(e, a) /\ Onward(a, held)
    BY <1>5, <1>8, <1>9, AlikeOnward DEF Onward
  <2> QED
    BY <2>1, OnwardTwice
<1>11. CASE f = e
  BY <1>11, OnwardItself
<1>12. CASE f = held
  BY <1>10, <1>12
<1>13. CASE e.jobs[j].state \in {"Ready", "Held"} /\ f = Transition(held, j, "Held", "held")
  <2>1. held.jobs[j].state = e.jobs[j].state /\ Present(held, j)
    BY <1>1, <1>5, <1>6, <1>9 DEF Alike, SameRow, Present
  <2>2. held.jobs[j].state \notin Terminal \cup Waiting
    BY <1>13, <2>1 DEF Terminal, Waiting
  <2>3. j \notin held.tracked
    BY <1>1, <1>10, <2>2 DEF Onward, Ordered, Followed, FollowedBut, JobFollowed
  <2>4. Judged(held, j)
    BY <1>10, <2>1, <2>2, <2>3, OrderedJudged DEF Onward
  <2>5. "Held" \in States \ (Waiting \cup {Absent}) /\ "held" \in Reasons
    BY DEF States, Waiting, Absent, Reasons
  <2>6. Onward(held, f)
    BY <1>13, <2>4, <2>5, JudgedTransition
  <2> QED
    BY <1>10, <2>6, OnwardTwice
<1> QED
  BY <1>3, <1>11, <1>12, <1>13

LEMMA CancelProbeRow ==
  ASSUME NEW e, Sound(e), NEW j \in Ids, NEW f, f = CancelProbe(e, j)
  PROVE  /\ f.tracked = e.tracked \ {j} /\ f.inbox = e.inbox /\ f.nextId = e.nextId
         /\ \A i \in Ids \ {j} : f.probe[i] = e.probe[i]
<1> DEFINE d == e.tracked \ {j}
<1>1. CASE j \notin e.tracked
  BY <1>1 DEF CancelProbe
<1>2. CASE j \in e.tracked
  <2>1. f = [e EXCEPT !.probe = [e.probe EXCEPT ![j] = NoProbe], !.tracked = d] /\ e \in Engine
    BY <1>2 DEF CancelProbe, Sound, Engine
  <2> HIDE DEF d
  <2>2. /\ f.tracked = d /\ f.inbox = e.inbox /\ f.nextId = e.nextId
        /\ \A i \in Ids \ {j} : f.probe[i] = e.probe[i]
    BY <2>1 DEF Engine
  <2> QED
    BY <2>2 DEF d
<1> QED
  BY <1>1, <1>2

LEMMA MuxCancelRow ==
  ASSUME NEW e, Sound(e), NEW j \in Ids, NEW f, f = MuxCancel(e, j)
  PROVE  /\ f.tracked = e.tracked /\ f.probe = e.probe
         /\ f.inbox = e.inbox \/ \E ev \in MuxEvents : f.inbox = Append(e.inbox, ev)
<1> DEFINE ev == [type |-> "mux", job |-> j, out |-> "Cancelled"]
           q == RemoveAt(e.queue, FirstRequest(e.queue, j))
           s == Append(e.inbox, ev)
<1>1. \/ f = [e EXCEPT !.muxing.cancel = TRUE]
      \/ f = [e EXCEPT !.queue = q, !.inbox = s]
      \/ f = e
  BY DEF MuxCancel, Sound, Engine
<1>2. \E v \in MuxEvents : s = Append(e.inbox, v)
  BY DEF MuxEvents
<1> HIDE DEF q, s
<1>3. e \in Engine
  BY DEF Sound
<1> QED
  BY <1>1, <1>2, <1>3 DEF Engine

LEMMA RemoveJobOrdered ==
  ASSUME NEW e, Ordered(e), Booked(e), NEW j, Present(e, j), NEW f, f \in RemoveJob(e, j)
  PROVE  Ordered(f)
<1> DEFINE c == CancelProbe(e, j)
           m == MuxCancel(c, j)
           d == m.forced \ {j}
           t == [m.jobs EXCEPT ![j] = NoJob]
<1>1. j \in Ids /\ Sound(e) /\ f = [m EXCEPT !.forced = @ \ {j}, !.jobs[j] = NoJob]
  BY DEF RemoveJob, Present, Ordered
<1>2. Sound(f) /\ f.nextId = e.nextId
  BY <1>1, RemoveJobKeeps
<1>3. Sound(c) /\ Quiet(e, c) /\ c.jobs = e.jobs
  BY <1>1, CancelProbeKeeps
<1>4. /\ c.tracked = e.tracked \ {j} /\ c.inbox = e.inbox
      /\ \A i \in Ids \ {j} : c.probe[i] = e.probe[i]
  BY <1>1, CancelProbeRow
<1> HIDE DEF c
<1>5. Booked(c) /\ Present(c, j)
  BY <1>1, <1>3, QuietBooks DEF Booked, Present
<1>6. Sound(m) /\ m.jobs = c.jobs
  BY <1>3, <1>5, MuxCancelKeeps
<1>7. /\ m.tracked = c.tracked /\ m.probe = c.probe
      /\ m.inbox = c.inbox \/ \E ev \in MuxEvents : m.inbox = Append(c.inbox, ev)
  BY <1>1, <1>3, MuxCancelRow
<1> HIDE DEF m
<1>8. f = [m EXCEPT !.forced = d, !.jobs = t]
  BY <1>1, <1>6 DEF Sound, Engine
<1>9. t[j] = NoJob /\ \A i \in Ids \ {j} : t[i] = m.jobs[i]
  BY <1>1, <1>6 DEF Sound, Engine
<1> HIDE DEF d, t
<1>10. f.jobs = t /\ f.tracked = m.tracked /\ f.probe = m.probe /\ f.inbox = m.inbox
  BY <1>6, <1>8 DEF Sound, Engine
<1>11. /\ f.jobs[j] = NoJob /\ f.tracked = e.tracked \ {j}
       /\ \A i \in Ids \ {j} : f.jobs[i] = e.jobs[i] /\ f.probe[i] = e.probe[i]
       /\ NoVerdict(e.inbox, f.inbox)
  <2>1. \A ev \in MuxEvents : \A i \in Ids : ~Verdict(ev, i)
    BY DEF MuxEvents, Verdict
  <2> QED
    BY <1>3, <1>4, <1>6, <1>7, <1>9, <1>10, <2>1 DEF NoVerdict
<1>12. NoJob.state = Absent /\ NoJob.key = NoKey
  BY NoJobFacts
<1>13. JobFollowed(f, j)
  <2>1. ~(j >= f.nextId)
    BY <1>1, <1>2 DEF Sound, JobSound, Present
  <2> QED
    BY <1>11, <1>12, <2>1 DEF JobFollowed, Waiting, Absent
<1>14. ASSUME NEW i \in Ids \ {j} PROVE JobFollowed(f, i)
  <2>1. JobFollowed(e, i) /\ e.inbox \in Seq(Event)
    BY DEF Ordered, Followed, FollowedBut, Sound, Engine
  <2>2. /\ Told(f.inbox, i) <=> Told(e.inbox, i)
        /\ OnlyFails(e.inbox, i) => OnlyFails(f.inbox, i)
        /\ OneReady(e.inbox, i) => OneReady(f.inbox, i)
    BY <1>11, <2>1, NoVerdictTells
  <2>3. i \in f.tracked <=> i \in e.tracked
    BY <1>11
  <2> QED
    BY <1>2, <1>11, <2>1, <2>2, <2>3 DEF JobFollowed, Live
<1>15. Ranked(f)
  <2> SUFFICES ASSUME NEW i \in Ids, NEW k \in Ids, IsActive(f, i), i # k,
                      f.jobs[i].key = f.jobs[k].key
               PROVE  Outranks(f, i, k)
    BY DEF Ranked
  <2>1. i # j /\ Present(e, i)
    BY <1>11, <1>12 DEF IsActive, Present
  <2>2. e.jobs[i].key \in Keys
    BY <1>1, <2>1, KeyOfPresent
  <2>3. k # j
    BY <1>11, <1>12, <2>1, <2>2, KeysAssumption
  <2> QED
    BY <1>11, <2>1, <2>3 DEF Ordered, Ranked, IsActive, Outranks
<1> QED
  BY <1>2, <1>13, <1>14, <1>15 DEF Ordered, Followed, FollowedBut
-----------------------------------------------------------------------------
(* Every step *)

Advances == Ordered(E)' /\ (Final(E, E') \/ commands' # commands)

LEMMA CommitAdvances ==
  ASSUME NEW f, Commit(f), Ordered(f), Final(E, f) \/ commands' # commands PROVE Advances
<1>1. E' = f
  BY CommitIsE DEF Ordered, Sound
<1> QED
  BY <1>1 DEF Advances

LEMMA ApplyAdvances ==
  ASSUME IInv, Ordered(E), Distinct, Apply PROVE Advances
<1>1. PICK f \in Handle([E EXCEPT !.inbox = Tail(@)], Head(inbox)) : Commit(f)
  BY DEF Apply
<1>2. E.inbox = inbox /\ E.nextId = nextId /\ inbox # <<>> /\ Booked(E)
  BY DEF Apply, IInv, E
<1>3. Creating(Head(inbox)) => nextId \in Ids
  <2>1. inbox \in Seq(Event) /\ nextId \in 1..(MaxJobs + 1) /\ MaxJobs \in Nat
    BY Typed, BoundsAssumption
  <2>2. /\ Cardinality(Creates(Tail(inbox))) \in Nat
        /\ Cardinality(Creates(inbox)) =
             Cardinality(Creates(Tail(inbox))) + IF Creating(Head(inbox)) THEN 1 ELSE 0
    BY <1>2, <2>1, CreatesTail
  <2> QED
    BY <2>1, <2>2 DEF IInv, IdsLeft, Ids
<1>4. Onward(E, f)
  <2>1. /\ f \in Handle([E EXCEPT !.inbox = Tail(@)], Head(E.inbox)) /\ E.inbox # <<>>
        /\ Creating(Head(E.inbox)) => E.nextId \in Ids
    BY <1>1, <1>2, <1>3
  <2> QED
    BY <1>2, <2>1, HandleOnward
<1> QED
  BY <1>1, <1>4, CommitAdvances DEF Onward

\* The commands that start nothing over.
StartsNothingOver == Commands \subseteq {"hold", "remove", "recycle", "add"}

LEMMA OnJobAdvances ==
  ASSUME IInv, Ordered(E), StartsNothingOver, NEW name \in Commands, NEW j \in Ids, OnJob(name, j)
  PROVE  Advances
<1>1. PICK f \in JobCommand(name, E, j) : Commit(f)
  BY DEF OnJob
<1>2. Present(E, j) /\ Booked(E) /\ commands' # commands
  BY BoundsAssumption DEF OnJob, Present, E, IInv, Commanded, WorldSound
<1>3. f \in HoldJob(E, j) \/ f \in RemoveJob(E, j) \/ f \in RecycleJob(E, j)
  BY <1>1 DEF JobCommand, StartsNothingOver
<1>4. CASE f \in HoldJob(E, j)
  BY <1>1, <1>2, <1>4, HoldJobOnward, CommitAdvances DEF Onward
<1>5. CASE f \in RemoveJob(E, j)
  BY <1>1, <1>2, <1>5, RemoveJobOrdered, CommitAdvances
<1>6. CASE f \in RecycleJob(E, j)
  <2>1. Sound(f) /\ Alike(E, f)
    BY <1>2, <1>6, RecycleJobAlike DEF Ordered
  <2> QED
    BY <1>1, <2>1, AlikeOnward, CommitAdvances DEF Onward
<1> QED
  BY <1>3, <1>4, <1>5, <1>6

LEMMA AddManualFileAdvances ==
  ASSUME IInv, Ordered(E), NEW k \in Keys, AddManualFile(k) PROVE Advances
<1> DEFINE made == Create(E, k, "manual")
           f == IF FindActiveByKey(E, k) # 0 THEN E ELSE Schedule(made, nextId)
<1>1. Commit(f) /\ Room /\ E.inbox = inbox /\ E.nextId = nextId
  BY DEF AddManualFile, E
<1>2. nextId \in Ids
  <2>1. inbox \in Seq(Event) /\ nextId \in 1..(MaxJobs + 1) /\ MaxJobs \in Nat
    BY Typed, BoundsAssumption
  <2>2. [type |-> "sidecar", key |-> k] \in Event
    BY DEF Event
  <2>3. Cardinality(Creates(inbox)) \in Nat
    BY <2>1, <2>2, CreatesAppend
  <2>4. nextId + Cardinality(Creates(inbox)) <= MaxJobs
    BY <1>1 DEF Room, Creates
  <2> QED
    BY <2>1, <2>3, <2>4 DEF Ids
<1>3. Onward(E, f)
  <2>1. CASE FindActiveByKey(E, k) # 0
    BY <2>1, OnwardItself
  <2>2. CASE FindActiveByKey(E, k) = 0
    <3>1. /\ Onward(E, made) /\ Present(made, nextId) /\ made.jobs[nextId].state = "Discovered"
          /\ nextId \notin made.tracked
      BY <1>1, <1>2, <2>2, CreateOnward DEF Sources
    <3>2. f = ScheduleIfWaiting(made, nextId)
      BY <2>2, <3>1 DEF ScheduleIfWaiting, Waiting
    <3> HIDE DEF made, f
    <3>3. Onward(made, f)
      BY <3>1, <3>2, ScheduleIfWaitingOnward DEF Onward
    <3> QED
      BY <3>1, <3>3, OnwardTwice
  <2> QED
    BY <2>1, <2>2
<1> HIDE DEF f
<1> QED
  BY <1>1, <1>3, CommitAdvances DEF Onward

\* The workers and the world leave the table and what is tracked alone.
LEMMA AroundAdvances ==
  ASSUME Ordered(E), IInv', UNCHANGED <<jobs, nextId, tracked>>,
         \A j \in Ids : JobFollowed(E', j)
  PROVE  Advances
<1>1. E'.jobs = E.jobs /\ E.jobs = jobs
  BY DEF E
<1>2. Sound(E')
  BY DEF IInv
<1>3. Ranked(E')
  BY <1>1, AlikeRanked DEF Ordered, SameRow
<1> QED
  BY <1>1, <1>2, <1>3 DEF Advances, Ordered, Followed, FollowedBut, Final

LEMMA AsideAdvances ==
  ASSUME IInv, IInv', Ordered(E), UNCHANGED <<jobs, nextId, tracked, probe>>, NoVerdict(inbox, inbox')
  PROVE  Advances
<1>1. /\ E'.jobs = E.jobs /\ E'.nextId = E.nextId /\ E'.tracked = E.tracked /\ E'.probe = E.probe
      /\ E.inbox = inbox /\ E'.inbox = inbox' /\ inbox \in Seq(Event)
  BY Typed DEF E
<1>2. ASSUME NEW j \in Ids PROVE JobFollowed(E', j)
  <2>1. JobFollowed(E, j) /\ SameRow(E, E', j)
    BY <1>1 DEF Ordered, Followed, FollowedBut, SameRow
  <2> QED
    BY <1>1, <2>1, NoVerdictFollowed
<1> QED
  BY <1>2, AroundAdvances

LEMMA PostedAside ==
  ASSUME NEW ev, Post(ev), ev.type # "probe" \/ ev.out = "Writing" PROVE NoVerdict(inbox, inbox')
BY DEF Post, NoVerdict, Verdict

LEMMA MuxAdvances ==
  ASSUME IInv, IInv', Ordered(E), MuxStep PROVE Advances
<1>1. UNCHANGED <<jobs, nextId, tracked, probe>>
  BY DEF MuxStep, MuxTake, MuxVerify, MuxEnd, MuxFrame, engineVars
<1>2. NoVerdict(inbox, inbox')
  <2>1. CASE inbox' = inbox
    BY <2>1 DEF NoVerdict
  <2>2. ASSUME NEW out, Post([type |-> "mux", job |-> muxing.job, out |-> out])
        PROVE  NoVerdict(inbox, inbox')
    BY <2>2, PostedAside
  <2> QED
    BY <2>1, <2>2 DEF MuxStep, MuxTake, MuxVerify, MuxEnd
<1> QED
  BY <1>1, <1>2, AsideAdvances

LEMMA WorldAdvances ==
  ASSUME IInv, IInv', Ordered(E), WorldStep PROVE Advances
<1>1. UNCHANGED <<jobs, nextId, tracked, probe>>
  BY DEF WorldStep, AmeBegin, AmeWrite, AmeEnd, AmeFails, PostSidecar, FlushChange, Touch, PostNews,
         WorldFrame, engineVars, workerVars
<1>2. NoVerdict(inbox, inbox')
  <2>1. CASE inbox' = inbox
    BY <2>1 DEF NoVerdict
  <2>2. ASSUME NEW ev, Post(ev), ev.type # "probe" PROVE NoVerdict(inbox, inbox')
    BY <2>2, PostedAside
  <2>3. ASSUME NEW k \in Keys, AmeBegin(k) \/ AmeWrite(k) \/ AmeEnd(k) \/ AmeFails(k)
        PROVE  NoVerdict(inbox, inbox')
    BY <2>1, <2>3 DEF AmeBegin, AmeWrite, AmeEnd, AmeFails
  <2>4. ASSUME NEW k \in Keys, PostSidecar(k) PROVE NoVerdict(inbox, inbox')
    BY <2>2, <2>4 DEF PostSidecar
  <2>5. ASSUME NEW k \in Keys, FlushChange(k) PROVE NoVerdict(inbox, inbox')
    BY <2>1, <2>2, <2>5 DEF FlushChange
  <2>6. ASSUME NEW k \in Keys, Touch(k) PROVE NoVerdict(inbox, inbox')
    BY <2>1, <2>2, <2>6 DEF Touch
  <2>7. ASSUME NEW s \in {"log", "cep"}, PostNews(s) PROVE NoVerdict(inbox, inbox')
    BY <2>2, <2>7 DEF PostNews
  <2> QED
    BY <2>3, <2>4, <2>5, <2>6, <2>7 DEF WorldStep
<1> QED
  BY <1>1, <1>2, AsideAdvances

LEMMA ProbeWritingAdvances ==
  ASSUME IInv, IInv', Ordered(E), NEW j \in Ids, ProbeWriting(j) PROVE Advances
<1>1. UNCHANGED <<jobs, nextId, tracked, probe>>
  BY DEF ProbeWriting, ProbeFrame, engineVars
<1>2. NoVerdict(inbox, inbox')
  <2> DEFINE ev == [type |-> "probe", job |-> j, out |-> "Writing"]
  <2>1. Post(ev) /\ ev.out = "Writing"
    BY DEF ProbeWriting
  <2> HIDE DEF ev
  <2> QED
    BY <2>1, PostedAside
<1> QED
  BY <1>1, <1>2, AsideAdvances

\* A verdict on one job says nothing of the others.
LEMMA OthersFollowed ==
  ASSUME IInv, Ordered(E), NEW j \in Ids, UNCHANGED <<jobs, nextId, tracked>>,
         \A i \in Ids \ {j} : probe'[i] = probe[i],
         \/ inbox' = inbox
         \/ \E ev : inbox' = Append(inbox, ev) /\ \A i \in Ids \ {j} : ~Verdict(ev, i)
  PROVE  \A i \in Ids \ {j} : JobFollowed(E', i)
<1> SUFFICES ASSUME NEW i \in Ids \ {j} PROVE JobFollowed(E', i)
  OBVIOUS
<1>1. /\ E'.jobs = E.jobs /\ E'.nextId = E.nextId /\ E'.tracked = E.tracked
      /\ E'.probe = probe' /\ E.probe = probe
      /\ E.inbox = inbox /\ E'.inbox = inbox' /\ inbox \in Seq(Event)
  BY Typed DEF E
<1>2. JobFollowed(E, i)
  BY DEF Ordered, Followed, FollowedBut
<1>3. /\ Told(inbox', i) <=> Told(inbox, i)
      /\ OnlyFails(inbox, i) => OnlyFails(inbox', i)
      /\ OneReady(inbox, i) => OneReady(inbox', i)
  <2>1. CASE inbox' = inbox
    BY <2>1
  <2>2. ASSUME NEW ev, inbox' = Append(inbox, ev), ~Verdict(ev, i)
        PROVE  /\ Told(inbox', i) <=> Told(inbox, i)
               /\ OnlyFails(inbox, i) => OnlyFails(inbox', i)
               /\ OneReady(inbox, i) => OneReady(inbox', i)
    <3> DEFINE s == inbox
               t == inbox'
    <3>1. t = Append(s, ev) /\ s \in Seq(Event)
      BY <1>1, <2>2
    <3> HIDE DEF s, t
    <3>2. /\ Told(t, i) <=> Told(s, i) \/ Verdict(ev, i)
          /\ (~Verdict(ev, i) \/ ev.out = "Failed") /\ OnlyFails(s, i) => OnlyFails(t, i)
          /\ (~Verdict(ev, i) \/ ev.out = "Failed") /\ OneReady(s, i) => OneReady(t, i)
      BY ONLY <3>1, VerdictsAppend
    <3>3. /\ Told(t, i) <=> Told(s, i)
          /\ OnlyFails(s, i) => OnlyFails(t, i)
          /\ OneReady(s, i) => OneReady(t, i)
      BY <2>2, <3>2 DEF Told
    <3> QED
      BY <3>3 DEF s, t
  <2> QED
    BY <2>1, <2>2
<1>4. E'.probe[i] = E.probe[i]
  BY <1>1
<1> QED
  BY <1>1, <1>2, <1>3, <1>4 DEF JobFollowed, Live

LEMMA ProbeVerdictAdvances ==
  ASSUME IInv, IInv', Ordered(E), NEW j \in Ids, ProbeVerdict(j) PROVE Advances
<1>1. UNCHANGED <<jobs, nextId, tracked>> /\ probe[j].st \in {"live", "failing"}
  BY DEF ProbeVerdict, ProbeFrame, engineVars
<1>2. PICK ev : inbox' = Append(inbox, ev) /\ Verdict(ev, j) /\ \A i \in Ids \ {j} : ~Verdict(ev, i)
  <2> DEFINE a == [type |-> "probe", job |-> j, out |-> "Ready", stamp |-> Stamp(E, probe[j].key)]
             b == [type |-> "probe", job |-> j, out |-> "Failed"]
  <2>1. /\ Verdict(a, j) /\ \A i \in Ids \ {j} : ~Verdict(a, i)
        /\ Verdict(b, j) /\ \A i \in Ids \ {j} : ~Verdict(b, i)
    BY DEF Verdict
  <2>2. inbox' = Append(inbox, a) \/ inbox' = Append(inbox, b)
    BY DEF ProbeVerdict, Post
  <2> HIDE DEF a, b
  <2> QED
    BY <2>1, <2>2
<1>3. /\ probe'[j].st \in {"judged", "judgedFailing"}
      /\ \A i \in Ids \ {j} : probe'[i] = probe[i]
  <2>1. PICK st \in {"judged", "judgedFailing"} : probe' = [probe EXCEPT ![j].st = st]
    BY DEF ProbeVerdict
  <2> QED
    BY <2>1, Typed DEF ProbeRecord
<1>4. \A i \in Ids \ {j} : JobFollowed(E', i)
  BY <1>1, <1>2, <1>3, OthersFollowed
<1>5. JobFollowed(E', j)
  <2>1. /\ E'.jobs = E.jobs /\ E'.nextId = E.nextId /\ E'.tracked = E.tracked
        /\ E'.probe = probe' /\ E.probe = probe
        /\ E.inbox = inbox /\ E'.inbox = inbox' /\ inbox \in Seq(Event)
    BY <1>1, Typed DEF E
  <2>2. JobFollowed(E, j) /\ Live(E, j) /\ E.probe[j].st # "none"
    BY <1>1, <2>1 DEF Ordered, Followed, FollowedBut, Live
  <2>3. Told(inbox', j) /\ (~Told(inbox, j) => OneReady(inbox', j))
    <3> DEFINE s == inbox
               t == inbox'
    <3>1. t = Append(s, ev) /\ s \in Seq(Event)
      BY <1>2, <2>1
    <3> HIDE DEF s, t
    <3>2. (Told(t, j) <=> Told(s, j) \/ Verdict(ev, j)) /\ (~Told(s, j) => OneReady(t, j))
      BY ONLY <3>1, VerdictsAppend
    <3> QED
      BY <1>2, <3>2 DEF s, t
  <2>4. ~Live(E', j)
    BY <1>3, <2>1 DEF Live
  <2>5. j \notin E.tracked => E.jobs[j].state = Absent
    BY <2>2 DEF JobFollowed
  <2> QED
    BY <2>1, <2>2, <2>3, <2>4, <2>5 DEF JobFollowed, Waiting, Absent
<1>6. \A i \in Ids : JobFollowed(E', i)
  BY <1>4, <1>5
<1> QED
  BY <1>1, <1>6, AroundAdvances

LEMMA ProbeMergeAdvances ==
  ASSUME IInv, IInv', Ordered(E), NEW j \in Ids, ProbeMerge(j) PROVE Advances
<1> DEFINE ev == [type |-> "probe", job |-> j, out |-> "Failed"]
<1>1. /\ UNCHANGED <<jobs, nextId, tracked>> /\ probe[j].st \in {"judged", "judgedFailing"}
      /\ inbox' = inbox \/ inbox' = Append(inbox, ev)
  BY DEF ProbeMerge, ProbeFrame, engineVars, Post
<1>2. ev.out = "Failed" /\ Verdict(ev, j) /\ \A i \in Ids \ {j} : ~Verdict(ev, i)
  BY DEF Verdict
<1> HIDE DEF ev
<1>3. probe'[j].st = "none" /\ \A i \in Ids \ {j} : probe'[i] = probe[i]
  BY Typed DEF ProbeMerge, NoProbe
<1>4. \A i \in Ids \ {j} : JobFollowed(E', i)
  BY <1>1, <1>2, <1>3, OthersFollowed
<1>5. JobFollowed(E', j)
  <2>1. /\ E'.jobs = E.jobs /\ E'.nextId = E.nextId /\ E'.tracked = E.tracked
        /\ E'.probe = probe' /\ E.probe = probe
        /\ E.inbox = inbox /\ E'.inbox = inbox' /\ inbox \in Seq(Event)
    BY <1>1, Typed DEF E
  <2>2. JobFollowed(E, j) /\ ~Live(E, j) /\ E.probe[j].st # "none"
    BY <1>1, <2>1 DEF Ordered, Followed, FollowedBut, Live
  <2>3. /\ Told(inbox, j) => Told(inbox', j)
        /\ OnlyFails(inbox, j) => OnlyFails(inbox', j)
        /\ OneReady(inbox, j) => OneReady(inbox', j)
    <3>1. CASE inbox' = inbox
      BY <3>1
    <3>2. CASE inbox' = Append(inbox, ev)
      <4> DEFINE s == inbox
                 t == inbox'
      <4>1. t = Append(s, ev) /\ s \in Seq(Event)
        BY <2>1, <3>2
      <4> HIDE DEF s, t
      <4>2. /\ Told(t, j) <=> Told(s, j) \/ Verdict(ev, j)
            /\ (~Verdict(ev, j) \/ ev.out = "Failed") /\ OnlyFails(s, j) => OnlyFails(t, j)
            /\ (~Verdict(ev, j) \/ ev.out = "Failed") /\ OneReady(s, j) => OneReady(t, j)
        BY ONLY <4>1, VerdictsAppend
      <4> QED
        BY <1>2, <4>2 DEF s, t
    <3> QED
      BY <1>1, <3>1, <3>2
  <2>4. ~Live(E', j)
    BY <1>3, <2>1 DEF Live
  <2> QED
    BY <2>1, <2>2, <2>3, <2>4 DEF JobFollowed
<1>6. \A i \in Ids : JobFollowed(E', i)
  BY <1>4, <1>5
<1> QED
  BY <1>1, <1>6, AroundAdvances
LEMMA NextAdvances ==
  ASSUME IInv, Ordered(E), Distinct, StartsNothingOver, [Next]_vars PROVE IInv' /\ Advances
<1>1. IInv'
  BY NextStep
<1>2. CASE Apply
  BY <1>1, <1>2, ApplyAdvances
<1>3. CASE UserStep
  <2>1. ASSUME NEW name \in Commands, NEW j \in Ids, OnJob(name, j) PROVE Advances
    BY <2>1, OnJobAdvances
  <2>2. ASSUME NEW k \in Keys, AddManualFile(k) PROVE Advances
    BY <2>2, AddManualFileAdvances
  <2>3. ~SetAutoProcess /\ ~ReprobeMkvmerge
    BY DEF SetAutoProcess, ReprobeMkvmerge, StartsNothingOver
  <2> QED
    BY <1>1, <1>3, <2>1, <2>2, <2>3 DEF UserStep
<1>4. CASE MuxStep
  BY <1>1, <1>4, MuxAdvances
<1>5. CASE WorldStep
  BY <1>1, <1>5, WorldAdvances
<1>6. ASSUME NEW j \in Ids, ProbeStep(j) \/ ProbeWriting(j) PROVE Advances
  BY <1>1, <1>6, ProbeVerdictAdvances, ProbeMergeAdvances, ProbeWritingAdvances DEF ProbeStep
<1>7. CASE UNCHANGED vars
  <2>1. UNCHANGED <<jobs, nextId, tracked, probe, inbox>>
    BY <1>7 DEF vars, engineVars, workerVars
  <2> QED
    BY <1>1, <2>1, AsideAdvances DEF NoVerdict
<1> QED
  BY <1>1, <1>2, <1>3, <1>4, <1>5, <1>6, <1>7 DEF Next

LEMMA InitOrdered ==
  ASSUME Init PROVE Ordered(E)
<1>1. /\ E.jobs = [j \in Ids |-> NoJob] /\ E.probe = [j \in Ids |-> NoProbe]
      /\ E.inbox = <<>> /\ E.tracked = {} /\ Sound(E)
  BY InitSound DEF Init, E, IInv
<1>2. /\ NoJob.state = Absent /\ NoProbe.st = "none"
  BY NoJobFacts DEF NoProbe
<1>3. \A j \in Ids : JobFollowed(E, j)
  <2>1. Len(E.inbox) = 0
    BY <1>1, EmptySeq
  <2>2. \A j \in Ids : ~Told(E.inbox, j)
    BY <2>1 DEF Told
  <2> QED
    BY <1>1, <1>2, <2>2 DEF JobFollowed, Live, Waiting, Absent
<1>4. Ranked(E)
  BY <1>1, <1>2 DEF Ranked, IsActive
<1> QED
  BY <1>1, <1>3, <1>4 DEF Ordered, Followed, FollowedBut

LEMMA NewestIsOnly ==
  ASSUME IInv, Ordered(E) PROVE OneActivePerKey
<1> SUFFICES ASSUME NEW k \in Keys PROVE Cardinality(OfKey(E, k) \cap Active(E)) <= 1
  BY DEF OneActivePerKey
<1> DEFINE S == OfKey(E, k) \cap Active(E)
<1>1. S \subseteq 1..MaxJobs /\ MaxJobs \in Nat
  BY BoundsAssumption DEF OfKey, Ids
<1>2. ASSUME NEW i \in S, NEW j \in S, i # j PROVE FALSE
  <2>1. i \in Ids /\ j \in Ids /\ IsActive(E, i) /\ IsActive(E, j) /\ E.jobs[i].key = E.jobs[j].key
    BY DEF OfKey, Active, IsActive
  <2>2. Outranks(E, i, j) /\ Outranks(E, j, i)
    BY <1>2, <2>1 DEF Ordered, Ranked
  <2>3. E.jobs[i].gen \in Nat /\ E.jobs[j].gen \in Nat /\ i \in Nat /\ j \in Nat
    <3>1. E.jobs[i] \in JobRecord /\ E.jobs[j] \in JobRecord
      BY <2>1 DEF Ordered, Sound, Engine
    <3> QED
      BY <1>1, <2>1, <3>1 DEF JobRecord, Ids
  <2> QED
    BY <2>2, <2>3 DEF Outranks
<1> HIDE DEF S
<1>3. Cardinality(S) = IF S = {} THEN 0 ELSE 1
  BY <1>1, <1>2, OneOrNone
<1> QED
  BY <1>3 DEF S

LEMMA FollowedIsLive ==
  ASSUME IInv, Ordered(E) PROVE TrackedProbesLive
<1> SUFFICES ASSUME NEW j \in Ids
             PROVE  /\ j \in tracked => /\ jobs[j].state \in Waiting
                                        /\ probe[j].st \in {"live", "failing"} \/ Verdicts(j) # {}
                    /\ jobs[j].state # Absent /\ probe[j].st \in {"live", "failing"} => j \in tracked
  BY DEF TrackedProbesLive
<1>1. E.jobs = jobs /\ E.tracked = tracked /\ E.probe = probe /\ E.inbox = inbox
  BY DEF E
<1>2. JobFollowed(E, j)
  BY DEF Ordered, Followed, FollowedBut
<1>3. Told(inbox, j) => Verdicts(j) # {}
  BY Typed, LenProperties DEF Told, Verdict, Verdicts
<1> QED
  BY <1>1, <1>2, <1>3 DEF JobFollowed, Live

(* However triggers, verdicts, failures and the commands that start        *)
(* nothing over are mixed, and whatever happens to the files, an export    *)
(* whose path differs from the others' in more than its extension has one  *)
(* active job, the newest of the path; a job that waits for its file has a *)
(* probe that runs or a verdict on its way; and a job that has ended is    *)
(* left alone by every event.                                              *)
THEOREM EveryTriggerJoins ==
  ASSUME Distinct, StartsNothingOver PROVE Spec => OneJobPerExport
<1> DEFINE Once == IInv /\ Ordered(E)
<1>1. Init => Once
  BY InitSound, InitOrdered
<1>2. Once /\ [Next]_vars => Once'
  BY NextAdvances DEF Advances
<1>3. Once => OneActivePerKey /\ TrackedProbesLive
  BY NewestIsOnly, FollowedIsLive
<1>4. Once /\ [Next]_vars =>
        [\A j \in Ids : jobs[j].state \in Terminal /\ jobs'[j].state # jobs[j].state
            => commands' # commands]_vars
  <2> SUFFICES ASSUME Once, [Next]_vars, NEW j \in Ids, jobs[j].state \in Terminal,
                      jobs'[j].state # jobs[j].state
               PROVE  commands' # commands
    OBVIOUS
  <2>1. Advances
    BY NextAdvances
  <2>2. E.jobs = jobs /\ E'.jobs = jobs'
    BY DEF E
  <2> QED
    BY <2>1, <2>2 DEF Advances, Final
<1> HIDE DEF Once
<1> QED
  BY <1>1, <1>2, <1>3, <1>4, PTL DEF Spec, OneJobPerExport, TerminalIsFinal
=============================================================================
