--------------------------- MODULE JobEngineProofs ---------------------------
(***************************************************************************)
(* Theorems about JobEngine, for any outputs, triggers, commands and       *)
(* settings: its types, that the mux is accounted for, and that a job on   *)
(* hold stays out of it.                                                   *)
(*                                                                         *)
(* A handler leads from an engine state to a set of them, so the invariant *)
(* is written as predicates of an engine state: Sound, what the table and  *)
(* the probes look like, and Booked, what it means that the mux is         *)
(* accounted for.  A handler is a chain of small changes; each change has  *)
(* a lemma (Edits, or which fields it leaves alone), and four relations    *)
(* say what a whole handler does to the mux: it is Quiet, it Makes a job,  *)
(* it Sends one to the mux, or one Leaves it.  Each keeps the books.       *)
(*                                                                         *)
(* The invariant IInv is kept by every step: by those that commit what a   *)
(* handler returns because of those lemmas, by those of the workers and of *)
(* the world because they leave the table alone (AroundStep) or move one   *)
(* job from queue_ to current_ to its end.                                 *)
(***************************************************************************)
EXTENDS JobEngine, FiniteSetTheorems, SequenceTheorems, WellFoundedInduction, TLAPS

Stamps == [id : 0..MaxExports, size : Sizes \cup {0}]
Request == [job : Ids, key : Keys]
ProbeRecord == [st : {"none", "live", "failing", "judged", "judgedFailing"},
                key : Keys \cup {NoKey}]
MuxRecord == [job : Ids \cup {0}, key : Keys \cup {NoKey}, verified : BOOLEAN, cancel : BOOLEAN]
FileRecord == [id : 0..MaxExports, size : Sizes \cup {0}, content : 0..MaxExports]
Changes == {"none", "Added", "Modified", "Removed"}
Texts == {"ok", "failed", "newer", "older", "started"}
Event == [type : {"log", "cep"}, key : Keys, what : Texts]
         \cup [type : {"sidecar"}, key : Keys]
         \cup [type : {"output"}, key : Keys, action : Changes, scan : BOOLEAN]
         \cup [type : {"probe"}, job : Ids, out : {"Writing", "Failed"}]
         \cup [type : {"probe"}, job : Ids, out : {"Ready"}, stamp : Stamps]
         \cup [type : {"mux"}, job : Ids, out : {"Verifying", "Done", "Failed", "Cancelled"}]

Engine == [jobs : [Ids -> JobRecord], nextId : 1..(MaxJobs + 1), tracked : SUBSET Ids,
           forced : SUBSET Ids, auto : BOOLEAN, tool : BOOLEAN, probe : [Ids -> ProbeRecord],
           queue : Seq(Request), muxing : MuxRecord, inbox : Seq(Event),
           file : [Keys -> FileRecord], change : [Keys -> Changes]]

Holding == {r \in JobRecord : r.hold}

\* The table and the probes.
JobSound(e, j) ==
    /\ e.jobs[j].state = Absent <=> e.jobs[j].key = NoKey
    /\ e.jobs[j].gen <= j
    /\ j \in e.forced => e.jobs[j] \notin Holding
    /\ e.probe[j].st # "none" => e.probe[j].key \in Keys
    /\ j >= e.nextId => e.jobs[j].state = Absent

Sound(e) == /\ e \in Engine
            /\ \A j \in Ids : JobSound(e, j)
            /\ e.muxing.job # 0 => e.muxing.key \in Keys

\* The mux.
IsEnd(ev, j) == ev.type = "mux" /\ ev.job = j /\ ev.out # "Verifying"
HasEnd(s, j) == \E i \in 1..Len(s) : IsEnd(s[i], j)
OneEnd(s) == \A j \in Ids : \A i, k \in 1..Len(s) : IsEnd(s[i], j) /\ IsEnd(s[k], j) => i = k
Asked(q, j) == \E i \in 1..Len(q) : q[i].job = j
OneRequest(q) == \A i, k \in 1..Len(q) : q[i].job = q[k].job => i = k

\* A job in the mux has its request, its run or its end, and only one of them.
JobBooked(e, j) ==
    /\ ~(Asked(e.queue, j) /\ e.muxing.job = j)
    /\ ~(Asked(e.queue, j) /\ HasEnd(e.inbox, j))
    /\ ~(e.muxing.job = j /\ HasEnd(e.inbox, j))
    /\ e.jobs[j].state \in InMux =>
         Asked(e.queue, j) \/ e.muxing.job = j \/ HasEnd(e.inbox, j)
    /\ e.jobs[j].state \notin InMux \cup {Absent} =>
         ~Asked(e.queue, j) /\ e.muxing.job # j /\ ~HasEnd(e.inbox, j)
    /\ e.jobs[j].state = Absent => /\ ~Asked(e.queue, j)
                                   /\ e.muxing.job = j => e.muxing.cancel
    /\ j >= e.nextId => e.muxing.job # j /\ ~HasEnd(e.inbox, j)

BookedBut(e, S) == /\ OneRequest(e.queue) /\ OneEnd(e.inbox)
                   /\ \A j \in Ids \ S : JobBooked(e, j)
Booked(e) == BookedBut(e, {})

\* What a handler does to the mux.
SameClass(e, f, j) == /\ f.jobs[j].state \in InMux <=> e.jobs[j].state \in InMux
                      /\ f.jobs[j].state = Absent <=> e.jobs[j].state = Absent
Quiet(e, f) == /\ f.queue = e.queue /\ f.muxing = e.muxing /\ f.inbox = e.inbox
               /\ f.nextId = e.nextId
               /\ \A i \in Ids : SameClass(e, f, i)
Outside(e, j) == e.jobs[j].state \notin InMux \cup {Absent}
Makes(e, f) == /\ f.queue = e.queue /\ f.muxing = e.muxing /\ f.inbox = e.inbox
               /\ e.nextId \in Ids /\ f.nextId = e.nextId + 1
               /\ Outside(f, e.nextId)
               /\ \A i \in Ids \ {e.nextId} : SameClass(e, f, i)
Sends(e, f, j) == /\ f.muxing = e.muxing /\ f.inbox = e.inbox /\ f.nextId = e.nextId
                  /\ \A i \in Ids \ {j} : SameClass(e, f, i)
                  /\ Outside(e, j) /\ f.jobs[j].state = "Muxing" /\ f.jobs[j] \notin Holding
                  /\ \E k \in Keys : f.queue = Append(e.queue, [job |-> j, key |-> k])
Leaves(e, f, j) == /\ f.queue = e.queue /\ f.muxing = e.muxing /\ f.inbox = e.inbox
                   /\ f.nextId = e.nextId
                   /\ \A i \in Ids \ {j} : SameClass(e, f, i)
                   /\ Outside(f, j)

\* A job that enters the mux is not on hold.
Released(e, f) == \A j \in Ids : f.jobs[j].state \in InMux /\ e.jobs[j].state \notin InMux
                                 => f.jobs[j] \notin Holding

-----------------------------------------------------------------------------
(* Requests and ends in a sequence *)

LEMMA AskedAppend ==
  ASSUME NEW q \in Seq(Request), NEW r \in Request
  PROVE  /\ Append(q, r) \in Seq(Request)
         /\ \A j : Asked(Append(q, r), j) <=> Asked(q, j) \/ r.job = j
         /\ OneRequest(q) /\ ~Asked(q, r.job) => OneRequest(Append(q, r))
<1> DEFINE t == Append(q, r)
<1>1. /\ t \in Seq(Request) /\ Len(t) = Len(q) + 1
      /\ \A i \in 1..Len(q) : t[i] = q[i]
      /\ t[Len(q) + 1] = r
  BY AppendProperties
<1>2. Len(q) \in Nat
  BY LenProperties
<1> HIDE DEF t
<1>3. \A j : Asked(t, j) <=> Asked(q, j) \/ r.job = j
  BY <1>1, <1>2 DEF Asked
<1>4. OneRequest(q) /\ ~Asked(q, r.job) => OneRequest(t)
  BY <1>1, <1>2 DEF OneRequest, Asked
<1> QED
  BY <1>1, <1>3, <1>4 DEF t

LEMMA AskedTail ==
  ASSUME NEW q \in Seq(Request), OneRequest(q), q # <<>>
  PROVE  /\ Tail(q) \in Seq(Request) /\ OneRequest(Tail(q)) /\ Head(q) \in Request
         /\ Asked(q, Head(q).job)
         /\ \A j : Asked(Tail(q), j) <=> Asked(q, j) /\ j # Head(q).job
<1> DEFINE t == Tail(q)
<1>1. /\ t \in Seq(Request) /\ Len(t) = Len(q) - 1
      /\ \A i \in 1..Len(t) : t[i] = q[i + 1]
  BY HeadTailProperties
<1>2. Len(q) \in Nat \ {0}
  BY LenProperties, EmptySeq
<1>3. Head(q) = q[1] /\ Head(q) \in Request
  BY <1>2, ElementOfSeq
<1> HIDE DEF t
<1>4. OneRequest(t)
  BY <1>1, <1>2 DEF OneRequest
<1>5. Asked(q, Head(q).job)
  BY <1>2, <1>3 DEF Asked
<1>6. ASSUME NEW j, Asked(t, j) PROVE Asked(q, j) /\ j # Head(q).job
  <2>1. PICK i \in 1..Len(t) : t[i].job = j
    BY <1>6 DEF Asked
  <2>2. i + 1 \in 1..Len(q) /\ i + 1 # 1 /\ 1 \in 1..Len(q) /\ q[i + 1].job = j
    BY <1>1, <1>2, <2>1
  <2> QED
    BY <1>3, <2>2 DEF Asked, OneRequest
<1>7. ASSUME NEW j, Asked(q, j), j # Head(q).job PROVE Asked(t, j)
  <2>1. PICK i \in 1..Len(q) : q[i].job = j
    BY <1>7 DEF Asked
  <2>2. i - 1 \in 1..Len(t) /\ t[i - 1] = q[i]
    BY <1>1, <1>2, <1>3, <1>7, <2>1
  <2> QED
    BY <2>1, <2>2 DEF Asked
<1> QED
  BY <1>1, <1>3, <1>4, <1>5, <1>6, <1>7 DEF t

LEMMA RemoveRequest ==
  ASSUME NEW q \in Seq(Request), OneRequest(q), NEW n \in 1..Len(q)
  PROVE  /\ RemoveAt(q, n) \in Seq(Request) /\ OneRequest(RemoveAt(q, n))
         /\ \A i : Asked(RemoveAt(q, n), i) <=> Asked(q, i) /\ i # q[n].job
<1> DEFINE t == RemoveAt(q, n)
           a == SubSeq(q, 1, n - 1)
           b == SubSeq(q, n + 1, Len(q))
<1>1. Len(q) \in Nat
  BY LenProperties
<1>2. \A i \in 1..Len(q) : q[i] \in Request
  BY ElementOfSeq
<1>3. /\ a \in Seq(Request) /\ Len(a) = n - 1
      /\ \A i \in 1..(n - 1) : a[i] = q[i]
  BY <1>1, <1>2, SubSeqProperties
<1>4. /\ b \in Seq(Request) /\ Len(b) = Len(q) - n
      /\ \A i \in 1..(Len(q) - n) : b[i] = q[n + i]
  BY <1>1, <1>2, SubSeqProperties
<1>5. t = a \o b
  BY DEF RemoveAt
<1> HIDE DEF a, b, t
<1>6. /\ t \in Seq(Request) /\ Len(t) = Len(q) - 1
      /\ \A i \in 1..Len(t) : t[i] = IF i < n THEN q[i] ELSE q[i + 1]
  <2>1. /\ t \in Seq(Request) /\ Len(t) = Len(a) + Len(b)
        /\ \A i \in 1..(Len(a) + Len(b)) :
              t[i] = IF i <= Len(a) THEN a[i] ELSE b[i - Len(a)]
    BY <1>3, <1>4, <1>5, ConcatProperties
  <2>2. Len(t) = Len(q) - 1
    BY <1>1, <1>3, <1>4, <2>1
  <2>3. ASSUME NEW i \in 1..Len(t), i < n PROVE t[i] = q[i]
    BY <1>1, <1>3, <1>4, <2>1, <2>2, <2>3
  <2>4. ASSUME NEW i \in 1..Len(t), ~(i < n) PROVE t[i] = q[i + 1]
    <3>1. i - (n - 1) \in 1..(Len(q) - n)
      BY <1>1, <2>2, <2>4
    <3>2. t[i] = b[i - (n - 1)]
      BY <1>1, <1>3, <1>4, <2>1, <2>2, <2>4
    <3> QED
      BY <1>1, <1>4, <3>1, <3>2
  <2> QED
    BY <2>1, <2>2, <2>3, <2>4
<1>7. OneRequest(t)
  BY <1>1, <1>6 DEF OneRequest
<1>8. ASSUME NEW i, Asked(t, i) PROVE Asked(q, i) /\ i # q[n].job
  <2>1. PICK k \in 1..Len(t) : t[k].job = i
    BY <1>8 DEF Asked
  <2>2. PICK m \in 1..Len(q) : m # n /\ q[m].job = i
    BY <1>1, <1>6, <2>1
  <2> QED
    BY <2>2 DEF Asked, OneRequest
<1>9. ASSUME NEW i, Asked(q, i), i # q[n].job PROVE Asked(t, i)
  <2>1. PICK k \in 1..Len(q) : q[k].job = i
    BY <1>9 DEF Asked
  <2>2. CASE k < n
    BY <1>1, <1>6, <2>1, <2>2 DEF Asked
  <2>3. CASE k > n
    <3>1. k - 1 \in 1..Len(t) /\ t[k - 1] = q[k]
      BY <1>1, <1>6, <2>1, <2>3
    <3> QED
      BY <2>1, <3>1 DEF Asked
  <2> QED
    BY <1>9, <2>1, <2>2, <2>3
<1> QED
  BY <1>6, <1>7, <1>8, <1>9 DEF t

LEMMA AskedRemove ==
  ASSUME NEW q \in Seq(Request), OneRequest(q), NEW j, Asked(q, j)
  PROVE  LET t == RemoveAt(q, FirstRequest(q, j))
         IN  /\ t \in Seq(Request) /\ OneRequest(t)
             /\ \A i : Asked(t, i) <=> Asked(q, i) /\ i # j
<1>1. Len(q) \in Nat /\ DOMAIN q = 1..Len(q)
  BY LenProperties
<1>2. PICK i \in 1..Len(q) : q[i].job = j
  BY DEF Asked
<1>3. \A k \in 1..(i - 1) : q[k].job # j
  BY <1>1, <1>2 DEF OneRequest
<1>4. FirstRequest(q, j) \in 1..Len(q) /\ q[FirstRequest(q, j)].job = j
  BY <1>1, <1>2, <1>3 DEF FirstRequest
<1> QED
  BY <1>4, RemoveRequest

LEMMA EndsAppend ==
  ASSUME NEW s \in Seq(Event), NEW ev \in Event
  PROVE  /\ Append(s, ev) \in Seq(Event)
         /\ \A j : HasEnd(Append(s, ev), j) <=> HasEnd(s, j) \/ IsEnd(ev, j)
         /\ OneEnd(s) /\ (\A j \in Ids : IsEnd(ev, j) => ~HasEnd(s, j)) => OneEnd(Append(s, ev))
<1> DEFINE t == Append(s, ev)
<1>1. /\ t \in Seq(Event) /\ Len(t) = Len(s) + 1
      /\ \A i \in 1..Len(s) : t[i] = s[i]
      /\ t[Len(s) + 1] = ev
  BY AppendProperties
<1>2. Len(s) \in Nat
  BY LenProperties
<1> HIDE DEF t
<1>3. \A j : HasEnd(t, j) <=> HasEnd(s, j) \/ IsEnd(ev, j)
  BY <1>1, <1>2 DEF HasEnd
<1>4. OneEnd(s) /\ (\A j \in Ids : IsEnd(ev, j) => ~HasEnd(s, j)) => OneEnd(t)
  BY <1>1, <1>2 DEF OneEnd, HasEnd
<1> QED
  BY <1>1, <1>3, <1>4 DEF t

LEMMA EndsTail ==
  ASSUME NEW s \in Seq(Event), OneEnd(s), s # <<>>
  PROVE  /\ Tail(s) \in Seq(Event) /\ OneEnd(Tail(s)) /\ Head(s) \in Event
         /\ \A j \in Ids : IsEnd(Head(s), j) => HasEnd(s, j)
         /\ \A j \in Ids : HasEnd(Tail(s), j) <=> HasEnd(s, j) /\ ~IsEnd(Head(s), j)
<1> DEFINE t == Tail(s)
<1>1. /\ t \in Seq(Event) /\ Len(t) = Len(s) - 1
      /\ \A i \in 1..Len(t) : t[i] = s[i + 1]
  BY HeadTailProperties
<1>2. Len(s) \in Nat \ {0}
  BY LenProperties, EmptySeq
<1>3. Head(s) = s[1] /\ Head(s) \in Event
  BY <1>2, ElementOfSeq
<1> HIDE DEF t
<1>4. OneEnd(t)
  BY <1>1, <1>2 DEF OneEnd
<1>5. \A j \in Ids : IsEnd(Head(s), j) => HasEnd(s, j)
  BY <1>2, <1>3 DEF HasEnd
<1>6. \A j \in Ids : HasEnd(t, j) => HasEnd(s, j) /\ ~IsEnd(Head(s), j)
  BY <1>1, <1>2, <1>3 DEF HasEnd, OneEnd
<1>7. ASSUME NEW j \in Ids, HasEnd(s, j), ~IsEnd(Head(s), j) PROVE HasEnd(t, j)
  <2>1. PICK i \in 1..Len(s) : IsEnd(s[i], j)
    BY <1>7 DEF HasEnd
  <2>2. i - 1 \in 1..Len(t) /\ t[i - 1] = s[i]
    BY <1>1, <1>2, <1>3, <1>7, <2>1
  <2> QED
    BY <2>1, <2>2 DEF HasEnd
<1> QED
  BY <1>1, <1>3, <1>4, <1>5, <1>6, <1>7 DEF t

-----------------------------------------------------------------------------
(* The four effects keep the books *)

LEMMA QuietBooks ==
  ASSUME NEW e, NEW f, NEW S, Sound(e), Sound(f), BookedBut(e, S), Quiet(e, f)
  PROVE  BookedBut(f, S)
<1>1. ASSUME NEW j \in Ids \ S PROVE JobBooked(f, j)
  <2>1. JobBooked(e, j) /\ SameClass(e, f, j)
    BY DEF BookedBut, Quiet
  <2> QED
    BY <2>1 DEF JobBooked, SameClass, Quiet
<1> QED
  BY <1>1 DEF BookedBut, Quiet

LEMMA MakesBooks ==
  ASSUME NEW e, NEW f, Sound(e), Sound(f), Booked(e), Makes(e, f)
  PROVE  Booked(f)
<1>1. e.nextId \in Nat /\ \A j \in Ids : j \in Nat
  BY BoundsAssumption DEF Sound, Engine, Ids
<1>2. ASSUME NEW j \in Ids, j # e.nextId PROVE JobBooked(f, j)
  <2>1. JobBooked(e, j) /\ SameClass(e, f, j) /\ (j >= f.nextId => j >= e.nextId)
    BY <1>1, <1>2 DEF Booked, BookedBut, Makes
  <2> QED
    BY <2>1 DEF JobBooked, SameClass, Makes
<1>3. JobBooked(f, e.nextId)
  <2> DEFINE j == e.nextId
  <2>1. j \in Ids /\ JobBooked(e, j) /\ j >= e.nextId /\ ~(j >= f.nextId)
    BY <1>1 DEF Booked, BookedBut, Makes
  <2>2. e.jobs[j].state = Absent
    BY <2>1 DEF Sound, JobSound
  <2>3. ~Asked(e.queue, j) /\ e.muxing.job # j /\ ~HasEnd(e.inbox, j)
    BY <2>1, <2>2 DEF JobBooked
  <2> QED
    BY <2>1, <2>3 DEF JobBooked, Makes, Outside
<1> QED
  BY <1>2, <1>3 DEF Booked, BookedBut, Makes

LEMMA SendsBooks ==
  ASSUME NEW e, NEW f, NEW j \in Ids, Sound(e), Sound(f), Booked(e), Sends(e, f, j)
  PROVE  Booked(f) /\ Released(e, f)
<1>1. PICK k \in Keys : f.queue = Append(e.queue, [job |-> j, key |-> k])
  BY DEF Sends
<1> DEFINE r == [job |-> j, key |-> k]
<1>2. e.queue \in Seq(Request) /\ r \in Request /\ r.job = j
  BY DEF Sound, Engine, Request
<1>3. JobBooked(e, j)
  BY DEF Booked, BookedBut
<1>4. ~Asked(e.queue, j) /\ e.muxing.job # j /\ ~HasEnd(e.inbox, j)
  BY <1>3 DEF JobBooked, Sends, Outside
<1>5. OneRequest(e.queue)
  BY DEF Booked, BookedBut
<1>6. OneRequest(f.queue) /\ \A i : Asked(f.queue, i) <=> Asked(e.queue, i) \/ i = j
  BY <1>1, <1>2, <1>4, <1>5, AskedAppend
<1>7. ASSUME NEW i \in Ids, i # j PROVE JobBooked(f, i)
  <2>1. JobBooked(e, i) /\ SameClass(e, f, i)
    BY <1>7 DEF Booked, BookedBut, Sends
  <2> QED
    BY <1>6, <1>7, <2>1 DEF JobBooked, SameClass, Sends
<1>8. JobBooked(f, j)
  <2>1. f.jobs[j].state # Absent /\ f.jobs[j].state \in InMux /\ ~(j >= f.nextId)
    <3>1. e.jobs[j].state # Absent
      BY DEF Sends, Outside
    <3>2. ~(j >= e.nextId)
      BY <3>1 DEF Sound, JobSound
    <3> QED
      BY <3>2 DEF Sends, InMux, Absent
  <2> QED
    BY <1>4, <1>6, <2>1 DEF JobBooked, Sends
<1>9. Booked(f)
  BY <1>6, <1>7, <1>8 DEF Booked, BookedBut, Sends
<1>10. Released(e, f)
  BY DEF Released, Sends, SameClass
<1> QED
  BY <1>9, <1>10

LEMMA LeavesBooks ==
  ASSUME NEW e, NEW f, NEW j \in Ids, Sound(e), Sound(f), BookedBut(e, {j}), Leaves(e, f, j),
         ~Asked(e.queue, j), e.muxing.job # j, ~HasEnd(e.inbox, j)
  PROVE  Booked(f) /\ Released(e, f)
<1>1. ASSUME NEW i \in Ids, i # j PROVE JobBooked(f, i)
  <2>1. JobBooked(e, i) /\ SameClass(e, f, i)
    BY <1>1 DEF BookedBut, Leaves
  <2> QED
    BY <2>1 DEF JobBooked, SameClass, Leaves
<1>2. JobBooked(f, j)
  BY DEF JobBooked, Leaves, Outside
<1>3. Booked(f)
  BY <1>1, <1>2 DEF Booked, BookedBut, Leaves
<1>4. Released(e, f)
  BY DEF Released, Leaves, SameClass, Outside
<1> QED
  BY <1>3, <1>4

LEMMA QuietReleases ==
  ASSUME NEW e, NEW f, Quiet(e, f) PROVE Released(e, f)
BY DEF Quiet, Released, SameClass

LEMMA MakesReleases ==
  ASSUME NEW e, NEW f, Makes(e, f) PROVE Released(e, f)
BY DEF Makes, Released, SameClass, Outside

LEMMA QuietTwice ==
  ASSUME NEW e, NEW f, NEW g, Quiet(e, f), Quiet(f, g) PROVE Quiet(e, g)
BY DEF Quiet, SameClass

LEMMA QuietMakes ==
  ASSUME NEW e, NEW f, NEW g, Quiet(e, f), Makes(f, g) PROVE Makes(e, g)
BY DEF Quiet, Makes, SameClass

LEMMA MakesQuiet ==
  ASSUME NEW e, NEW f, NEW g, Makes(e, f), Quiet(f, g) PROVE Makes(e, g)
BY DEF Quiet, Makes, SameClass, Outside

LEMMA QuietSends ==
  ASSUME NEW e, NEW f, NEW g, NEW j \in Ids, Quiet(e, f), Sends(f, g, j) PROVE Sends(e, g, j)
BY DEF Quiet, Sends, SameClass, Outside

-----------------------------------------------------------------------------
(* The next event *)

LEMMA Popped ==
  ASSUME NEW e, Sound(e), Booked(e), e.inbox # <<>>
  PROVE  LET d == [e EXCEPT !.inbox = Tail(@)]
             ev == Head(e.inbox)
         IN  /\ Sound(d) /\ ev \in Event
             /\ d.jobs = e.jobs /\ d.inbox = Tail(e.inbox) /\ d.nextId = e.nextId
             /\ (\A j \in Ids : ~IsEnd(ev, j)) => Booked(d)
             /\ \A j \in Ids : IsEnd(ev, j) =>
                   /\ BookedBut(d, {j})
                   /\ d.jobs[j].state \in InMux \cup {Absent}
                   /\ d.jobs[j].state = Absent => JobBooked(d, j)
                   /\ ~Asked(d.queue, j) /\ d.muxing.job # j /\ ~HasEnd(d.inbox, j)
<1> DEFINE d == [e EXCEPT !.inbox = Tail(@)]
           ev == Head(e.inbox)
<1>1. e \in Engine /\ e.inbox \in Seq(Event) /\ OneEnd(e.inbox)
  BY DEF Sound, Engine, Booked, BookedBut
<1>2. /\ Tail(e.inbox) \in Seq(Event) /\ OneEnd(Tail(e.inbox)) /\ ev \in Event
      /\ \A j \in Ids : IsEnd(ev, j) => HasEnd(e.inbox, j)
      /\ \A j \in Ids : HasEnd(Tail(e.inbox), j) <=> HasEnd(e.inbox, j) /\ ~IsEnd(ev, j)
  BY <1>1, EndsTail
<1>3. /\ d \in Engine /\ d.inbox = Tail(e.inbox) /\ d.jobs = e.jobs /\ d.nextId = e.nextId
      /\ d.forced = e.forced /\ d.probe = e.probe /\ d.queue = e.queue /\ d.muxing = e.muxing
  BY <1>1, <1>2 DEF Engine
<1> HIDE DEF d, ev
<1>4. Sound(d)
  BY <1>3 DEF Sound, JobSound
<1>5. ASSUME NEW j \in Ids, ~IsEnd(ev, j) PROVE JobBooked(d, j)
  <2>1. JobBooked(e, j) /\ (HasEnd(d.inbox, j) <=> HasEnd(e.inbox, j))
    BY <1>2, <1>3, <1>5 DEF Booked, BookedBut
  <2> QED
    BY <1>3, <2>1 DEF JobBooked
<1>6. OneRequest(d.queue) /\ OneEnd(d.inbox)
  BY <1>2, <1>3 DEF Booked, BookedBut
<1>7. (\A j \in Ids : ~IsEnd(ev, j)) => Booked(d)
  BY <1>5, <1>6 DEF Booked, BookedBut
<1>8. ASSUME NEW j \in Ids, IsEnd(ev, j)
      PROVE  /\ BookedBut(d, {j})
             /\ d.jobs[j].state \in InMux \cup {Absent}
             /\ d.jobs[j].state = Absent => JobBooked(d, j)
             /\ ~Asked(d.queue, j) /\ d.muxing.job # j /\ ~HasEnd(d.inbox, j)
  <2>1. \A i \in Ids \ {j} : ~IsEnd(ev, i)
    BY <1>8 DEF IsEnd
  <2>2. BookedBut(d, {j})
    BY <1>5, <1>6, <2>1 DEF BookedBut
  <2>3. JobBooked(e, j) /\ HasEnd(e.inbox, j) /\ ~HasEnd(d.inbox, j)
    BY <1>2, <1>3, <1>8 DEF Booked, BookedBut
  <2>4. d.jobs[j].state \in InMux \cup {Absent} /\ ~Asked(d.queue, j) /\ d.muxing.job # j
    BY <1>3, <2>3 DEF JobBooked
  <2>5. d.jobs[j].state = Absent => JobBooked(d, j)
    BY <2>3, <2>4 DEF JobBooked, InMux, Absent
  <2> QED
    BY <2>2, <2>3, <2>4, <2>5
<1> QED
  BY <1>2, <1>3, <1>4, <1>7, <1>8 DEF d, ev

-----------------------------------------------------------------------------
(* JobStore *)

LEMMA SmallestExists ==
  ASSUME NEW T, T \subseteq Nat, T # {} PROVE \E x \in T : \A y \in T : x <= y
<1> DEFINE less == OpToRel(<, Nat)
<1>1. \A x, y \in Nat : <<y, x>> \in less <=> y < x
  BY DEF OpToRel
<1>2. IsWellFoundedOn(less, Nat)
  BY NatLessThanWellFounded
<1> HIDE DEF less
<1>3. PICK x \in T : \A y \in T : ~(<<y, x>> \in less)
  BY <1>2, WFMin
<1>4. ASSUME NEW y \in T PROVE x <= y
  <2>1. x \in Nat /\ y \in Nat
    OBVIOUS
  <2>2. ~(y < x)
    BY <1>1, <1>3, <2>1
  <2> QED
    BY <2>1, <2>2
<1> QED
  BY <1>4

LEMMA LargestExists ==
  ASSUME NEW n \in Nat, NEW T, T \subseteq 0..n, T # {}
  PROVE  \E x \in T : \A y \in T : y <= x
<1> DEFINE U == {n - x : x \in T}
<1>1. U \subseteq Nat /\ U # {}
  <2>1. \A x \in T : n - x \in Nat
    OBVIOUS
  <2>2. PICK x \in T : TRUE
    OBVIOUS
  <2>3. n - x \in U
    OBVIOUS
  <2> QED
    BY <2>1, <2>3
<1>2. PICK u \in U : \A v \in U : u <= v
  BY <1>1, SmallestExists
<1>3. PICK x \in T : u = n - x
  BY <1>2
<1>4. ASSUME NEW y \in T PROVE y <= x
  <2>1. u <= n - y
    BY <1>2
  <2> QED
    BY <1>3, <2>1
<1> QED
  BY <1>4

\* The job that find() returns is one of those it looks among.
LEMMA BestIsMember ==
  ASSUME NEW e, Sound(e), NEW S, S \subseteq Ids
  PROVE  /\ Best(e, S) = 0 <=> S = {}
         /\ S # {} => /\ Best(e, S) \in S
                      /\ \A k \in S \ {Best(e, S)} : Outranks(e, Best(e, S), k)
<1>1. CASE S = {}
  BY <1>1 DEF Best
<1>2. CASE S # {}
  <2> DEFINE G == {e.jobs[i].gen : i \in S}
  <2>1. MaxJobs \in Nat /\ Ids \subseteq Nat /\ 0 \notin Ids /\ \A i \in Ids : i <= MaxJobs
    BY BoundsAssumption DEF Ids
  <2>2. \A i \in Ids : e.jobs[i].gen \in 0..MaxJobs
    <3> SUFFICES ASSUME NEW i \in Ids PROVE e.jobs[i].gen \in 0..MaxJobs
      OBVIOUS
    <3>1. e.jobs[i] \in JobRecord /\ e.jobs[i].gen <= i
      BY DEF Sound, JobSound, Engine
    <3>2. e.jobs[i].gen \in Nat
      BY <3>1 DEF JobRecord
    <3> QED
      BY <2>1, <3>1, <3>2
  <2>3. G \subseteq 0..MaxJobs /\ G # {}
    BY <1>2, <2>2
  <2>4. PICK g \in G : \A h \in G : h <= g
    BY <2>1, <2>3, LargestExists
  <2> DEFINE N == {i \in S : e.jobs[i].gen = g}
  <2>5. N \subseteq 0..MaxJobs /\ N # {}
    <3>1. \A i \in Ids : i \in 0..MaxJobs
      BY <2>1
    <3>2. PICK i \in S : e.jobs[i].gen = g
      BY <2>4
    <3> QED
      BY <3>1, <3>2
  <2>6. PICK i \in N : \A k \in N : k <= i
    BY <2>1, <2>5, LargestExists
  <2>7. \A k \in S \ {i} : Outranks(e, i, k)
    <3> SUFFICES ASSUME NEW k \in S \ {i} PROVE Outranks(e, i, k)
      OBVIOUS
    <3>1. e.jobs[k].gen <= g /\ e.jobs[i].gen = g /\ e.jobs[k].gen \in Nat /\ g \in Nat
      BY <2>2, <2>3, <2>4, <2>6
    <3>2. CASE e.jobs[k].gen = g
      <4>1. k <= i /\ k # i /\ k \in Nat /\ i \in Nat
        BY <2>1, <2>6, <3>2
      <4> QED
        BY <3>1, <3>2, <4>1 DEF Outranks
    <3>3. CASE e.jobs[k].gen # g
      BY <3>1, <3>3 DEF Outranks
    <3> QED
      BY <3>2, <3>3
  <2> HIDE DEF G, N
  <2>8. i \in S
    BY <2>6 DEF N
  <2>9. Best(e, S) \in S /\ \A k \in S \ {Best(e, S)} : Outranks(e, Best(e, S), k)
    BY <1>2, <2>7, <2>8 DEF Best
  <2> QED
    BY <1>2, <2>1, <2>9
<1> QED
  BY <1>1, <1>2

LEMMA FindFacts ==
  ASSUME NEW e, Sound(e), NEW k \in Keys
  PROVE  /\ FindByKey(e, k) # 0 => /\ FindByKey(e, k) \in Ids
                                   /\ e.jobs[FindByKey(e, k)].state # Absent
         /\ FindActiveByKey(e, k) # 0 =>
              /\ FindActiveByKey(e, k) \in Ids
              /\ e.jobs[FindActiveByKey(e, k)].state \notin Terminal \cup {Absent}
         /\ FindActiveByStem(e, k) # 0 =>
              /\ FindActiveByStem(e, k) \in Ids
              /\ e.jobs[FindActiveByStem(e, k)].state \notin Terminal \cup {Absent}
<1>1. OfKey(e, k) \subseteq Ids /\ \A i \in OfKey(e, k) : e.jobs[i].state # Absent
  <2> SUFFICES ASSUME NEW i \in OfKey(e, k) PROVE i \in Ids /\ e.jobs[i].state # Absent
    BY DEF OfKey
  <2>1. i \in Ids /\ e.jobs[i].key = k /\ JobSound(e, i)
    BY DEF OfKey, Sound
  <2> QED
    BY <2>1, KeysAssumption DEF JobSound
<1>2. Active(e) \subseteq Ids /\ \A i \in Active(e) : e.jobs[i].state \notin Terminal \cup {Absent}
  BY DEF Active
<1>3. FindByKey(e, k) # 0 => FindByKey(e, k) \in OfKey(e, k)
  BY <1>1, BestIsMember DEF FindByKey
<1>4. FindActiveByKey(e, k) # 0 => FindActiveByKey(e, k) \in OfKey(e, k) \cap Active(e)
  <2>1. OfKey(e, k) \cap Active(e) \subseteq Ids
    BY <1>2
  <2> QED
    BY <2>1, BestIsMember DEF FindActiveByKey
<1>5. FindActiveByStem(e, k) # 0 => FindActiveByStem(e, k) \in Active(e)
  <2> DEFINE S == {i \in Active(e) : Guess[e.jobs[i].key] = Guess[k]}
  <2>1. S \subseteq Ids
    BY <1>2
  <2>2. FindActiveByStem(e, k) = Best(e, S)
    BY DEF FindActiveByStem
  <2> QED
    BY <2>1, <2>2, BestIsMember
<1> QED
  BY <1>1, <1>2, <1>3, <1>4, <1>5

-----------------------------------------------------------------------------
(* The changes that handlers are made of.  Each leaves the mux's fields    *)
(* alone and keeps the table and the probes sound.                         *)

Frame(e, f) == /\ f.queue = e.queue /\ f.muxing = e.muxing /\ f.inbox = e.inbox
               /\ f.nextId = e.nextId /\ f.tool = e.tool /\ f.auto = e.auto
Others(e, f, j) == \A i \in Ids \ {j} : f.jobs[i] = e.jobs[i]
Present(e, j) == j \in Ids /\ e.jobs[j].state # Absent
Moved(e, f, j, s) == /\ f.jobs[j].state = s /\ f.jobs[j].key = e.jobs[j].key
                     /\ f.jobs[j] \in Holding => e.jobs[j] \in Holding

LEMMA QuietIf ==
  ASSUME NEW e, NEW f, NEW j \in Ids, Frame(e, f), Others(e, f, j), SameClass(e, f, j)
  PROVE  Quiet(e, f)
BY DEF Frame, Others, SameClass, Quiet

\* One row of the table is replaced.
LEMMA EditJob ==
  ASSUME NEW e, Sound(e), NEW j \in Ids, NEW r \in JobRecord,
         r.state = Absent <=> r.key = NoKey, r.gen = e.jobs[j].gen,
         j \in e.forced => r \notin Holding, r.state = Absent <=> e.jobs[j].state = Absent,
         NEW f, f = [e EXCEPT !.jobs = [e.jobs EXCEPT ![j] = r]]
  PROVE  /\ Sound(f) /\ Frame(e, f) /\ Others(e, f, j) /\ f.jobs[j] = r
         /\ f.forced = e.forced /\ f.tracked = e.tracked
<1>1. e \in Engine /\ e.jobs \in [Ids -> JobRecord]
  BY DEF Sound, Engine
<1>2. /\ f \in Engine /\ Frame(e, f) /\ f.jobs = [e.jobs EXCEPT ![j] = r]
      /\ f.forced = e.forced /\ f.tracked = e.tracked /\ f.probe = e.probe
  BY <1>1 DEF Engine, Frame
<1>3. f.jobs[j] = r /\ Others(e, f, j)
  BY <1>1, <1>2 DEF Others
<1>4. ASSUME NEW i \in Ids PROVE JobSound(f, i)
  <2>1. JobSound(e, i)
    BY DEF Sound
  <2>2. CASE i # j
    BY <1>2, <1>3, <2>1, <2>2 DEF JobSound, Others, Frame
  <2>3. CASE i = j
    BY <1>2, <1>3, <2>1, <2>3 DEF JobSound, Frame
  <2> QED
    BY <2>2, <2>3
<1> QED
  BY <1>2, <1>3, <1>4 DEF Sound, Frame

\* Probes and the sets that go with them.
LEMMA EditProbes ==
  ASSUME NEW e, Sound(e), NEW p \in [Ids -> ProbeRecord], NEW t \in SUBSET Ids,
         NEW d \in SUBSET Ids, \A i \in d : e.jobs[i] \notin Holding,
         \A i \in Ids : p[i].st # "none" => p[i].key \in Keys,
         NEW f \in Engine, f.jobs = e.jobs, Frame(e, f), f.forced = d, f.tracked = t, f.probe = p
  PROVE  Sound(f) /\ Quiet(e, f)
<1>1. ASSUME NEW i \in Ids PROVE JobSound(f, i)
  <2>1. JobSound(e, i)
    BY DEF Sound
  <2> QED
    BY <2>1 DEF JobSound, Frame
<1> QED
  BY <1>1 DEF Sound, Frame, Quiet, SameClass

LEMMA CancelProbeKeeps ==
  ASSUME NEW e, Sound(e), NEW j \in Ids, NEW f, f = CancelProbe(e, j)
  PROVE  /\ Sound(f) /\ Quiet(e, f) /\ Frame(e, f) /\ f.jobs = e.jobs /\ f.forced = e.forced
         /\ f.tracked \subseteq e.tracked
<1>1. e \in Engine /\ e.probe \in [Ids -> ProbeRecord] /\ \A i \in Ids : JobSound(e, i)
  BY DEF Sound, Engine
<1>2. CASE j \notin e.tracked
  BY <1>1, <1>2 DEF CancelProbe, Quiet, SameClass, Frame
<1>3. CASE j \in e.tracked
  <2>1. f = [e EXCEPT !.probe = [e.probe EXCEPT ![j] = NoProbe], !.tracked = e.tracked \ {j}]
    BY <1>1, <1>3 DEF CancelProbe, Engine
  <2>2. NoProbe \in ProbeRecord /\ NoProbe.st = "none"
    BY DEF NoProbe, ProbeRecord
  <2> DEFINE p == [e.probe EXCEPT ![j] = NoProbe]
             t == e.tracked \ {j}
  <2>3. p \in [Ids -> ProbeRecord] /\ \A i \in Ids : p[i] = IF i = j THEN NoProbe ELSE e.probe[i]
    BY <1>1, <2>2
  <2>8. t \in SUBSET Ids /\ f = [e EXCEPT !.probe = p, !.tracked = t]
    BY <1>1, <2>1 DEF Engine
  <2> HIDE DEF p, t
  <2>9. f \in Engine
    BY <1>1, <2>3, <2>8 DEF Engine
  <2>10. f.jobs = e.jobs /\ Frame(e, f) /\ f.forced = e.forced /\ f.tracked = t /\ f.probe = p
    BY <1>1, <2>8 DEF Engine, Frame
  <2>4. /\ f \in Engine /\ f.jobs = e.jobs /\ Frame(e, f) /\ f.forced = e.forced
        /\ f.tracked = e.tracked \ {j} /\ f.probe = p
    BY <2>9, <2>10 DEF t
  <2>5. \A i \in Ids : p[i].st # "none" => p[i].key \in Keys
    BY <1>1, <2>2, <2>3 DEF JobSound
  <2>6. e.forced \in SUBSET Ids /\ e.tracked \ {j} \in SUBSET Ids
    BY <1>1 DEF Engine
  <2>7. \A i \in e.forced : e.jobs[i] \notin Holding
    BY <1>1, <2>6 DEF JobSound
  <2> QED
    BY <2>3, <2>4, <2>5, <2>6, <2>7, EditProbes
<1> QED
  BY <1>2, <1>3

LEMMA ScheduleKeeps ==
  ASSUME NEW e, Sound(e), NEW j, Present(e, j), NEW f, f = Schedule(e, j)
  PROVE  Sound(f) /\ Quiet(e, f) /\ f.jobs = e.jobs /\ f.forced = e.forced
<1>1. /\ e \in Engine /\ e.probe \in [Ids -> ProbeRecord] /\ \A i \in Ids : JobSound(e, i)
      /\ j \in Ids
  BY DEF Sound, Engine, Present
<1> DEFINE n == [st |-> "live", key |-> e.jobs[j].key]
           p == [e.probe EXCEPT ![j] = n]
           t == e.tracked \cup {j}
<1>2. e.jobs[j].key \in Keys
  <2>1. e.jobs[j] \in JobRecord /\ e.jobs[j].key # NoKey
    BY <1>1 DEF Engine, JobSound, Present
  <2> QED
    BY <2>1 DEF JobRecord
<1>3. n \in ProbeRecord /\ n.key \in Keys
  BY <1>2 DEF ProbeRecord
<1>4. f = [e EXCEPT !.probe = p, !.tracked = t]
  BY <1>1 DEF Schedule, Engine
<1>8. e.forced \in SUBSET Ids /\ t \in SUBSET Ids
  BY <1>1 DEF Engine
<1>5. p \in [Ids -> ProbeRecord] /\ \A i \in Ids : p[i] = IF i = j THEN n ELSE e.probe[i]
  BY <1>1, <1>3
<1> HIDE DEF n, p, t
<1>6. /\ f \in Engine /\ f.jobs = e.jobs /\ Frame(e, f) /\ f.forced = e.forced
      /\ f.tracked = t /\ f.probe = p
  BY <1>1, <1>4, <1>5, <1>8 DEF Engine, Frame
<1>7. \A i \in Ids : p[i].st # "none" => p[i].key \in Keys
  BY <1>1, <1>3, <1>5 DEF JobSound
<1>9. \A i \in e.forced : e.jobs[i] \notin Holding
  BY <1>1, <1>8 DEF JobSound
<1> QED
  BY <1>5, <1>6, <1>7, <1>8, <1>9, EditProbes

LEMMA FailProbeKeeps ==
  ASSUME NEW e, Sound(e), NEW j \in Ids, NEW f, f = FailProbe(e, j)
  PROVE  Sound(f) /\ Quiet(e, f) /\ f.jobs = e.jobs
<1>1. e \in Engine /\ e.probe \in [Ids -> ProbeRecord] /\ \A i \in Ids : JobSound(e, i)
  BY DEF Sound, Engine
<1>2. PICK st \in {"none", "live", "failing", "judged", "judgedFailing"} :
         /\ f = [e EXCEPT !.probe = [e.probe EXCEPT ![j] = [e.probe[j] EXCEPT !.st = st]]]
         /\ st # "none" => e.probe[j].st # "none"
  <2>1. e.probe[j] \in ProbeRecord
    BY <1>1
  <2>2. CASE e.probe[j].st = "live"
    <3>1. f = [e EXCEPT !.probe = [e.probe EXCEPT ![j] = [e.probe[j] EXCEPT !.st = "failing"]]]
      BY <1>1, <2>1, <2>2 DEF FailProbe, Engine
    <3> QED
      BY <2>2, <3>1
  <2>3. CASE e.probe[j].st = "judged"
    <3>1. f = [e EXCEPT !.probe = [e.probe EXCEPT ![j] = [e.probe[j] EXCEPT !.st = "judgedFailing"]]]
      BY <1>1, <2>1, <2>3 DEF FailProbe, Engine
    <3> QED
      BY <2>3, <3>1
  <2>4. CASE e.probe[j].st \notin {"live", "judged"}
    <3>1. f = [e EXCEPT !.probe = [e.probe EXCEPT ![j] = [e.probe[j] EXCEPT !.st = e.probe[j].st]]]
      BY <1>1, <2>1, <2>4 DEF FailProbe, Engine
    <3> QED
      BY <2>1, <3>1 DEF ProbeRecord
  <2> QED
    BY <2>2, <2>3, <2>4
<1> DEFINE n == [e.probe[j] EXCEPT !.st = st]
           p == [e.probe EXCEPT ![j] = n]
<1>3. n \in ProbeRecord /\ n.st = st /\ n.key = e.probe[j].key
  BY <1>1 DEF ProbeRecord
<1>4. p \in [Ids -> ProbeRecord] /\ \A i \in Ids : p[i] = IF i = j THEN n ELSE e.probe[i]
  BY <1>1, <1>3
<1>5. f = [e EXCEPT !.probe = p]
  BY <1>2
<1> HIDE DEF n, p
<1>6. /\ f \in Engine /\ f.jobs = e.jobs /\ Frame(e, f) /\ f.forced = e.forced
      /\ f.tracked = e.tracked /\ f.probe = p
  BY <1>1, <1>4, <1>5 DEF Engine, Frame
<1>7. \A i \in Ids : p[i].st # "none" => p[i].key \in Keys
  BY <1>1, <1>2, <1>3, <1>4 DEF JobSound
<1>8. e.forced \in SUBSET Ids /\ e.tracked \in SUBSET Ids
  BY <1>1 DEF Engine
<1>9. \A i \in e.forced : e.jobs[i] \notin Holding
  BY <1>1, <1>8 DEF JobSound
<1> QED
  BY <1>4, <1>6, <1>7, <1>8, <1>9, EditProbes

LEMMA UntrackKeeps ==
  ASSUME NEW e, Sound(e), NEW j \in Ids, NEW f, f = Untrack(e, j)
  PROVE  Sound(f) /\ Quiet(e, f) /\ f.jobs = e.jobs /\ f.forced = e.forced
<1>1. /\ f \in Engine /\ f.jobs = e.jobs /\ Frame(e, f) /\ f.forced = e.forced
      /\ f.tracked = e.tracked \ {j} /\ f.probe = e.probe
  BY DEF Untrack, Sound, Engine, Frame
<1>2. /\ e.forced \in SUBSET Ids /\ e.tracked \ {j} \in SUBSET Ids
      /\ e.probe \in [Ids -> ProbeRecord] /\ \A i \in Ids : JobSound(e, i)
  BY DEF Sound, Engine
<1>3. /\ \A i \in e.forced : e.jobs[i] \notin Holding
      /\ \A i \in Ids : e.probe[i].st # "none" => e.probe[i].key \in Keys
  BY <1>2 DEF JobSound
<1> QED
  BY <1>1, <1>2, <1>3, EditProbes

\* A run that is forced, or no longer is.
LEMMA ForcedKeeps ==
  ASSUME NEW e, Sound(e), NEW S \in SUBSET Ids, \A i \in S : e.jobs[i] \notin Holding,
         NEW f, f = [e EXCEPT !.forced = S]
  PROVE  Sound(f) /\ Quiet(e, f) /\ Frame(e, f) /\ f.jobs = e.jobs /\ f.forced = S
<1>1. /\ f \in Engine /\ f.jobs = e.jobs /\ Frame(e, f) /\ f.forced = S
      /\ f.tracked = e.tracked /\ f.probe = e.probe
  BY DEF Sound, Engine, Frame
<1>2. /\ e.tracked \in SUBSET Ids
      /\ e.probe \in [Ids -> ProbeRecord] /\ \A i \in Ids : JobSound(e, i)
  BY DEF Sound, Engine
<1>3. \A i \in Ids : e.probe[i].st # "none" => e.probe[i].key \in Keys
  BY <1>2 DEF JobSound
<1> QED
  BY <1>1, <1>2, <1>3, EditProbes

LEMMA TransitionKeeps ==
  ASSUME NEW e, Sound(e), NEW j, Present(e, j), NEW s \in States \ {Absent}, NEW w \in Reasons,
         NEW f, f = Transition(e, j, s, w)
  PROVE  Sound(f) /\ Frame(e, f) /\ Others(e, f, j) /\ Moved(e, f, j, s) /\ Present(f, j)
<1>1. /\ e \in Engine /\ j \in Ids /\ e.jobs[j] \in JobRecord /\ e.jobs[j].state # Absent
      /\ JobSound(e, j)
  BY DEF Sound, Engine, Present
<1> DEFINE r == [e.jobs[j] EXCEPT !.state = s, !.why = w]
           moved == [e EXCEPT !.jobs[j].state = s, !.jobs[j].why = w]
<1>2. /\ r \in JobRecord /\ r.state = s /\ r.key = e.jobs[j].key /\ r.gen = e.jobs[j].gen
      /\ (r \in Holding => e.jobs[j] \in Holding)
  BY <1>1 DEF JobRecord, Holding
<1>3. moved = [e EXCEPT !.jobs = [e.jobs EXCEPT ![j] = r]]
  BY <1>1 DEF Engine
<1>4. f = IF s \in Terminal THEN [CancelProbe(moved, j) EXCEPT !.forced = @ \ {j}] ELSE moved
  BY DEF Transition
<1> HIDE DEF r, moved
<1>5. /\ Sound(moved) /\ Frame(e, moved) /\ Others(e, moved, j) /\ moved.jobs[j] = r
      /\ moved.forced = e.forced
  BY <1>1, <1>2, <1>3, EditJob DEF JobSound
<1>6. CASE s \notin Terminal
  BY <1>1, <1>2, <1>4, <1>5, <1>6 DEF Present, Moved
<1>7. CASE s \in Terminal
  <2> DEFINE c == CancelProbe(moved, j)
  <2>1. Sound(c) /\ Frame(moved, c) /\ c.jobs = moved.jobs /\ c.forced = moved.forced
    BY <1>1, <1>5, CancelProbeKeeps
  <2>2. f = [c EXCEPT !.forced = c.forced \ {j}]
    BY <1>4, <1>7, <2>1 DEF Sound, Engine
  <2> DEFINE d == c.forced \ {j}
  <2> HIDE DEF c
  <2>3. d \in SUBSET Ids /\ \A i \in d : c.jobs[i] \notin Holding
    BY <2>1 DEF Sound, Engine, JobSound
  <2> HIDE DEF d
  <2>5. f = [c EXCEPT !.forced = d]
    BY <2>2 DEF d
  <2>4. Sound(f) /\ Frame(c, f) /\ f.jobs = c.jobs /\ f.forced = d
    BY <2>1, <2>3, <2>5, ForcedKeeps
  <2> QED
    BY <1>1, <1>2, <1>5, <2>1, <2>4 DEF Frame, Others, Present, Moved
<1> QED
  BY <1>6, <1>7

LEMMA TransitionQuiet ==
  ASSUME NEW e, Sound(e), NEW j, Present(e, j), NEW s \in States \ {Absent}, NEW w \in Reasons,
         s \in InMux <=> e.jobs[j].state \in InMux
  PROVE  /\ Sound(Transition(e, j, s, w)) /\ Quiet(e, Transition(e, j, s, w))
         /\ Present(Transition(e, j, s, w), j)
<1> DEFINE f == Transition(e, j, s, w)
<1>1. /\ Sound(f) /\ Frame(e, f) /\ Others(e, f, j) /\ Moved(e, f, j, s) /\ Present(f, j)
      /\ j \in Ids
  BY TransitionKeeps DEF Present
<1> HIDE DEF f
<1>2. SameClass(e, f, j)
  BY <1>1 DEF SameClass, Present, Moved
<1> QED
  BY <1>1, <1>2, QuietIf DEF f

\* A row of the table changes, but not its state.
LEMMA EditQuiet ==
  ASSUME NEW e, Sound(e), NEW j, Present(e, j), NEW r \in JobRecord,
         r.state = e.jobs[j].state, r.key \in Keys, r.gen = e.jobs[j].gen,
         r \in Holding => e.jobs[j] \in Holding,
         NEW f, f = [e EXCEPT !.jobs = [e.jobs EXCEPT ![j] = r]]
  PROVE  /\ Sound(f) /\ Quiet(e, f) /\ Present(f, j) /\ f.jobs[j] = r
         /\ f.forced = e.forced
<1>1. j \in Ids /\ JobSound(e, j) /\ e.jobs[j].state # Absent
  BY DEF Sound, Present
<1>2. r.state # Absent /\ r.key # NoKey
  BY <1>1, KeysAssumption
<1>5. j \in e.forced => r \notin Holding
  BY <1>1 DEF JobSound
<1>6. r.state = Absent <=> r.key = NoKey
  BY <1>2
<1>7. r.state = Absent <=> e.jobs[j].state = Absent
  BY <1>1, <1>2
<1>3. Sound(f) /\ Frame(e, f) /\ Others(e, f, j) /\ f.forced = e.forced
  BY <1>1, <1>5, <1>6, <1>7, EditJob
<1>8. f.jobs[j] = r
  BY <1>1 DEF Sound, Engine
<1>4. SameClass(e, f, j)
  BY <1>8 DEF SameClass
<1>9. Quiet(e, f)
  BY <1>1, <1>3, <1>4, QuietIf
<1> QED
  BY <1>1, <1>2, <1>3, <1>8, <1>9 DEF Present

LEMMA KeyOfPresent ==
  ASSUME NEW e, Sound(e), NEW j, Present(e, j)
  PROVE  j \in Ids /\ e \in Engine /\ e.jobs[j] \in JobRecord /\ e.jobs[j].key \in Keys
<1>1. j \in Ids /\ e \in Engine /\ e.jobs[j] \in JobRecord /\ JobSound(e, j)
  BY DEF Sound, Present, Engine
<1>2. e.jobs[j].key # NoKey
  BY <1>1 DEF JobSound, Present
<1> QED
  BY <1>1, <1>2 DEF JobRecord

LEMMA LearnQuiet ==
  ASSUME NEW e, Sound(e), NEW j, Present(e, j), NEW f, f = Learn(e, j)
  PROVE  /\ Sound(f) /\ Quiet(e, f) /\ Present(f, j) /\ f.jobs[j].state = e.jobs[j].state
         /\ (f.jobs[j] \in Holding => e.jobs[j] \in Holding)
<1>1. j \in Ids /\ e \in Engine /\ e.jobs[j] \in JobRecord /\ e.jobs[j].key \in Keys
  BY KeyOfPresent
<1> DEFINE t == IF e.jobs[j].transfer = "unknown" THEN Colour[e.jobs[j].key]
                                                  ELSE e.jobs[j].transfer
           r == [e.jobs[j] EXCEPT !.transfer = t]
<1>2. t \in {"unknown", "hdr", "sdr"}
  BY <1>1, ColourAssumption DEF JobRecord
<1>3. f = [e EXCEPT !.jobs = [e.jobs EXCEPT ![j] = r]]
  BY <1>1 DEF Learn, Engine
<1> HIDE DEF t
<1>4. /\ r \in JobRecord /\ r.state = e.jobs[j].state /\ r.key = e.jobs[j].key
      /\ r.gen = e.jobs[j].gen /\ (r \in Holding => e.jobs[j] \in Holding)
  BY <1>1, <1>2 DEF JobRecord, Holding
<1> HIDE DEF r
<1> QED
  BY <1>1, <1>3, <1>4, EditQuiet

LEMMA CorrectQuiet ==
  ASSUME NEW e, Sound(e), NEW j, Present(e, j), NEW f, f = Correct(e, j)
  PROVE  Sound(f) /\ Quiet(e, f) /\ Present(f, j) /\ f.jobs[j].state = e.jobs[j].state
<1>1. j \in Ids /\ e \in Engine /\ e.jobs[j] \in JobRecord /\ e.jobs[j].key \in Keys
  BY KeyOfPresent
<1> DEFINE t == Colour[e.jobs[j].key]
           r == [e.jobs[j] EXCEPT !.transfer = t, !.byUser = FALSE]
<1>2. t \in {"unknown", "hdr", "sdr"}
  BY <1>1, ColourAssumption
<1>3. f = [e EXCEPT !.jobs = [e.jobs EXCEPT ![j] = r]]
  BY <1>1 DEF Correct, Engine
<1> HIDE DEF t
<1>4. /\ r \in JobRecord /\ r.state = e.jobs[j].state /\ r.key = e.jobs[j].key
      /\ r.gen = e.jobs[j].gen /\ (r \in Holding => e.jobs[j] \in Holding)
  BY <1>1, <1>2 DEF JobRecord, Holding
<1> HIDE DEF r
<1> QED
  BY <1>1, <1>3, <1>4, EditQuiet

LEMMA StampQuiet ==
  ASSUME NEW e, Sound(e), NEW j, Present(e, j), NEW t \in Stamps,
         NEW f, f = [e EXCEPT !.jobs[j].stamp = t]
  PROVE  Sound(f) /\ Quiet(e, f) /\ Present(f, j) /\ f.jobs[j].state = e.jobs[j].state
<1>1. j \in Ids /\ e \in Engine /\ e.jobs[j] \in JobRecord /\ e.jobs[j].key \in Keys
  BY KeyOfPresent
<1> DEFINE r == [e.jobs[j] EXCEPT !.stamp = t]
<1>2. f = [e EXCEPT !.jobs = [e.jobs EXCEPT ![j] = r]]
  BY <1>1 DEF Engine
<1>3. /\ r \in JobRecord /\ r.state = e.jobs[j].state /\ r.key = e.jobs[j].key
      /\ r.gen = e.jobs[j].gen /\ (r \in Holding => e.jobs[j] \in Holding)
  BY <1>1 DEF JobRecord, Holding, Stamps
<1> HIDE DEF r
<1> QED
  BY <1>1, <1>2, <1>3, EditQuiet

LEMMA KeyQuiet ==
  ASSUME NEW e, Sound(e), NEW j, Present(e, j), NEW k \in Keys,
         NEW f, f = [e EXCEPT !.jobs[j].key = k]
  PROVE  Sound(f) /\ Quiet(e, f) /\ Present(f, j) /\ f.jobs[j].state = e.jobs[j].state
<1>1. j \in Ids /\ e \in Engine /\ e.jobs[j] \in JobRecord /\ e.jobs[j].key \in Keys
  BY KeyOfPresent
<1> DEFINE r == [e.jobs[j] EXCEPT !.key = k]
<1>2. f = [e EXCEPT !.jobs = [e.jobs EXCEPT ![j] = r]]
  BY <1>1 DEF Engine
<1>3. /\ r \in JobRecord /\ r.state = e.jobs[j].state /\ r.key = k
      /\ r.gen = e.jobs[j].gen /\ (r \in Holding => e.jobs[j] \in Holding)
  BY <1>1 DEF JobRecord, Holding
<1> HIDE DEF r
<1> QED
  BY <1>1, <1>2, <1>3, EditQuiet

Free(e, j) == [e EXCEPT !.jobs[j].hold = FALSE]

LEMMA FreeQuiet ==
  ASSUME NEW e, Sound(e), NEW j, Present(e, j), NEW f, f = Free(e, j)
  PROVE  /\ Sound(f) /\ Quiet(e, f) /\ Present(f, j) /\ f.jobs[j].state = e.jobs[j].state
         /\ f.jobs[j] \notin Holding /\ f.forced = e.forced
<1>1. j \in Ids /\ e \in Engine /\ e.jobs[j] \in JobRecord /\ e.jobs[j].key \in Keys
  BY KeyOfPresent
<1> DEFINE r == [e.jobs[j] EXCEPT !.hold = FALSE]
<1>2. f = [e EXCEPT !.jobs = [e.jobs EXCEPT ![j] = r]]
  BY <1>1 DEF Engine, Free
<1>3. /\ r \in JobRecord /\ r.state = e.jobs[j].state /\ r.key = e.jobs[j].key
      /\ r.gen = e.jobs[j].gen
  BY <1>1 DEF JobRecord
<1>7. r \notin Holding
  BY <1>1 DEF JobRecord, Holding
<1> HIDE DEF r
<1>4. r \in JobRecord /\ r.state = e.jobs[j].state /\ r.key \in Keys /\ r.gen = e.jobs[j].gen
      /\ (r \in Holding => e.jobs[j] \in Holding)
  BY <1>1, <1>3, <1>7
<1>5. Sound(f) /\ Quiet(e, f) /\ Present(f, j)
  BY <1>2, <1>4, EditQuiet
<1>6. f.jobs[j] = r /\ f.forced = e.forced
  BY <1>1, <1>2 DEF Engine
<1> QED
  BY <1>3, <1>5, <1>6, <1>7

LEMMA RecycleQuiet ==
  ASSUME NEW e, Sound(e), NEW j, Present(e, j), NEW f,
         NEW s \in {"NotRequested", "Pending", "Recycled", "KeptSourceChanged", "KeptNoBin",
                    "KeptDisabled", "Failed"},
         f = [e EXCEPT !.jobs[j].recycle = s]
  PROVE  /\ Sound(f) /\ Quiet(e, f) /\ Present(f, j) /\ f.jobs[j].state = e.jobs[j].state
         /\ f.jobs[j].key = e.jobs[j].key
<1>1. j \in Ids /\ e \in Engine /\ e.jobs[j] \in JobRecord /\ e.jobs[j].key \in Keys
  BY KeyOfPresent
<1> DEFINE r == [e.jobs[j] EXCEPT !.recycle = s]
<1>2. f = [e EXCEPT !.jobs = [e.jobs EXCEPT ![j] = r]]
  BY <1>1 DEF Engine
<1>3. /\ r \in JobRecord /\ r.state = e.jobs[j].state /\ r.key = e.jobs[j].key
      /\ r.gen = e.jobs[j].gen /\ (r \in Holding => e.jobs[j] \in Holding)
  BY <1>1 DEF JobRecord, Holding
<1> HIDE DEF r
<1> QED
  BY <1>1, <1>2, <1>3, EditQuiet

\* The shell moves the original.
LEMMA MovedQuiet ==
  ASSUME NEW e, Sound(e), NEW k \in Keys,
         NEW f, f = [e EXCEPT !.file[k] = NoFile, !.change[k] = "Removed"]
  PROVE  Sound(f) /\ Quiet(e, f) /\ f.jobs = e.jobs
<1>1. NoFile \in FileRecord /\ "Removed" \in Changes
  BY BoundsAssumption DEF NoFile, FileRecord, Changes
<1>2. /\ f \in Engine /\ f.jobs = e.jobs /\ f.forced = e.forced /\ f.probe = e.probe
      /\ Frame(e, f)
  <2>1. e \in Engine
    BY DEF Sound
  <2> DEFINE a == [e.file EXCEPT ![k] = NoFile]
             b == [e.change EXCEPT ![k] = "Removed"]
  <2>2. a \in [Keys -> FileRecord] /\ b \in [Keys -> Changes]
    BY <1>1, <2>1 DEF Engine
  <2>3. f = [e EXCEPT !.file = a, !.change = b]
    BY <2>1 DEF Engine
  <2> HIDE DEF a, b
  <2> QED
    BY <2>1, <2>2, <2>3 DEF Engine, Frame
<1> QED
  BY <1>2 DEF Sound, JobSound, Quiet, SameClass, Frame

LEMMA SelectionsQuiet ==
  ASSUME NEW e, Sound(e), NEW j, Present(e, j), NEW f \in Selections(e, j)
  PROVE  /\ Sound(f) /\ Quiet(e, f) /\ Present(f, j) /\ f.jobs[j].state = e.jobs[j].state
         /\ (f.jobs[j] \in Holding => e.jobs[j] \in Holding)
<1>1. j \in Ids /\ e \in Engine /\ e.jobs[j] \in JobRecord /\ e.jobs[j].key \in Keys
  BY KeyOfPresent
<1>2. CASE f = e
  BY <1>2 DEF Quiet, SameClass
<1>3. CASE f = [e EXCEPT !.jobs[j].preset = FALSE]
  <2> DEFINE r == [e.jobs[j] EXCEPT !.preset = FALSE]
  <2>1. f = [e EXCEPT !.jobs = [e.jobs EXCEPT ![j] = r]]
    BY <1>1, <1>3 DEF Engine
  <2>2. /\ r \in JobRecord /\ r.state = e.jobs[j].state /\ r.key = e.jobs[j].key
        /\ r.gen = e.jobs[j].gen /\ (r \in Holding => e.jobs[j] \in Holding)
    BY <1>1 DEF JobRecord, Holding
  <2> HIDE DEF r
  <2> QED
    BY <1>1, <2>1, <2>2, EditQuiet
<1>4. ASSUME NEW kind \in {"unknown", "hdr", "sdr"},
             f = [e EXCEPT !.jobs[j] = WithPreset(e.jobs[j], kind)]
      PROVE  /\ Sound(f) /\ Quiet(e, f) /\ Present(f, j) /\ f.jobs[j].state = e.jobs[j].state
             /\ (f.jobs[j] \in Holding => e.jobs[j] \in Holding)
  <2> DEFINE r == WithPreset(e.jobs[j], kind)
  <2>1. /\ r \in JobRecord /\ r.state = e.jobs[j].state /\ r.key = e.jobs[j].key
        /\ r.gen = e.jobs[j].gen /\ (r \in Holding => e.jobs[j] \in Holding)
    <3> DEFINE old == e.jobs[j]
               fills == old.transfer = "unknown"
               t == IF fills THEN kind ELSE old.transfer
               u == old.byUser \/ (fills /\ kind # "unknown")
    <3>1. t \in {"unknown", "hdr", "sdr"} /\ u \in BOOLEAN
      BY <1>1 DEF JobRecord
    <3>2. r = [old EXCEPT !.preset = TRUE, !.transfer = t, !.byUser = u]
      BY <1>1 DEF WithPreset, JobRecord
    <3> HIDE DEF r, t, u
    <3> QED
      BY <1>1, <3>1, <3>2 DEF JobRecord, Holding
  <2>2. f = [e EXCEPT !.jobs = [e.jobs EXCEPT ![j] = r]]
    BY <1>4
  <2> HIDE DEF r
  <2> QED
    BY <1>1, <2>1, <2>2, EditQuiet
<1> QED
  BY <1>2, <1>3, <1>4 DEF Selections

LEMMA NoJobFacts ==
  /\ NoJob \in JobRecord /\ NoJob.state = Absent /\ NoJob.key = NoKey /\ NoJob.gen = 0
  /\ NoJob \notin Holding
<1>1. NoStamp \in Stamps
  BY BoundsAssumption DEF NoStamp, Stamps
<1>2. Absent \in States /\ "manual" \in Sources /\ "" \in Reasons
  BY DEF States, Sources, Reasons
<1>3. NoKey \in Keys \cup {NoKey}
  OBVIOUS
<1>4. 0 \in Nat
  OBVIOUS
<1>5. FALSE \in BOOLEAN
  OBVIOUS
<1>6. "unknown" \in {"unknown", "hdr", "sdr"}
  OBVIOUS
<1>7. "NotRequested" \in {"NotRequested", "Pending", "Recycled", "KeptSourceChanged",
                         "KeptNoBin", "KeptDisabled", "Failed"}
  OBVIOUS
<1>8. NoJob \in JobRecord
  BY <1>1, <1>2, <1>3, <1>4, <1>5, <1>6, <1>7 DEF NoJob, JobRecord, Stamps
<1>9. NoJob.state = Absent /\ NoJob.key = NoKey /\ NoJob.gen = 0 /\ ~NoJob.hold
  BY DEF NoJob
<1> QED
  BY <1>8, <1>9 DEF Holding

LEMMA CreateMakes ==
  ASSUME NEW e, Sound(e), e.nextId \in Ids, NEW k \in Keys, NEW source \in Sources,
         NEW f, f = Create(e, k, source)
  PROVE  /\ Sound(f) /\ Makes(e, f) /\ Present(f, e.nextId)
         /\ f.jobs[e.nextId].state = "Discovered"
<1> DEFINE previous == FindByKey(e, k)
           gen == IF previous = 0 THEN 1 ELSE e.jobs[previous].gen + 1
           r == [NoJob EXCEPT !.key = k, !.gen = gen, !.state = "Discovered", !.source = source]
           j == e.nextId
<1>1. /\ e \in Engine /\ MaxJobs \in Nat /\ Ids \subseteq Nat /\ 0 \notin Ids
      /\ \A i \in Ids : i + 1 \in 1..(MaxJobs + 1)
  BY BoundsAssumption DEF Sound, Ids
<1>2. gen \in Nat /\ gen <= j
  <2>1. CASE previous = 0
    BY <1>1, <2>1 DEF Ids
  <2>2. CASE previous # 0
    <3>1. previous \in Ids /\ e.jobs[previous].state # Absent
      BY <2>2, FindFacts
    <3>2. JobSound(e, previous) /\ e.jobs[previous] \in JobRecord
      BY <1>1, <3>1 DEF Sound, Engine
    <3>3. ~(previous >= j) /\ e.jobs[previous].gen <= previous
      BY <3>1, <3>2 DEF JobSound
    <3>4. e.jobs[previous].gen \in Nat
      BY <3>2 DEF JobRecord
    <3>5. previous \in Nat /\ j \in Nat
      BY <1>1, <3>1
    <3>6. gen = e.jobs[previous].gen + 1
      BY <2>2
    <3> HIDE DEF gen, previous, j
    <3> QED
      BY <3>3, <3>4, <3>5, <3>6
  <2> QED
    BY <2>1, <2>2
<1>3. f = [e EXCEPT !.jobs = [e.jobs EXCEPT ![j] = r], !.nextId = j + 1]
  BY <1>1 DEF Create, Engine
<1> HIDE DEF gen
<1>4. r \in JobRecord /\ r.key = k /\ r.gen = gen /\ r.state = "Discovered" /\ r \notin Holding
  <2>1. NoJob \in JobRecord /\ NoJob \notin Holding
    BY NoJobFacts
  <2>2. "Discovered" \in States /\ gen \in Nat
    BY <1>2 DEF States, Waiting
  <2>3. r \in JobRecord /\ r.key = k /\ r.gen = gen /\ r.state = "Discovered"
    BY <2>1, <2>2 DEF r, JobRecord
  <2>4. r \notin Holding
    BY <2>1 DEF r, Holding, JobRecord
  <2> QED
    BY <2>3, <2>4
<1> DEFINE t == [e.jobs EXCEPT ![j] = r]
           n == j + 1
<1>11. t \in [Ids -> JobRecord] /\ n \in 1..(MaxJobs + 1) /\ f = [e EXCEPT !.jobs = t, !.nextId = n]
  BY <1>1, <1>3, <1>4 DEF Engine
<1> HIDE DEF t, n
<1>5. /\ f \in Engine /\ f.jobs = t /\ f.nextId = n
      /\ f.queue = e.queue /\ f.muxing = e.muxing /\ f.inbox = e.inbox /\ f.forced = e.forced
      /\ f.probe = e.probe
  BY <1>1, <1>11 DEF Engine
<1>6. f.jobs[j] = r /\ (\A i \in Ids \ {j} : f.jobs[i] = e.jobs[i]) /\ f.nextId = j + 1
  BY <1>1, <1>4, <1>5 DEF Engine, t, n
<1>7. ASSUME NEW i \in Ids PROVE JobSound(f, i)
  <2>1. JobSound(e, i)
    BY DEF Sound
  <2>2. CASE i = j
    <3>1. f.jobs[i] = r /\ r.state # Absent /\ r.key # NoKey /\ r.gen <= i /\ r \notin Holding
      BY <1>2, <1>4, <1>6, <2>2, KeysAssumption DEF Absent
    <3>2. ~(i >= f.nextId)
      BY <1>1, <1>6, <2>2
    <3> QED
      BY <1>5, <2>1, <3>1, <3>2 DEF JobSound
  <2>3. CASE i # j
    <3>1. i >= f.nextId => i >= e.nextId
      BY <1>1, <1>6
    <3> QED
      BY <1>5, <1>6, <2>1, <2>3, <3>1 DEF JobSound
  <2> QED
    BY <2>2, <2>3
<1>8. Sound(f)
  BY <1>5, <1>7 DEF Sound
<1>9. Makes(e, f) /\ Present(f, j) /\ f.jobs[j].state = "Discovered"
  BY <1>4, <1>5, <1>6 DEF Makes, Present, Outside, SameClass, InMux, Absent
<1> QED
  BY <1>8, <1>9

-----------------------------------------------------------------------------
(* The handlers: each is Quiet, Makes a job, Sends one to the mux or one *)
(* Leaves it *)


\* The states of a job that is in the table and not in the mux.
Calm == States \ (InMux \cup {Absent})

LEMMA StateFacts ==
  /\ {"Ready", "Held", "Discovered", "Encoding", "Done", "Failed", "SkippedSdr", "Cancelled"} = Calm
  /\ "Muxing" \in InMux /\ "Verifying" \in InMux /\ InMux \subseteq States \ {Absent}
BY DEF Calm, States, InMux, Waiting, Terminal, Absent

\* A job that is not in the mux changes its state.
LEMMA CalmQuiet ==
  ASSUME NEW e, Sound(e), NEW j, Present(e, j), e.jobs[j].state \notin InMux,
         NEW s \in Calm, NEW w \in Reasons, NEW f, f = Transition(e, j, s, w)
  PROVE  Sound(f) /\ Quiet(e, f) /\ Present(f, j) /\ Moved(e, f, j, s)
<1>1. s \in States \ {Absent} /\ s \notin InMux
  BY DEF Calm
<1>2. s \in InMux <=> e.jobs[j].state \in InMux
  BY <1>1
<1>3. Sound(f) /\ Quiet(e, f) /\ Present(f, j)
  BY <1>1, <1>2, TransitionQuiet
<1>4. Moved(e, f, j, s)
  BY <1>1, TransitionKeeps
<1> QED
  BY <1>3, <1>4

\* A job in the mux leaves it.
LEMMA CalmLeaves ==
  ASSUME NEW e, Sound(e), NEW j, Present(e, j), NEW s \in Calm, NEW w \in Reasons,
         NEW f, f = Transition(e, j, s, w)
  PROVE  Sound(f) /\ Leaves(e, f, j) /\ Present(f, j) /\ Moved(e, f, j, s)
<1>1. s \in States \ {Absent} /\ s \notin InMux
  BY DEF Calm
<1>2. Sound(f) /\ Frame(e, f) /\ Others(e, f, j) /\ Moved(e, f, j, s) /\ Present(f, j)
  BY <1>1, TransitionKeeps
<1>3. Leaves(e, f, j)
  BY <1>1, <1>2 DEF Leaves, Frame, Others, SameClass, Outside, Moved, Present
<1> QED
  BY <1>2, <1>3

LEMMA LeavesQuiet ==
  ASSUME NEW e, NEW f, NEW g, NEW j \in Ids, Leaves(e, f, j), Quiet(f, g) PROVE Leaves(e, g, j)
BY DEF Quiet, Leaves, SameClass, Outside

LEMMA QuietLeaves ==
  ASSUME NEW e, NEW f, NEW g, NEW j \in Ids, Quiet(e, f), Leaves(f, g, j) PROVE Leaves(e, g, j)
BY DEF Quiet, Leaves, SameClass, Outside

-----------------------------------------------------------------------------
(* onReady: a job is held, skipped or sent to the mux *)

LEMMA DispatchKeeps ==
  ASSUME NEW e, Sound(e), NEW j, Present(e, j), e.jobs[j].state \notin InMux,
         e.jobs[j] \notin Holding, NEW f, f = Dispatch(e, j)
  PROVE  Sound(f) /\ (Quiet(e, f) \/ Sends(e, f, j))
<1>1. "mkvmerge" \in Reasons /\ "source" \in Reasons /\ "" \in Reasons /\ "Held" \in Calm
  BY StateFacts DEF Reasons
<1>2. CASE ~e.tool
  BY <1>1, <1>2, CalmQuiet DEF Dispatch
<1>3. CASE e.tool /\ ~Exists(e, e.jobs[j].key)
  BY <1>1, <1>3, CalmQuiet DEF Dispatch
<1>4. CASE e.tool /\ Exists(e, e.jobs[j].key)
  <2> DEFINE t == Transition(e, j, "Muxing", "")
             r == [job |-> j, key |-> e.jobs[j].key]
  <2>1. f = [t EXCEPT !.queue = Append(@, r)]
    BY <1>4 DEF Dispatch
  <2>2. "Muxing" \in States \ {Absent}
    BY StateFacts
  <2> HIDE DEF t
  <2>9. t = Transition(e, j, "Muxing", "")
    BY DEF t
  <2>10. Sound(t) /\ Frame(e, t) /\ Others(e, t, j) /\ Moved(e, t, j, "Muxing")
    BY <1>1, <2>2, <2>9, TransitionKeeps
  <2>3. /\ Sound(t) /\ Frame(e, t) /\ Others(e, t, j) /\ t.jobs[j].state = "Muxing"
        /\ t.jobs[j] \notin Holding
    BY <2>10 DEF Moved
  <2>4. j \in Ids /\ e.jobs[j].key \in Keys /\ r \in Request
    BY KeyOfPresent DEF Request
  <2> HIDE DEF r
  <2>5. t \in Engine /\ Append(t.queue, r) \in Seq(Request)
    BY <2>3, <2>4, AppendProperties DEF Sound, Engine
  <2>6. /\ f \in Engine /\ f.queue = Append(t.queue, r) /\ f.jobs = t.jobs /\ f.forced = t.forced
        /\ f.probe = t.probe /\ f.muxing = t.muxing /\ f.inbox = t.inbox /\ f.nextId = t.nextId
    BY <2>1, <2>5 DEF Engine
  <2>7. Sound(f)
    BY <2>3, <2>6 DEF Sound, JobSound
  <2>8. Sends(e, f, j)
    BY <2>3, <2>4, <2>6 DEF Sends, Frame, Others, SameClass, Outside, Present, r
  <2> QED
    BY <2>7, <2>8
<1> QED
  BY <1>2, <1>3, <1>4

LEMMA PoliciesKeeps ==
  ASSUME NEW e, Sound(e), NEW j, Present(e, j), e.jobs[j].state \notin InMux,
         NEW S, j \in S => e.jobs[j] \notin Holding, NEW f, f = Policies(e, j, j \in S)
  PROVE  Sound(f) /\ (Quiet(e, f) \/ Sends(e, f, j))
<1>1. /\ {"sdr", "unknown", "waiting"} \subseteq Reasons /\ "Held" \in Calm /\ "SkippedSdr" \in Calm
  BY StateFacts DEF Reasons
<1>2. \/ f = Transition(e, j, "SkippedSdr", "sdr") \/ f = Transition(e, j, "Held", "sdr")
      \/ f = Transition(e, j, "Held", "unknown") \/ f = Transition(e, j, "Held", "waiting")
      \/ /\ f = Dispatch(e, j)
         /\ ~(j \notin S /\ (e.jobs[j].hold \/ ~e.auto \/ e.jobs[j].source \notin AutoSources))
  BY DEF Policies
<1>3. CASE f = Transition(e, j, "SkippedSdr", "sdr")
  BY <1>1, <1>3, CalmQuiet
<1>4. CASE f = Transition(e, j, "Held", "sdr")
  BY <1>1, <1>4, CalmQuiet
<1>5. CASE f = Transition(e, j, "Held", "unknown")
  BY <1>1, <1>5, CalmQuiet
<1>6. CASE f = Transition(e, j, "Held", "waiting")
  BY <1>1, <1>6, CalmQuiet
<1>7. CASE f = Dispatch(e, j) /\ ~(j \notin S /\ (e.jobs[j].hold \/ ~e.auto
                                                  \/ e.jobs[j].source \notin AutoSources))
  <2>1. e.jobs[j] \notin Holding
    BY <1>7 DEF Holding
  <2> QED
    BY <1>7, <2>1, DispatchKeeps
<1> QED
  BY <1>2, <1>3, <1>4, <1>5, <1>6, <1>7

LEMMA OnReadyKeeps ==
  ASSUME NEW e, Sound(e), NEW j, Present(e, j), e.jobs[j].state \notin InMux,
         NEW f, f \in OnReady(e, j)
  PROVE  Sound(f) /\ (Quiet(e, f) \/ Sends(e, f, j))
<1> DEFINE d == e.forced \ {j}
           a == [e EXCEPT !.forced = d]
           b == Transition(a, j, "Ready", "")
<1>1. "Ready" \in Calm /\ "Ready" \in States \ {Absent} /\ "" \in Reasons /\ j \in Ids
  BY StateFacts DEF Reasons, Calm, Present
<1>2. d \in SUBSET Ids /\ \A i \in d : e.jobs[i] \notin Holding
  BY DEF Sound, Engine, JobSound
<1> HIDE DEF d
<1>3. Sound(a) /\ Quiet(e, a) /\ a.jobs = e.jobs
  BY <1>2, ForcedKeeps
<1>4. [e EXCEPT !.forced = @ \ {j}] = a
  BY DEF Sound, Engine, d
<1>5. PICK r : r \in {b, Learn(b, j)} /\ f = Policies(r, j, j \in e.forced)
  BY <1>4 DEF OnReady
<1> HIDE DEF a
<1>6. Present(a, j) /\ a.jobs[j].state \notin InMux
  BY <1>1, <1>3 DEF Present
<1>12. b = Transition(a, j, "Ready", "")
  OBVIOUS
<1> HIDE DEF b
<1>13. Sound(b) /\ Quiet(a, b) /\ Present(b, j) /\ Moved(a, b, j, "Ready")
  BY <1>1, <1>3, <1>6, <1>12, CalmQuiet
<1>7. /\ Sound(b) /\ Quiet(a, b) /\ Present(b, j) /\ b.jobs[j].state = "Ready"
      /\ (b.jobs[j] \in Holding => a.jobs[j] \in Holding)
  BY <1>13 DEF Moved
<1>8. /\ Sound(r) /\ Quiet(b, r) /\ Present(r, j) /\ r.jobs[j].state = "Ready"
      /\ (r.jobs[j] \in Holding => b.jobs[j] \in Holding)
  <2>1. CASE r = b
    BY <1>7, <2>1 DEF Quiet, SameClass
  <2>2. CASE r = Learn(b, j)
    BY <1>7, <2>2, LearnQuiet
  <2> QED
    BY <1>5, <2>1, <2>2
<1>9. j \in e.forced => r.jobs[j] \notin Holding
  <2>1. JobSound(e, j)
    BY <1>1 DEF Sound
  <2> QED
    BY <1>3, <1>7, <1>8, <2>1 DEF JobSound
<1>10. Sound(f) /\ (Quiet(r, f) \/ Sends(r, f, j))
  <2>1. r.jobs[j].state \notin InMux
    BY <1>1, <1>8 DEF Calm
  <2> QED
    BY <1>5, <1>8, <1>9, <2>1, PoliciesKeeps
<1>11. Quiet(e, r)
  BY <1>3, <1>7, <1>8, QuietTwice
<1> QED
  BY <1>1, <1>10, <1>11, QuietTwice, QuietSends

-----------------------------------------------------------------------------
(* Completion and the Recycle Bin *)

LEMMA RecycleJobKeeps ==
  ASSUME NEW e, Sound(e), NEW j, Present(e, j), NEW f, f \in RecycleJob(e, j)
  PROVE  Sound(f) /\ Quiet(e, f)
<1> DEFINE k == e.jobs[j].key
           g == [e EXCEPT !.jobs[j].recycle = "Recycled"]
<1>1. \/ f = e
      \/ f = [e EXCEPT !.jobs[j].recycle = "KeptSourceChanged"]
      \/ f = [e EXCEPT !.jobs[j].recycle = "KeptNoBin"]
      \/ f = [e EXCEPT !.jobs[j].recycle = "Failed"]
      \/ f = [e EXCEPT !.jobs[j].recycle = "Recycled", !.file[k] = NoFile, !.change[k] = "Removed"]
  BY DEF RecycleJob
<1>2. CASE f = e
  BY <1>2 DEF Quiet, SameClass
<1>3. CASE f = [e EXCEPT !.jobs[j].recycle = "KeptSourceChanged"]
  BY <1>3, RecycleQuiet
<1>4. CASE f = [e EXCEPT !.jobs[j].recycle = "KeptNoBin"]
  BY <1>4, RecycleQuiet
<1>5. CASE f = [e EXCEPT !.jobs[j].recycle = "Failed"]
  BY <1>5, RecycleQuiet
<1>6. CASE f = [e EXCEPT !.jobs[j].recycle = "Recycled", !.file[k] = NoFile, !.change[k] = "Removed"]
  <2>1. j \in Ids /\ e \in Engine /\ k \in Keys
    BY KeyOfPresent
  <2> HIDE DEF k
  <2>2. f = [g EXCEPT !.file[k] = NoFile, !.change[k] = "Removed"]
    BY <1>6, <2>1 DEF Engine
  <2>3. Sound(g) /\ Quiet(e, g)
    BY RecycleQuiet
  <2> HIDE DEF g
  <2>4. Sound(f) /\ Quiet(g, f)
    BY <2>1, <2>2, <2>3, MovedQuiet
  <2> QED
    BY <2>3, <2>4, QuietTwice
<1> QED
  BY <1>1, <1>2, <1>3, <1>4, <1>5, <1>6

LEMMA FinishDoneLeaves ==
  ASSUME NEW e, Sound(e), NEW j, Present(e, j), NEW f, f \in FinishDone(e, j)
  PROVE  Sound(f) /\ Leaves(e, f, j)
<1> DEFINE d == Transition(e, j, "Done", "")
           g == [d EXCEPT !.jobs[j].recycle = "Pending"]
<1>1. j \in Ids /\ "Done" \in Calm /\ "" \in Reasons
  BY StateFacts DEF Present, Reasons
<1>2. \/ f = [d EXCEPT !.jobs[j].recycle = "KeptDisabled"]
      \/ f = g
      \/ f \in RecycleJob(g, j)
  BY DEF FinishDone
<1>3. d = Transition(e, j, "Done", "")
  OBVIOUS
<1> HIDE DEF d
<1>4. Sound(d) /\ Leaves(e, d, j) /\ Present(d, j)
  BY <1>1, <1>3, CalmLeaves
<1>5. Sound(g) /\ Quiet(d, g) /\ Present(g, j)
  BY <1>4, RecycleQuiet
<1>6. CASE f = [d EXCEPT !.jobs[j].recycle = "KeptDisabled"]
  <2>1. Sound(f) /\ Quiet(d, f)
    BY <1>4, <1>6, RecycleQuiet
  <2> QED
    BY <1>1, <1>4, <2>1, LeavesQuiet
<1>7. CASE f = g
  BY <1>1, <1>4, <1>5, <1>7, LeavesQuiet
<1>8. CASE f \in RecycleJob(g, j)
  <2> HIDE DEF g
  <2>1. Sound(f) /\ Quiet(g, f)
    BY <1>5, <1>8, RecycleJobKeeps
  <2>2. Quiet(d, f)
    BY <1>5, <2>1, QuietTwice
  <2> QED
    BY <1>1, <1>4, <2>1, <2>2, LeavesQuiet
<1> QED
  BY <1>2, <1>6, <1>7, <1>8

-----------------------------------------------------------------------------
(* The triggers: an event leaves the table as it is, makes a job, or moves *)
(* one that is not in the mux.                                             *)

QuietOrMakes(e, f) == Sound(f) /\ (Quiet(e, f) \/ Makes(e, f))

LEMMA Itself == ASSUME NEW e, Sound(e) PROVE Quiet(e, e) /\ QuietOrMakes(e, e)
BY DEF Quiet, SameClass, QuietOrMakes

\* What ensure() returns is in the table and, when it is new, Discovered.
LEMMA EnsureMakes ==
  ASSUME NEW e, Sound(e), e.nextId \in Ids, NEW k \in Keys, NEW source \in Sources,
         NEW f, f = Ensure(e, k, source), NEW j, j = EnsuredId(e, k)
  PROVE  /\ QuietOrMakes(e, f) /\ Present(f, j)
         /\ FindActiveByKey(e, k) = 0 => f.jobs[j].state = "Discovered"
<1>1. CASE FindActiveByKey(e, k) # 0
  <2>1. f = e /\ j = FindActiveByKey(e, k)
    BY <1>1 DEF Ensure, EnsuredId
  <2>2. j \in Ids /\ e.jobs[j].state # Absent
    BY <1>1, <2>1, FindFacts
  <2> QED
    BY <1>1, <2>1, <2>2, Itself DEF Present
<1>2. CASE FindActiveByKey(e, k) = 0
  <2>1. f = Create(e, k, source) /\ j = e.nextId
    BY <1>2 DEF Ensure, EnsuredId
  <2>2. Sound(f) /\ Makes(e, f) /\ Present(f, j) /\ f.jobs[j].state = "Discovered"
    BY <2>1, CreateMakes
  <2> QED
    BY <2>2 DEF QuietOrMakes
<1> QED
  BY <1>1, <1>2

LEMMA ThenQuiet ==
  ASSUME NEW e, NEW f, NEW g, QuietOrMakes(e, f), Sound(g), Quiet(f, g)
  PROVE  QuietOrMakes(e, g)
BY QuietTwice, MakesQuiet DEF QuietOrMakes

LEMMA ScheduleIfWaitingKeeps ==
  ASSUME NEW e, Sound(e), NEW j, Present(e, j), NEW f, f = ScheduleIfWaiting(e, j)
  PROVE  Sound(f) /\ Quiet(e, f)
<1>1. CASE f = e
  BY <1>1, Itself
<1>2. CASE f = Schedule(e, j)
  BY <1>2, ScheduleKeeps
<1> QED
  BY <1>1, <1>2 DEF ScheduleIfWaiting

LEMMA LogSuccessKeeps ==
  ASSUME NEW e, Sound(e), e.nextId \in Ids, NEW k \in Keys, NEW f, f \in LogSuccess(e, k)
  PROVE  QuietOrMakes(e, f)
<1> DEFINE j == EnsuredId(e, k)
           made == Ensure(e, k, "log")
           learned == Learn(made, j)
<1>1. f = e \/ f = ScheduleIfWaiting(learned, j)
  BY DEF LogSuccess
<1>2. QuietOrMakes(e, made) /\ Present(made, j)
  BY EnsureMakes DEF Sources
<1> HIDE DEF made, j
<1>3. Sound(learned) /\ Quiet(made, learned) /\ Present(learned, j)
  BY <1>2, LearnQuiet DEF QuietOrMakes
<1>4. QuietOrMakes(e, learned)
  BY <1>2, <1>3, ThenQuiet
<1> HIDE DEF learned
<1>5. CASE f = e
  BY <1>5, Itself
<1>6. CASE f = ScheduleIfWaiting(learned, j)
  <2>1. Sound(f) /\ Quiet(learned, f)
    BY <1>3, <1>6, ScheduleIfWaitingKeeps
  <2> QED
    BY <1>4, <2>1, ThenQuiet
<1> QED
  BY <1>1, <1>5, <1>6

LEMMA ReportFailureKeeps ==
  ASSUME NEW e, Sound(e), NEW j, Present(e, j), NEW f, f = ReportFailure(e, j)
  PROVE  Sound(f) /\ Quiet(e, f)
<1>1. j \in Ids /\ "Failed" \in Calm /\ "reported" \in Reasons
  BY StateFacts DEF Present, Reasons
<1>2. CASE e.jobs[j].state \in InMux
  BY <1>2, Itself DEF ReportFailure
<1>3. CASE e.jobs[j].state \notin InMux /\ j \in e.tracked
  BY <1>1, <1>3, FailProbeKeeps DEF ReportFailure
<1>4. CASE e.jobs[j].state \notin InMux /\ j \notin e.tracked
  BY <1>1, <1>4, CalmQuiet DEF ReportFailure
<1> QED
  BY <1>2, <1>3, <1>4

LEMMA LogFailedKeeps ==
  ASSUME NEW e, Sound(e), NEW k \in Keys, NEW f, f \in LogFailed(e, k)
  PROVE  QuietOrMakes(e, f)
<1> DEFINE j == FindActiveByKey(e, k)
<1>1. CASE j = 0
  BY <1>1, Itself DEF LogFailed
<1>2. CASE j # 0
  <2>1. f = ReportFailure(e, j)
    BY <1>2 DEF LogFailed
  <2>2. Present(e, j)
    BY <1>2, FindFacts DEF Present
  <2> QED
    BY <2>1, <2>2, ReportFailureKeeps DEF QuietOrMakes
<1> QED
  BY <1>1, <1>2

LEMMA CatchUpKeeps ==
  ASSUME NEW e, Sound(e), e.nextId \in Ids, NEW k \in Keys, NEW newer, NEW f,
         f \in CatchUp(e, k, newer)
  PROVE  QuietOrMakes(e, f)
<1> DEFINE j == e.nextId
           made == Create(e, k, "catchUp")
           learned == Learn(made, j)
<1>1. f = e \/ f = Transition(learned, j, "Held", "catchUp")
  BY DEF CatchUp
<1>2. Sound(made) /\ Makes(e, made) /\ Present(made, j) /\ made.jobs[j].state = "Discovered"
  BY CreateMakes DEF Sources
<1> HIDE DEF made
<1>3. /\ Sound(learned) /\ Quiet(made, learned) /\ Present(learned, j)
      /\ learned.jobs[j].state = made.jobs[j].state
  BY <1>2, LearnQuiet
<1>4. QuietOrMakes(e, learned) /\ learned.jobs[j].state \notin InMux
  BY <1>2, <1>3, ThenQuiet DEF QuietOrMakes, InMux
<1> HIDE DEF learned, j
<1>5. CASE f = e
  BY <1>5, Itself
<1>6. CASE f = Transition(learned, j, "Held", "catchUp")
  <2>1. "Held" \in Calm /\ "catchUp" \in Reasons
    BY StateFacts DEF Reasons
  <2>2. Sound(f) /\ Quiet(learned, f)
    BY <1>3, <1>4, <1>6, <2>1, CalmQuiet
  <2> QED
    BY <1>4, <2>2, ThenQuiet
<1> QED
  BY <1>1, <1>5, <1>6

\* encodingStarted and a sidecar: a job that is Discovered is Encoding.
LEMMA BegunKeeps ==
  ASSUME NEW e, Sound(e), NEW j, Present(e, j),
         NEW f, f = IF e.jobs[j].state = "Discovered" THEN Transition(e, j, "Encoding", "") ELSE e
  PROVE  Sound(f) /\ Quiet(e, f)
<1>1. "Encoding" \in Calm /\ "" \in Reasons
  BY StateFacts DEF Reasons
<1>2. CASE e.jobs[j].state = "Discovered"
  <2>1. e.jobs[j].state \notin InMux /\ f = Transition(e, j, "Encoding", "")
    BY <1>2 DEF InMux
  <2> QED
    BY <1>1, <2>1, CalmQuiet
<1>3. CASE e.jobs[j].state # "Discovered"
  BY <1>3, Itself
<1> QED
  BY <1>2, <1>3

LEMMA CepStartedKeeps ==
  ASSUME NEW e, Sound(e), e.nextId \in Ids, NEW k \in Keys, NEW f, f \in CepStarted(e, k)
  PROVE  QuietOrMakes(e, f)
<1> DEFINE j == EnsuredId(e, k)
           made == Ensure(e, k, "cep")
<1>1. f = IF made.jobs[j].state = "Discovered" THEN Transition(made, j, "Encoding", "") ELSE made
  BY DEF CepStarted
<1>2. QuietOrMakes(e, made) /\ Present(made, j)
  BY EnsureMakes DEF Sources
<1> HIDE DEF made, j
<1>3. Sound(f) /\ Quiet(made, f)
  BY <1>1, <1>2, BegunKeeps DEF QuietOrMakes
<1> QED
  BY <1>2, <1>3, ThenQuiet

LEMMA CepCompleteKeeps ==
  ASSUME NEW e, Sound(e), e.nextId \in Ids, NEW k \in Keys, NEW ok, NEW f,
         f \in CepComplete(e, k, ok)
  PROVE  QuietOrMakes(e, f)
<1> DEFINE j == EnsuredId(e, k)
           made == Ensure(e, k, "cep")
<1>1. f = ScheduleIfWaiting(made, j) \/ f = ReportFailure(made, j)
  BY DEF CepComplete
<1>2. QuietOrMakes(e, made) /\ Present(made, j)
  BY EnsureMakes DEF Sources
<1> HIDE DEF made, j
<1>3. Sound(f) /\ Quiet(made, f)
  BY <1>1, <1>2, ScheduleIfWaitingKeeps, ReportFailureKeeps DEF QuietOrMakes
<1> QED
  BY <1>2, <1>3, ThenQuiet

LEMMA OnSidecarKeeps ==
  ASSUME NEW e, Sound(e), e.nextId \in Ids, NEW ev, ev.key \in Keys, NEW f, f \in OnSidecar(e, ev)
  PROVE  QuietOrMakes(e, f)
<1> DEFINE found == FindActiveByStem(e, ev.key)
           g == Guess[ev.key]
           made == IF found = 0 THEN Ensure(e, g, "folder") ELSE e
           j == IF found = 0 THEN EnsuredId(e, g) ELSE found
<1>1. f = IF made.jobs[j].state = "Discovered" THEN Transition(made, j, "Encoding", "") ELSE made
  BY DEF OnSidecar
<1>2. QuietOrMakes(e, made) /\ Present(made, j)
  <2>1. CASE found = 0
    <3>1. g \in Keys /\ "folder" \in Sources
      BY KeysAssumption DEF Sources
    <3> HIDE DEF g
    <3>2. QuietOrMakes(e, Ensure(e, g, "folder")) /\ Present(Ensure(e, g, "folder"), EnsuredId(e, g))
      BY <3>1, EnsureMakes
    <3> QED
      BY <2>1, <3>2
  <2>2. CASE found # 0
    <3>1. made = e /\ j = found
      BY <2>2
    <3>2. found \in Ids /\ e.jobs[found].state # Absent
      BY <2>2, FindFacts
    <3> QED
      BY <3>1, <3>2, Itself DEF Present
  <2> QED
    BY <2>1, <2>2
<1> HIDE DEF made, j
<1>3. Sound(f) /\ Quiet(made, f)
  BY <1>1, <1>2, BegunKeeps DEF QuietOrMakes
<1> QED
  BY <1>2, <1>3, ThenQuiet

LEMMA OutputRemovedKeeps ==
  ASSUME NEW e, Sound(e), NEW k \in Keys, NEW f, f \in OutputRemoved(e, k)
  PROVE  QuietOrMakes(e, f)
<1> DEFINE j == FindActiveByKey(e, k)
           c == CancelProbe(e, j)
<1>1. \/ f = e
      \/ j # 0 /\ e.jobs[j].state \in Waiting /\ f = Transition(e, j, "Failed", "removed")
      \/ j # 0 /\ e.jobs[j].state \in {"Ready", "Held"} /\ f = Transition(c, j, "Failed", "source")
  BY DEF OutputRemoved
<1>2. "Failed" \in Calm /\ "removed" \in Reasons /\ "source" \in Reasons
  BY StateFacts DEF Reasons
<1>3. CASE f = e
  BY <1>3, Itself
<1>4. CASE j # 0 /\ e.jobs[j].state \in Waiting /\ f = Transition(e, j, "Failed", "removed")
  <2>1. Present(e, j) /\ e.jobs[j].state \notin InMux
    BY <1>4, FindFacts DEF Present, Waiting, InMux
  <2> QED
    BY <1>2, <1>4, <2>1, CalmQuiet DEF QuietOrMakes
<1>5. CASE /\ j # 0 /\ e.jobs[j].state \in {"Ready", "Held"}
           /\ f = Transition(c, j, "Failed", "source")
  <2>1. Present(e, j) /\ j \in Ids
    BY <1>5, FindFacts DEF Present
  <2>2. Sound(c) /\ Quiet(e, c) /\ c.jobs = e.jobs
    BY <2>1, CancelProbeKeeps
  <2> HIDE DEF c
  <2>3. Present(c, j) /\ c.jobs[j].state \notin InMux
    BY <1>5, <2>1, <2>2 DEF Present, InMux
  <2>4. Sound(f) /\ Quiet(c, f)
    BY <1>2, <1>5, <2>2, <2>3, CalmQuiet
  <2> QED
    BY <2>2, <2>4, QuietTwice DEF QuietOrMakes
<1> QED
  BY <1>1, <1>3, <1>4, <1>5

LEMMA UpgradeKeeps ==
  ASSUME NEW e, Sound(e), NEW k \in Keys, NEW f, f = Upgrade(e, k)
  PROVE  Sound(f) /\ Quiet(e, f)
<1> DEFINE j == FindActiveByStem(e, k)
<1>1. f = e \/ (j # 0 /\ f = [e EXCEPT !.jobs[j].key = k])
  BY DEF Upgrade
<1>2. CASE f = e
  BY <1>2, Itself
<1>3. CASE j # 0 /\ f = [e EXCEPT !.jobs[j].key = k]
  <2>1. Present(e, j)
    BY <1>3, FindFacts DEF Present
  <2> QED
    BY <1>3, <2>1, KeyQuiet
<1> QED
  BY <1>1, <1>2, <1>3

LEMMA OutputSeenKeeps ==
  ASSUME NEW e, Sound(e), e.nextId \in Ids, NEW k \in Keys, NEW action, NEW scan, NEW f,
         f \in OutputSeen(e, k, action, scan)
  PROVE  QuietOrMakes(e, f)
<1> DEFINE up == Upgrade(e, k)
           j == EnsuredId(up, k)
           made == Ensure(up, k, "folder")
<1>1. \/ f = up
      \/ FindActiveByKey(up, k) = 0 /\ f = Transition(made, j, "Held", "catchUp")
      \/ f = ScheduleIfWaiting(made, j)
  BY DEF OutputSeen
<1>2. Sound(up) /\ Quiet(e, up)
  BY UpgradeKeeps
<1> HIDE DEF up
<1>3. up.nextId \in Ids
  BY <1>2 DEF Quiet
<1>4. /\ QuietOrMakes(up, made) /\ Present(made, j)
      /\ FindActiveByKey(up, k) = 0 => made.jobs[j].state = "Discovered"
  BY <1>2, <1>3, EnsureMakes DEF Sources
<1> HIDE DEF made, j
<1>5. QuietOrMakes(e, made)
  BY <1>2, <1>4, QuietTwice, QuietMakes DEF QuietOrMakes
<1>6. CASE f = up
  BY <1>2, <1>6 DEF QuietOrMakes
<1>7. CASE FindActiveByKey(up, k) = 0 /\ f = Transition(made, j, "Held", "catchUp")
  <2>1. "Held" \in Calm /\ "catchUp" \in Reasons
    BY StateFacts DEF Reasons
  <2>2. made.jobs[j].state \notin InMux
    BY <1>4, <1>7 DEF InMux
  <2>3. Sound(f) /\ Quiet(made, f)
    BY <1>4, <1>7, <2>1, <2>2, CalmQuiet DEF QuietOrMakes
  <2> QED
    BY <1>5, <2>3, ThenQuiet
<1>8. CASE f = ScheduleIfWaiting(made, j)
  <2>1. Sound(f) /\ Quiet(made, f)
    BY <1>4, <1>8, ScheduleIfWaitingKeeps DEF QuietOrMakes
  <2> QED
    BY <1>5, <2>1, ThenQuiet
<1> QED
  BY <1>1, <1>6, <1>7, <1>8

-----------------------------------------------------------------------------
(* Verdicts and outcomes *)

ProbeEvents == [type : {"probe"}, job : Ids, out : {"Writing", "Failed"}]
               \cup [type : {"probe"}, job : Ids, out : {"Ready"}, stamp : Stamps]
MuxEvents == [type : {"mux"}, job : Ids, out : {"Verifying", "Done", "Failed", "Cancelled"}]

LEMMA EventFacts ==
  ASSUME NEW ev \in Event
  PROVE  /\ ev.type \in {"log", "cep", "sidecar", "output"} => ev.key \in Keys
         /\ ev.type = "probe" => ev \in ProbeEvents
         /\ ev.type = "mux" => ev \in MuxEvents
         /\ ev.type \in {"log", "cep", "sidecar", "output", "probe", "mux"}
<1>1. CASE ev \in [type : {"log", "cep"}, key : Keys, what : Texts]
  BY <1>1
<1>2. CASE ev \in [type : {"sidecar"}, key : Keys]
  BY <1>2
<1>3. CASE ev \in [type : {"output"}, key : Keys, action : Changes, scan : BOOLEAN]
  BY <1>3
<1>4. CASE ev \in ProbeEvents
  BY <1>4 DEF ProbeEvents
<1>5. CASE ev \in MuxEvents
  BY <1>5 DEF MuxEvents
<1> QED
  BY <1>1, <1>2, <1>3, <1>4, <1>5 DEF Event, ProbeEvents, MuxEvents

LEMMA OnProbeKeeps ==
  ASSUME NEW e, Sound(e), NEW ev \in ProbeEvents, NEW f, f \in OnProbe(e, ev)
  PROVE  Sound(f) /\ (Quiet(e, f) \/ Sends(e, f, ev.job))
<1> DEFINE j == ev.job
           u == Untrack(e, j)
           r == [u EXCEPT !.jobs[j].stamp = ev.stamp]
<1>1. j \in Ids /\ ev.out \in {"Writing", "Failed", "Ready"} /\ (ev.out = "Ready" => ev.stamp \in Stamps)
  BY DEF ProbeEvents
<1>2. Sound(u) /\ Quiet(e, u) /\ u.jobs = e.jobs
  BY <1>1, UntrackKeeps
<1>3. "Failed" \in Calm /\ "probe" \in Reasons
  BY StateFacts DEF Reasons
<1>4. CASE f = u
  BY <1>2, <1>4
<1>5. CASE e.jobs[j].state = Absent
  BY <1>4, <1>5 DEF OnProbe
<1>6. CASE e.jobs[j].state # Absent /\ ev.out = "Writing"
  <2>1. f = IF e.jobs[j].state = "Discovered" THEN Transition(e, j, "Encoding", "") ELSE e
    BY <1>6 DEF OnProbe
  <2>2. Present(e, j)
    BY <1>1, <1>6 DEF Present
  <2> QED
    BY <2>1, <2>2, BegunKeeps
<1>7. CASE e.jobs[j].state # Absent /\ ev.out = "Failed"
  <2>1. f = IF e.jobs[j].state \in Terminal \cup InMux THEN u ELSE Transition(u, j, "Failed", "probe")
    BY <1>7 DEF OnProbe
  <2>2. CASE f = Transition(u, j, "Failed", "probe") /\ e.jobs[j].state \notin InMux
    <3> HIDE DEF u
    <3>1. Present(u, j) /\ u.jobs[j].state \notin InMux
      BY <1>1, <1>2, <1>7, <2>2 DEF Present
    <3>2. Sound(f) /\ Quiet(u, f)
      BY <1>2, <1>3, <2>2, <3>1, CalmQuiet
    <3> QED
      BY <1>2, <3>2, QuietTwice
  <2> QED
    BY <1>4, <2>1, <2>2
<1>8. CASE e.jobs[j].state # Absent /\ ev.out = "Ready"
  <2>1. \/ f = u
        \/ e.jobs[j].state \notin InMux /\ f \in OnReady(r, j)
    BY <1>8 DEF OnProbe
  <2>2. CASE e.jobs[j].state \notin InMux /\ f \in OnReady(r, j)
    <3> HIDE DEF u
    <3>1. Present(u, j)
      BY <1>1, <1>2, <1>8 DEF Present
    <3>2. Sound(r) /\ Quiet(u, r) /\ Present(r, j) /\ r.jobs[j].state = u.jobs[j].state
      BY <1>1, <1>2, <1>8, <3>1, StampQuiet
    <3> HIDE DEF r
    <3>3. r.jobs[j].state \notin InMux
      BY <1>2, <2>2, <3>2
    <3>4. Sound(f) /\ (Quiet(r, f) \/ Sends(r, f, j))
      BY <2>2, <3>2, <3>3, OnReadyKeeps
    <3>5. Quiet(e, r)
      BY <1>2, <3>2, QuietTwice
    <3> QED
      BY <1>1, <3>4, <3>5, QuietTwice, QuietSends
  <2> QED
    BY <1>4, <2>1, <2>2
<1> QED
  BY <1>1, <1>5, <1>6, <1>7, <1>8

\* What a handler owes: the invariant, and that what it sends to the mux is
\* not on hold.
Keeps(e, f) == Sound(f) /\ Booked(f) /\ Released(e, f) /\ f.nextId = e.nextId /\ f.inbox = e.inbox

LEMMA QuietKeeps ==
  ASSUME NEW e, NEW f, Sound(e), Booked(e), Sound(f), Quiet(e, f)
  PROVE  Keeps(e, f)
<1>1. Booked(f)
  BY QuietBooks DEF Booked
<1>2. Released(e, f) /\ f.nextId = e.nextId /\ f.inbox = e.inbox
  BY QuietReleases DEF Quiet
<1> QED
  BY <1>1, <1>2 DEF Keeps

LEMMA SendsKeeps ==
  ASSUME NEW e, NEW f, NEW j \in Ids, Sound(e), Booked(e), Sound(f), Sends(e, f, j)
  PROVE  Keeps(e, f)
<1>1. Booked(f) /\ Released(e, f)
  BY SendsBooks
<1>2. f.nextId = e.nextId /\ f.inbox = e.inbox
  BY DEF Sends
<1> QED
  BY <1>1, <1>2 DEF Keeps

\* The worker's report of a job; `e` is the state once the event is popped.
LEMMA OnMuxKeeps ==
  ASSUME NEW e, Sound(e), NEW ev \in MuxEvents, NEW f, f \in OnMux(e, ev),
         (\A j \in Ids : ~IsEnd(ev, j)) => Booked(e),
         \A j \in Ids : IsEnd(ev, j) =>
            /\ BookedBut(e, {j})
            /\ e.jobs[j].state \in InMux \cup {Absent}
            /\ e.jobs[j].state = Absent => JobBooked(e, j)
            /\ ~Asked(e.queue, j) /\ e.muxing.job # j /\ ~HasEnd(e.inbox, j)
  PROVE  Keeps(e, f)
<1> DEFINE j == ev.job
<1>1. /\ j \in Ids /\ ev.type = "mux" /\ ev.out \in {"Verifying", "Done", "Failed", "Cancelled"}
  BY DEF MuxEvents
<1>2. PICK l : /\ l = e \/ (e.jobs[j].state # Absent /\ l = Correct(e, j))
               /\ f \in MuxOutcome(l, j, ev.out)
  BY DEF OnMux
<1>3. Sound(l) /\ Quiet(e, l) /\ l.jobs[j].state = e.jobs[j].state
  <2>1. CASE l = e
    BY <2>1, Itself
  <2>2. CASE e.jobs[j].state # Absent /\ l = Correct(e, j)
    <3>1. Present(e, j)
      BY <1>1, <2>2 DEF Present
    <3> QED
      BY <2>2, <3>1, CorrectQuiet
  <2> QED
    BY <1>2, <2>1, <2>2
<1> HIDE DEF j
<1>4. CASE ev.out = "Verifying"
  <2>1. Booked(e)
    BY <1>4 DEF IsEnd
  <2>2. CASE l.jobs[j].state \notin InMux
    <3>1. f = l
      BY <1>2, <2>2 DEF MuxOutcome
    <3> QED
      BY <1>3, <2>1, <3>1, QuietKeeps
  <2>3. CASE l.jobs[j].state \in InMux
    <3>1. f = Transition(l, j, "Verifying", "")
      BY <1>2, <1>4, <2>3 DEF MuxOutcome
    <3>2. Present(l, j) /\ "Verifying" \in States \ {Absent} /\ "" \in Reasons
      BY <1>1, <2>3, StateFacts DEF Present, Reasons
    <3>3. "Verifying" \in InMux <=> l.jobs[j].state \in InMux
      BY <2>3, StateFacts
    <3>4. Sound(f) /\ Quiet(l, f)
      BY <1>3, <3>1, <3>2, <3>3, TransitionQuiet
    <3> QED
      BY <1>3, <2>1, <3>4, QuietTwice, QuietKeeps
  <2> QED
    BY <2>2, <2>3
<1>5. CASE ev.out # "Verifying"
  <2>1. /\ BookedBut(e, {j})
        /\ e.jobs[j].state \in InMux \cup {Absent}
        /\ e.jobs[j].state = Absent => JobBooked(e, j)
        /\ ~Asked(e.queue, j) /\ e.muxing.job # j /\ ~HasEnd(e.inbox, j)
    BY <1>1, <1>5 DEF IsEnd, j
  <2>2. CASE e.jobs[j].state = Absent
    <3>1. Booked(e)
      BY <2>1, <2>2 DEF BookedBut, Booked
    <3>2. f = l
      BY <1>2, <1>3, <2>2 DEF MuxOutcome, InMux, Absent
    <3> QED
      BY <1>3, <3>1, <3>2, QuietKeeps
  <2>3. CASE e.jobs[j].state \in InMux
    <3>1. \/ f \in FinishDone(l, j)
          \/ ev.out \in {"Failed", "Cancelled"} /\ f = Transition(l, j, ev.out, "mux")
      BY <1>1, <1>2, <1>3, <1>5, <2>3 DEF MuxOutcome
    <3>2. Present(l, j) /\ {"Failed", "Cancelled"} \subseteq Calm /\ "mux" \in Reasons
      <4>1. e.jobs[j].state # Absent
        BY <2>3 DEF InMux, Absent
      <4>2. {"Failed", "Cancelled"} \subseteq Calm /\ "mux" \in Reasons
        BY StateFacts DEF Reasons
      <4> QED
        BY <1>1, <1>3, <4>1, <4>2 DEF Present
    <3>3. Sound(f) /\ Leaves(l, f, j)
      <4>1. CASE f \in FinishDone(l, j)
        BY <1>3, <3>2, <4>1, FinishDoneLeaves
      <4>2. CASE ev.out \in {"Failed", "Cancelled"} /\ f = Transition(l, j, ev.out, "mux")
        BY <1>3, <3>2, <4>2, CalmLeaves
      <4> QED
        BY <3>1, <4>1, <4>2
    <3>4. Leaves(e, f, j)
      BY <1>1, <1>3, <3>3, QuietLeaves
    <3>5. Booked(f) /\ Released(e, f)
      BY <1>1, <2>1, <3>3, <3>4, LeavesBooks
    <3> QED
      BY <3>3, <3>4, <3>5 DEF Keeps, Leaves
  <2> QED
    BY <2>1, <2>2, <2>3
<1> QED
  BY <1>4, <1>5

-----------------------------------------------------------------------------
(* The next event is applied *)

\* Events that may create a job.
Creating(ev) == ev.type \notin {"probe", "mux"}

LEMMA MakesKeeps ==
  ASSUME NEW e, NEW f, Sound(e), Booked(e), QuietOrMakes(e, f)
  PROVE  /\ Sound(f) /\ Booked(f) /\ Released(e, f) /\ f.inbox = e.inbox
         /\ f.nextId = e.nextId \/ f.nextId = e.nextId + 1
<1>1. CASE Quiet(e, f)
  BY <1>1, QuietKeeps DEF Keeps, QuietOrMakes
<1>2. CASE Makes(e, f)
  <2>1. Sound(f)
    BY DEF QuietOrMakes
  <2>2. Booked(f) /\ Released(e, f)
    BY <1>2, <2>1, MakesBooks, MakesReleases
  <2> QED
    BY <1>2, <2>1, <2>2 DEF Makes
<1> QED
  BY <1>1, <1>2 DEF QuietOrMakes

LEMMA HandleKeeps ==
  ASSUME NEW e, Sound(e), Booked(e), e.inbox # <<>>,
         Creating(Head(e.inbox)) => e.nextId \in Ids,
         NEW f, f \in Handle([e EXCEPT !.inbox = Tail(@)], Head(e.inbox))
  PROVE  /\ Sound(f) /\ Booked(f) /\ Released(e, f) /\ f.inbox = Tail(e.inbox)
         /\ \/ f.nextId = e.nextId
            \/ Creating(Head(e.inbox)) /\ f.nextId = e.nextId + 1
<1> DEFINE d == [e EXCEPT !.inbox = Tail(@)]
           ev == Head(e.inbox)
<1>1. /\ Sound(d) /\ ev \in Event
      /\ d.jobs = e.jobs /\ d.inbox = Tail(e.inbox) /\ d.nextId = e.nextId
      /\ (\A j \in Ids : ~IsEnd(ev, j)) => Booked(d)
      /\ \A j \in Ids : IsEnd(ev, j) =>
            /\ BookedBut(d, {j})
            /\ d.jobs[j].state \in InMux \cup {Absent}
            /\ d.jobs[j].state = Absent => JobBooked(d, j)
            /\ ~Asked(d.queue, j) /\ d.muxing.job # j /\ ~HasEnd(d.inbox, j)
  BY Popped
<1>2. f \in Handle(d, ev)
  OBVIOUS
<1>3. Creating(ev) => e.nextId \in Ids
  OBVIOUS
<1> HIDE DEF d, ev
<1>4. /\ ev.type \in {"log", "cep", "sidecar", "output"} => ev.key \in Keys
      /\ ev.type = "probe" => ev \in ProbeEvents
      /\ ev.type = "mux" => ev \in MuxEvents
      /\ ev.type \in {"log", "cep", "sidecar", "output", "probe", "mux"}
  BY <1>1, EventFacts
<1>5. CASE ev.type \in {"log", "cep", "sidecar", "output"}
  <2>1. Creating(ev) /\ ev.key \in Keys /\ d.nextId \in Ids
    BY <1>1, <1>3, <1>4, <1>5 DEF Creating
  <2>2. Booked(d)
    BY <1>1, <1>5 DEF IsEnd
  <2>3. QuietOrMakes(d, f)
    <3>1. CASE ev.type = "log"
      <4>1. f \in OnLog(d, ev)
        BY <1>2, <3>1 DEF Handle
      <4>2. CASE f \in LogSuccess(d, ev.key)
        BY <1>1, <2>1, <4>2, LogSuccessKeeps
      <4>3. CASE f \in LogFailed(d, ev.key)
        BY <1>1, <2>1, <4>3, LogFailedKeeps
      <4>4. CASE f \in CatchUp(d, ev.key, ev.what = "newer")
        BY <1>1, <2>1, <4>4, CatchUpKeeps
      <4> QED
        BY <4>1, <4>2, <4>3, <4>4 DEF OnLog
    <3>2. CASE ev.type = "cep"
      <4>1. f \in OnCep(d, ev)
        BY <1>2, <3>2 DEF Handle
      <4>2. CASE f \in CepStarted(d, ev.key)
        BY <1>1, <2>1, <4>2, CepStartedKeeps
      <4>3. CASE f \in CepComplete(d, ev.key, ev.what = "ok")
        BY <1>1, <2>1, <4>3, CepCompleteKeeps
      <4> QED
        BY <4>1, <4>2, <4>3 DEF OnCep
    <3>3. CASE ev.type = "sidecar"
      <4>1. f \in OnSidecar(d, ev)
        BY <1>2, <3>3 DEF Handle
      <4> QED
        BY <1>1, <2>1, <4>1, OnSidecarKeeps
    <3>4. CASE ev.type = "output"
      <4>1. f \in OutputRemoved(d, ev.key) \/ f \in OutputSeen(d, ev.key, ev.action, ev.scan)
        BY <1>2, <3>4 DEF Handle, OnOutput
      <4> QED
        BY <1>1, <2>1, <4>1, OutputRemovedKeeps, OutputSeenKeeps
    <3> QED
      BY <1>5, <3>1, <3>2, <3>3, <3>4
  <2>4. /\ Sound(f) /\ Booked(f) /\ Released(d, f) /\ f.inbox = d.inbox
        /\ f.nextId = d.nextId \/ f.nextId = d.nextId + 1
    BY <1>1, <2>2, <2>3, MakesKeeps
  <2> QED
    BY <1>1, <2>1, <2>4 DEF Released, ev
<1>6. CASE ev.type \in {"probe", "mux"}
  <2>1. Keeps(d, f)
    <3>1. CASE ev.type = "probe"
      <4>1. f \in OnProbe(d, ev) /\ ev \in ProbeEvents /\ ev.job \in Ids
        BY <1>2, <1>4, <3>1 DEF Handle, ProbeEvents
      <4>2. Sound(f) /\ (Quiet(d, f) \/ Sends(d, f, ev.job))
        BY <1>1, <4>1, OnProbeKeeps
      <4>3. Booked(d)
        BY <1>1, <3>1 DEF IsEnd
      <4> QED
        BY <1>1, <4>1, <4>2, <4>3, QuietKeeps, SendsKeeps
    <3>2. CASE ev.type = "mux"
      <4>1. f \in OnMux(d, ev) /\ ev \in MuxEvents
        BY <1>2, <1>4, <3>2 DEF Handle
      <4> QED
        BY <1>1, <4>1, OnMuxKeeps
    <3> QED
      BY <1>6, <3>1, <3>2
  <2> QED
    BY <1>1, <2>1 DEF Keeps, Released
<1> QED
  BY <1>4, <1>5, <1>6

-----------------------------------------------------------------------------
(* Commands *)

LEMMA ReprobeKeeps ==
  ASSUME NEW e, Sound(e), NEW j, Present(e, j), e.jobs[j].state \notin InMux,
         NEW f, f \in Reprobe(e, j)
  PROVE  Sound(f) /\ Quiet(e, f)
<1> DEFINE a == [e EXCEPT !.jobs[j].stamp = NoStamp]
           t == Transition(a, j, "Discovered", "")
<1>1. /\ NoStamp \in Stamps /\ "Discovered" \in Calm /\ "" \in Reasons
  BY StateFacts, BoundsAssumption DEF NoStamp, Stamps, Reasons
<1>2. f = Schedule(t, j) /\ t = Transition(a, j, "Discovered", "")
  BY DEF Reprobe
<1>3. Sound(a) /\ Quiet(e, a) /\ Present(a, j) /\ a.jobs[j].state = e.jobs[j].state
  BY <1>1, StampQuiet
<1> HIDE DEF a, t
<1>4. Sound(t) /\ Quiet(a, t) /\ Present(t, j)
  BY <1>1, <1>2, <1>3, CalmQuiet
<1>5. Sound(f) /\ Quiet(t, f)
  BY <1>2, <1>4, ScheduleKeeps
<1> QED
  BY <1>3, <1>4, <1>5, QuietTwice

LEMMA RestartKeeps ==
  ASSUME NEW e, Sound(e), NEW j, Present(e, j), e.jobs[j].state \notin InMux,
         NEW f, f \in Restart(e, j)
  PROVE  Sound(f) /\ (Quiet(e, f) \/ Sends(e, f, j))
<1>1. f = Transition(e, j, "Failed", "source") \/ f \in OnReady(e, j) \/ f \in Reprobe(e, j)
  BY DEF Restart
<1>2. "Failed" \in Calm /\ "source" \in Reasons
  BY StateFacts DEF Reasons
<1>3. CASE f = Transition(e, j, "Failed", "source")
  BY <1>2, <1>3, CalmQuiet
<1>4. CASE f \in OnReady(e, j)
  BY <1>4, OnReadyKeeps
<1>5. CASE f \in Reprobe(e, j)
  BY <1>5, ReprobeKeeps
<1> QED
  BY <1>1, <1>3, <1>4, <1>5

LEMMA ForceRunKeeps ==
  ASSUME NEW e, Sound(e), NEW j, Present(e, j), e.jobs[j] \notin Holding,
         NEW f, f = ForceRun(e, j)
  PROVE  Sound(f) /\ Quiet(e, f) /\ f.jobs = e.jobs
<1> DEFINE d == e.forced \cup {j}
<1>1. d \in SUBSET Ids /\ \A i \in d : e.jobs[i] \notin Holding
  BY DEF Sound, Engine, JobSound, Present
<1>2. f = [e EXCEPT !.forced = d]
  BY DEF ForceRun, Sound, Engine
<1>3. f.jobs = e.jobs
  BY DEF ForceRun, Sound, Engine
<1> HIDE DEF d
<1>4. Sound(f) /\ Quiet(e, f)
  BY <1>1, <1>2, ForcedKeeps
<1> QED
  BY <1>3, <1>4

LEMMA RunJobKeeps ==
  ASSUME NEW e, Sound(e), NEW j, Present(e, j), NEW f, f \in RunJob(e, j)
  PROVE  Sound(f) /\ (Quiet(e, f) \/ Sends(e, f, j))
<1> DEFINE free == Free(e, j)
           run == ForceRun(free, j)
<1>1. \/ f = e
      \/ f = run
      \/ e.jobs[j].state \notin InMux /\ (f \in Restart(free, j) \/ f \in Restart(run, j))
  BY DEF RunJob, Free
<1>2. /\ Sound(free) /\ Quiet(e, free) /\ Present(free, j)
      /\ free.jobs[j].state = e.jobs[j].state /\ free.jobs[j] \notin Holding
  BY FreeQuiet
<1> HIDE DEF free
<1>3. Sound(run) /\ Quiet(free, run) /\ run.jobs = free.jobs
  BY <1>2, ForceRunKeeps
<1> HIDE DEF run
<1>4. Quiet(e, run) /\ Present(run, j) /\ run.jobs[j].state = e.jobs[j].state /\ j \in Ids
  BY <1>2, <1>3, QuietTwice DEF Present
<1>5. CASE f = e
  BY <1>5, Itself
<1>6. CASE f = run
  BY <1>3, <1>4, <1>6
<1>7. CASE e.jobs[j].state \notin InMux /\ f \in Restart(free, j)
  <2>1. Sound(f) /\ (Quiet(free, f) \/ Sends(free, f, j))
    BY <1>2, <1>7, RestartKeeps
  <2> QED
    BY <1>2, <1>4, <2>1, QuietTwice, QuietSends
<1>8. CASE e.jobs[j].state \notin InMux /\ f \in Restart(run, j)
  <2>1. Sound(f) /\ (Quiet(run, f) \/ Sends(run, f, j))
    BY <1>3, <1>4, <1>8, RestartKeeps
  <2> QED
    BY <1>4, <2>1, QuietTwice, QuietSends
<1> QED
  BY <1>1, <1>5, <1>6, <1>7, <1>8

LEMMA LessForced ==
  ASSUME NEW e, Sound(e), NEW j
  PROVE  LET d == e.forced \ {j}
             a == [e EXCEPT !.forced = d]
         IN  Sound(a) /\ Quiet(e, a) /\ a.jobs = e.jobs /\ a.forced = d
<1> DEFINE d == e.forced \ {j}
           a == [e EXCEPT !.forced = d]
<1>1. d \in SUBSET Ids /\ \A i \in d : e.jobs[i] \notin Holding
  BY DEF Sound, Engine, JobSound
<1>2. a = [e EXCEPT !.forced = d]
  OBVIOUS
<1> HIDE DEF d, a
<1>3. Sound(a) /\ Quiet(e, a) /\ a.jobs = e.jobs /\ a.forced = d
  BY <1>1, <1>2, ForcedKeeps
<1> QED
  BY <1>3 DEF d, a

LEMMA HoldJobKeeps ==
  ASSUME NEW e, Sound(e), NEW j, Present(e, j), NEW f, f \in HoldJob(e, j)
  PROVE  Sound(f) /\ Quiet(e, f)
<1> DEFINE d == e.forced \ {j}
           a == [e EXCEPT !.forced = d]
           r == [a.jobs[j] EXCEPT !.hold = TRUE]
           held == [a EXCEPT !.jobs = [a.jobs EXCEPT ![j] = r]]
<1>1. j \in Ids /\ e \in Engine /\ e.jobs[j] \in JobRecord /\ e.jobs[j].key \in Keys
  BY KeyOfPresent
<1>2. d \in SUBSET Ids /\ \A i \in d : e.jobs[i] \notin Holding
  BY DEF Sound, Engine, JobSound
<1>3. j \notin d
  OBVIOUS
<1>4. [e EXCEPT !.jobs[j].hold = TRUE, !.forced = @ \ {j}] = held
  BY <1>1 DEF Engine
<1>5. \/ f = e
      \/ e.jobs[j].state \notin InMux /\ f = held
      \/ e.jobs[j].state \notin InMux /\ f = Transition(held, j, "Held", "held")
  BY <1>4 DEF HoldJob, Waiting, InMux
<1> HIDE DEF d
<1>6. Sound(a) /\ Quiet(e, a) /\ a.jobs = e.jobs /\ a.forced = d
  BY LessForced DEF d
<1> HIDE DEF a
<1>7. /\ r \in JobRecord /\ r.state = e.jobs[j].state /\ r.key = e.jobs[j].key
      /\ r.gen = e.jobs[j].gen
  BY <1>1, <1>6 DEF JobRecord
<1> HIDE DEF r
<1>8. /\ r.state = Absent <=> r.key = NoKey
      /\ r.gen = a.jobs[j].gen
      /\ j \in a.forced => r \notin Holding
      /\ r.state = Absent <=> a.jobs[j].state = Absent
  BY <1>1, <1>3, <1>6, <1>7, KeysAssumption DEF Present
<1>9. Sound(held) /\ Frame(a, held) /\ Others(a, held, j) /\ held.jobs[j] = r
  <2>1. held = [a EXCEPT !.jobs = [a.jobs EXCEPT ![j] = r]]
    OBVIOUS
  <2>2. held.jobs[j] = r
    BY <1>1, <1>6 DEF Sound, Engine
  <2> HIDE DEF held
  <2>3. Sound(held) /\ Frame(a, held) /\ Others(a, held, j)
    BY <1>1, <1>6, <1>7, <1>8, <2>1, EditJob
  <2> QED
    BY <2>2, <2>3
<1> HIDE DEF held
<1>10. Quiet(a, held) /\ Present(held, j) /\ held.jobs[j].state = e.jobs[j].state
  <2>1. SameClass(a, held, j)
    BY <1>6, <1>7, <1>9 DEF SameClass
  <2> QED
    BY <1>1, <1>7, <1>9, <2>1, QuietIf DEF Present
<1>11. Quiet(e, held)
  BY <1>6, <1>10, QuietTwice
<1>12. CASE f = e
  BY <1>12, Itself
<1>13. CASE f = held
  BY <1>9, <1>11, <1>13
<1>14. CASE e.jobs[j].state \notin InMux /\ f = Transition(held, j, "Held", "held")
  <2>1. "Held" \in Calm /\ "held" \in Reasons
    BY StateFacts DEF Reasons
  <2>2. Sound(f) /\ Quiet(held, f)
    BY <1>9, <1>10, <1>14, <2>1, CalmQuiet
  <2> QED
    BY <1>11, <2>2, QuietTwice
<1> QED
  BY <1>5, <1>12, <1>13, <1>14

LEMMA ResumeJobKeeps ==
  ASSUME NEW e, Sound(e), NEW j, Present(e, j), NEW f, f \in ResumeJob(e, j)
  PROVE  Sound(f) /\ (Quiet(e, f) \/ Sends(e, f, j))
<1> DEFINE free == Free(e, j)
<1>1. f = free \/ (e.jobs[j].state = "Held" /\ f \in Restart(free, j))
  BY DEF ResumeJob, Free
<1>2. /\ Sound(free) /\ Quiet(e, free) /\ Present(free, j)
      /\ free.jobs[j].state = e.jobs[j].state
  BY FreeQuiet
<1> HIDE DEF free
<1>3. CASE f = free
  BY <1>2, <1>3
<1>4. CASE e.jobs[j].state = "Held" /\ f \in Restart(free, j)
  <2>1. free.jobs[j].state \notin InMux /\ j \in Ids
    BY <1>2, <1>4 DEF InMux, Present
  <2>2. Sound(f) /\ (Quiet(free, f) \/ Sends(free, f, j))
    BY <1>2, <1>4, <2>1, RestartKeeps
  <2> QED
    BY <1>2, <2>1, <2>2, QuietTwice, QuietSends
<1> QED
  BY <1>1, <1>3, <1>4

LEMMA SetJobOverridesKeeps ==
  ASSUME NEW e, Sound(e), NEW j, Present(e, j), NEW f, f \in SetJobOverrides(e, j)
  PROVE  Sound(f) /\ (Quiet(e, f) \/ Sends(e, f, j))
<1>1. PICK c \in Selections(e, j) :
         \/ f = c
         \/ e.jobs[j].state = "Held" /\ f = Transition(c, j, "Held", "held")
         \/ f \in ResumeJob(c, j)
  BY DEF SetJobOverrides
<1>2. Sound(c) /\ Quiet(e, c) /\ Present(c, j) /\ c.jobs[j].state = e.jobs[j].state
  BY SelectionsQuiet
<1>3. j \in Ids /\ "Held" \in Calm /\ "held" \in Reasons
  BY StateFacts DEF Reasons, Present
<1>4. CASE f = c
  BY <1>2, <1>4
<1>5. CASE e.jobs[j].state = "Held" /\ f = Transition(c, j, "Held", "held")
  <2>1. c.jobs[j].state \notin InMux
    BY <1>2, <1>5 DEF InMux
  <2>2. Sound(f) /\ Quiet(c, f)
    BY <1>2, <1>3, <1>5, <2>1, CalmQuiet
  <2> QED
    BY <1>2, <2>2, QuietTwice
<1>6. CASE f \in ResumeJob(c, j)
  <2>1. Sound(f) /\ (Quiet(c, f) \/ Sends(c, f, j))
    BY <1>2, <1>6, ResumeJobKeeps
  <2> QED
    BY <1>2, <1>3, <2>1, QuietTwice, QuietSends
<1> QED
  BY <1>1, <1>4, <1>5, <1>6

\* The request of a job is taken back, or its run is told to stop.
LEMMA MuxCancelKeeps ==
  ASSUME NEW e, Sound(e), Booked(e), NEW j, Present(e, j), NEW f, f = MuxCancel(e, j)
  PROVE  /\ Sound(f) /\ f.jobs = e.jobs /\ f.forced = e.forced /\ f.nextId = e.nextId
         /\ OneRequest(f.queue) /\ OneEnd(f.inbox)
         /\ \A i \in Ids \ {j} : /\ Asked(f.queue, i) <=> Asked(e.queue, i)
                                 /\ HasEnd(f.inbox, i) <=> HasEnd(e.inbox, i)
         /\ f.muxing.job = e.muxing.job
         /\ IF e.muxing.job = j THEN f.muxing.cancel ELSE f.muxing = e.muxing
         /\ ~Asked(f.queue, j) /\ ~(f.muxing.job = j /\ HasEnd(f.inbox, j))
         /\ f.inbox = e.inbox \/ \E ev \in MuxEvents : f.inbox = Append(e.inbox, ev)
<1>1. j \in Ids /\ e \in Engine /\ JobBooked(e, j) /\ OneRequest(e.queue) /\ OneEnd(e.inbox)
  BY DEF Present, Sound, Booked, BookedBut
<1>2. e.queue \in Seq(Request) /\ e.inbox \in Seq(Event) /\ e.muxing \in MuxRecord
  BY <1>1 DEF Engine
<1>3. (\E i \in DOMAIN e.queue : e.queue[i].job = j) <=> Asked(e.queue, j)
  BY <1>2, LenProperties DEF Asked
<1>4. CASE e.muxing.job = j
  <2> DEFINE m == [e.muxing EXCEPT !.cancel = TRUE]
  <2>1. m \in MuxRecord /\ m.job = e.muxing.job /\ m.key = e.muxing.key /\ m.cancel
    BY <1>2 DEF MuxRecord
  <2>2. f = [e EXCEPT !.muxing = m]
    BY <1>1, <1>4 DEF MuxCancel, Engine
  <2> HIDE DEF m
  <2>3. /\ f \in Engine /\ f.muxing = m /\ f.jobs = e.jobs /\ f.forced = e.forced
        /\ f.nextId = e.nextId /\ f.queue = e.queue /\ f.inbox = e.inbox /\ f.probe = e.probe
    BY <1>1, <2>1, <2>2 DEF Engine
  <2>4. Sound(f)
    BY <2>1, <2>3 DEF Sound, JobSound
  <2>5. ~Asked(e.queue, j) /\ ~HasEnd(e.inbox, j)
    BY <1>1, <1>4 DEF JobBooked
  <2> QED
    BY <1>1, <1>4, <2>1, <2>3, <2>4, <2>5
<1>5. CASE e.muxing.job # j /\ Asked(e.queue, j)
  <2> DEFINE q == RemoveAt(e.queue, FirstRequest(e.queue, j))
             ev == [type |-> "mux", job |-> j, out |-> "Cancelled"]
             s == Append(e.inbox, ev)
  <2>1. /\ q \in Seq(Request) /\ OneRequest(q)
        /\ \A i : Asked(q, i) <=> Asked(e.queue, i) /\ i # j
    BY <1>1, <1>2, <1>5, AskedRemove
  <2>2. ev \in MuxEvents /\ ev \in Event
    BY <1>1 DEF MuxEvents, Event
  <2>3. \A i \in Ids : IsEnd(ev, i) <=> i = j
    BY <1>1 DEF IsEnd
  <2>4. ~HasEnd(e.inbox, j)
    BY <1>1, <1>5 DEF JobBooked
  <2>5. f = [e EXCEPT !.queue = q, !.inbox = s]
    BY <1>1, <1>3, <1>5 DEF MuxCancel, Engine
  <2> HIDE DEF q, ev
  <2>6. /\ s \in Seq(Event) /\ OneEnd(s)
        /\ \A i \in Ids : HasEnd(s, i) <=> HasEnd(e.inbox, i) \/ i = j
    BY <1>1, <1>2, <2>2, <2>3, <2>4, EndsAppend
  <2>7. \E v \in MuxEvents : s = Append(e.inbox, v)
    BY <2>2
  <2> HIDE DEF s
  <2>8. /\ f \in Engine /\ f.queue = q /\ f.inbox = s /\ f.muxing = e.muxing /\ f.jobs = e.jobs
        /\ f.forced = e.forced /\ f.nextId = e.nextId /\ f.probe = e.probe
    BY <1>1, <2>1, <2>5, <2>6 DEF Engine
  <2>9. Sound(f)
    BY <2>8 DEF Sound, JobSound
  <2> QED
    BY <1>5, <2>1, <2>6, <2>7, <2>8, <2>9
<1>6. CASE e.muxing.job # j /\ ~Asked(e.queue, j)
  <2>1. f = e
    BY <1>3, <1>6 DEF MuxCancel
  <2> QED
    BY <1>1, <1>6, <2>1
<1> QED
  BY <1>4, <1>5, <1>6

LEMMA RemoveJobKeeps ==
  ASSUME NEW e, Sound(e), Booked(e), NEW j, Present(e, j), NEW f, f \in RemoveJob(e, j)
  PROVE  /\ Sound(f) /\ Booked(f) /\ Released(e, f) /\ f.nextId = e.nextId
         /\ f.inbox = e.inbox \/ \E ev \in MuxEvents : f.inbox = Append(e.inbox, ev)
<1> DEFINE c == CancelProbe(e, j)
           m == MuxCancel(c, j)
<1>1. j \in Ids /\ f = [m EXCEPT !.forced = @ \ {j}, !.jobs[j] = NoJob]
  BY DEF RemoveJob, Present
<1>2. Sound(c) /\ Quiet(e, c) /\ c.jobs = e.jobs
  BY <1>1, CancelProbeKeeps
<1>3. c.inbox = e.inbox /\ c.nextId = e.nextId
  BY <1>2 DEF Quiet
<1> HIDE DEF c
<1>4. Booked(c) /\ Present(c, j)
  BY <1>2, QuietBooks DEF Booked, Present
<1>5. /\ Sound(m) /\ m.jobs = c.jobs /\ m.forced = c.forced /\ m.nextId = c.nextId
      /\ OneRequest(m.queue) /\ OneEnd(m.inbox)
  BY <1>2, <1>4, MuxCancelKeeps
<1>6. \A i \in Ids \ {j} : /\ Asked(m.queue, i) <=> Asked(c.queue, i)
                           /\ HasEnd(m.inbox, i) <=> HasEnd(c.inbox, i)
  BY <1>2, <1>4, MuxCancelKeeps
<1>7. /\ m.muxing.job = c.muxing.job
      /\ IF c.muxing.job = j THEN m.muxing.cancel ELSE m.muxing = c.muxing
      /\ ~Asked(m.queue, j) /\ ~(m.muxing.job = j /\ HasEnd(m.inbox, j))
      /\ m.inbox = c.inbox \/ \E ev \in MuxEvents : m.inbox = Append(c.inbox, ev)
  BY <1>2, <1>4, MuxCancelKeeps
<1> HIDE DEF m
<1> DEFINE d == m.forced \ {j}
           t == [m.jobs EXCEPT ![j] = NoJob]
<1>8. f = [m EXCEPT !.forced = d, !.jobs = t]
  BY <1>1, <1>5 DEF Sound, Engine
<1>9. NoJob \in JobRecord /\ NoJob.state = Absent /\ NoJob.key = NoKey /\ NoJob.gen = 0
  BY NoJobFacts
<1>10. /\ t \in [Ids -> JobRecord] /\ t[j] = NoJob /\ \A i \in Ids \ {j} : t[i] = m.jobs[i]
       /\ d \in SUBSET Ids /\ j \notin d /\ d \subseteq m.forced
  BY <1>1, <1>5, <1>9 DEF Sound, Engine
<1> HIDE DEF d, t
<1>11. /\ f \in Engine /\ f.forced = d /\ f.jobs = t /\ f.probe = m.probe /\ f.nextId = m.nextId
       /\ f.queue = m.queue /\ f.muxing = m.muxing /\ f.inbox = m.inbox
  BY <1>5, <1>8, <1>10 DEF Sound, Engine
<1>12. ASSUME NEW i \in Ids PROVE JobSound(f, i)
  <2>1. JobSound(m, i)
    BY <1>5 DEF Sound
  <2>2. CASE i = j
    <3>1. 0 <= i
      BY BoundsAssumption DEF Ids
    <3> QED
      BY <1>9, <1>10, <1>11, <2>1, <2>2, <3>1 DEF JobSound
  <2>3. CASE i # j
    BY <1>10, <1>11, <2>1, <2>3 DEF JobSound
  <2> QED
    BY <2>2, <2>3
<1>13. Sound(f)
  BY <1>5, <1>11, <1>12 DEF Sound
<1>14. ASSUME NEW i \in Ids, i # j PROVE JobBooked(f, i)
  <2>1. JobBooked(c, i)
    BY <1>4 DEF Booked, BookedBut
  <2>2. /\ Asked(f.queue, i) <=> Asked(c.queue, i)
        /\ HasEnd(f.inbox, i) <=> HasEnd(c.inbox, i)
        /\ f.muxing.job = c.muxing.job
        /\ c.muxing.job = i => f.muxing = c.muxing
        /\ f.jobs[i] = c.jobs[i] /\ f.nextId = c.nextId
    BY <1>5, <1>6, <1>7, <1>10, <1>11, <1>14
  <2> QED
    BY <2>1, <2>2 DEF JobBooked
<1>15. JobBooked(f, j)
  <2>1. JobSound(e, j) /\ e.jobs[j].state # Absent
    BY <1>1 DEF Sound, Present
  <2>2. ~(j >= f.nextId)
    BY <1>3, <1>5, <1>11, <2>1 DEF JobSound
  <2>3. f.jobs[j].state = Absent /\ Absent \notin InMux
    BY <1>9, <1>10, <1>11 DEF InMux, Absent
  <2>4. ~Asked(f.queue, j) /\ ~(f.muxing.job = j /\ HasEnd(f.inbox, j))
    BY <1>7, <1>11
  <2>5. f.muxing.job = j => f.muxing.cancel
    BY <1>7, <1>11
  <2> QED
    BY <2>2, <2>3, <2>4, <2>5 DEF JobBooked
<1>16. Booked(f)
  BY <1>5, <1>11, <1>14, <1>15 DEF Booked, BookedBut
<1>17. Released(e, f)
  BY <1>2, <1>5, <1>9, <1>10, <1>11 DEF Released, InMux, Absent
<1> QED
  BY <1>3, <1>5, <1>7, <1>11, <1>13, <1>16, <1>17

LEMMA JobCommandKeeps ==
  ASSUME NEW e, Sound(e), Booked(e), NEW j, Present(e, j), NEW name,
         NEW f, f \in JobCommand(name, e, j)
  PROVE  /\ Sound(f) /\ Booked(f) /\ Released(e, f) /\ f.nextId = e.nextId
         /\ f.inbox = e.inbox \/ \E ev \in MuxEvents : f.inbox = Append(e.inbox, ev)
<1>1. CASE f \in RemoveJob(e, j)
  BY <1>1, RemoveJobKeeps
<1>2. CASE Sound(f) /\ (Quiet(e, f) \/ Sends(e, f, j))
  <2>1. j \in Ids
    BY DEF Present
  <2>2. Keeps(e, f)
    BY <1>2, <2>1, QuietKeeps, SendsKeeps
  <2> QED
    BY <2>2 DEF Keeps
<1>3. \/ f \in RunJob(e, j) \/ f \in HoldJob(e, j) \/ f \in ResumeJob(e, j) \/ f \in RemoveJob(e, j)
      \/ f \in SetJobOverrides(e, j) \/ f \in RecycleJob(e, j)
  BY DEF JobCommand
<1>4. CASE f \in RunJob(e, j)
  BY <1>2, <1>4, RunJobKeeps
<1>5. CASE f \in HoldJob(e, j)
  BY <1>2, <1>5, HoldJobKeeps
<1>6. CASE f \in ResumeJob(e, j)
  BY <1>2, <1>6, ResumeJobKeeps
<1>7. CASE f \in SetJobOverrides(e, j)
  BY <1>2, <1>7, SetJobOverridesKeeps
<1>8. CASE f \in RecycleJob(e, j)
  BY <1>2, <1>8, RecycleJobKeeps
<1> QED
  BY <1>1, <1>3, <1>4, <1>5, <1>6, <1>7, <1>8

-----------------------------------------------------------------------------
(* A switch releases the jobs that wait for it *)

LEMMA OrderIsOnto ==
  ASSUME NEW M, M \subseteq Ids, NEW order, order \in NewestFirst(M)
  PROVE  LET n == Cardinality(M)
         IN  /\ n \in Nat /\ order \in [1..n -> M]
             /\ \A i, k \in 1..n : order[i] = order[k] => i = k
             /\ \A j \in M : \E i \in 1..n : order[i] = j
<1> DEFINE n == Cardinality(M)
<1>1. IsFiniteSet(M) /\ n \in Nat
  <2>1. IsFiniteSet(Ids)
    BY FS_Interval, BoundsAssumption DEF Ids
  <2> QED
    BY <2>1, FS_Subset, FS_CardinalityType
<1>2. order \in [1..n -> M] /\ \A i, k \in 1..n : i < k => order[i] > order[k]
  BY DEF NewestFirst
<1>3. \A j \in M : j \in Nat
  BY DEF Ids
<1> HIDE DEF n
<1>4. ASSUME NEW i \in 1..n, NEW k \in 1..n, order[i] = order[k] PROVE i = k
  <2>1. order[i] \in Nat /\ order[k] \in Nat
    BY <1>2, <1>3
  <2>2. ~(i < k) /\ ~(k < i)
    BY <1>2, <1>4, <2>1
  <2> QED
    BY <1>1, <2>2
<1>5. order \in Injection(1..n, M)
  BY <1>2, <1>4 DEF Injection, IsInjective
<1>6. Cardinality(1..n) = n
  <2>1. 1 \in Int /\ n \in Int
    BY <1>1
  <2>2. Cardinality(1..n) = IF 1 > n THEN 0 ELSE n - 1 + 1
    BY <2>1, FS_Interval
  <2> QED
    BY <1>1, <2>2
<1>7. Cardinality(1..n) = Cardinality(M)
  BY <1>6 DEF n
<1>8. order \in Surjection(1..n, M)
  BY <1>1, <1>5, <1>7, FS_Injection
<1>9. \A j \in M : \E i \in 1..n : order[i] = j
  BY <1>8 DEF Surjection
<1> QED
  BY <1>1, <1>2, <1>4, <1>9 DEF n

LEMMA AskedConcat ==
  ASSUME NEW q \in Seq(Request), NEW t \in Seq(Request), OneRequest(q), OneRequest(t),
         \A j : ~(Asked(q, j) /\ Asked(t, j))
  PROVE  /\ q \o t \in Seq(Request) /\ OneRequest(q \o t)
         /\ \A j : Asked(q \o t, j) <=> Asked(q, j) \/ Asked(t, j)
<1> DEFINE s == q \o t
<1>1. Len(q) \in Nat /\ Len(t) \in Nat
  BY LenProperties
<1>2. /\ s \in Seq(Request) /\ Len(s) = Len(q) + Len(t)
      /\ \A i \in 1..(Len(q) + Len(t)) : s[i] = IF i <= Len(q) THEN q[i] ELSE t[i - Len(q)]
  BY ConcatProperties
<1> HIDE DEF s
<1>3. \A i \in 1..Len(q) : i \in 1..Len(s) /\ s[i] = q[i]
  BY <1>1, <1>2
<1>4. ASSUME NEW i \in 1..Len(t) PROVE Len(q) + i \in 1..Len(s) /\ s[Len(q) + i] = t[i]
  <2> DEFINE k == Len(q) + i
  <2>1. k \in 1..(Len(q) + Len(t)) /\ ~(k <= Len(q)) /\ k - Len(q) = i
    BY <1>1
  <2> HIDE DEF k
  <2>2. k \in 1..Len(s) /\ s[k] = t[k - Len(q)]
    BY <1>2, <2>1
  <2> QED
    BY <2>1, <2>2 DEF k
<1>5. \A i \in 1..Len(s) : \/ i \in 1..Len(q) /\ s[i] = q[i]
                           \/ i - Len(q) \in 1..Len(t) /\ s[i] = t[i - Len(q)]
  BY <1>1, <1>2
<1>6. ASSUME NEW j PROVE Asked(s, j) <=> Asked(q, j) \/ Asked(t, j)
  <2>1. Asked(s, j) => Asked(q, j) \/ Asked(t, j)
    BY <1>5 DEF Asked
  <2>2. Asked(q, j) => Asked(s, j)
    BY <1>3 DEF Asked
  <2>3. Asked(t, j) => Asked(s, j)
    BY <1>4 DEF Asked
  <2> QED
    BY <2>1, <2>2, <2>3
<1>7. ASSUME NEW i \in 1..Len(s), NEW k \in 1..Len(s), s[i].job = s[k].job PROVE i = k
  <2>1. CASE i \in 1..Len(q) /\ s[i] = q[i]
    <3>1. Asked(q, s[i].job)
      BY <2>1 DEF Asked
    <3>2. CASE k \in 1..Len(q) /\ s[k] = q[k]
      BY <1>7, <2>1, <3>2 DEF OneRequest
    <3>3. CASE k - Len(q) \in 1..Len(t) /\ s[k] = t[k - Len(q)]
      <4>1. Asked(t, s[k].job)
        BY <3>3 DEF Asked
      <4> QED
        BY <1>7, <3>1, <4>1
    <3> QED
      BY <1>5, <3>2, <3>3
  <2>2. CASE i - Len(q) \in 1..Len(t) /\ s[i] = t[i - Len(q)]
    <3>1. Asked(t, s[i].job)
      BY <2>2 DEF Asked
    <3>2. CASE k \in 1..Len(q) /\ s[k] = q[k]
      <4>1. Asked(q, s[k].job)
        BY <3>2 DEF Asked
      <4> QED
        BY <1>7, <3>1, <4>1
    <3>3. CASE k - Len(q) \in 1..Len(t) /\ s[k] = t[k - Len(q)]
      <4>1. i - Len(q) = k - Len(q)
        BY <1>7, <2>2, <3>3 DEF OneRequest
      <4> QED
        BY <1>1, <1>2, <4>1
    <3> QED
      BY <1>5, <3>2, <3>3
  <2> QED
    BY <1>5, <2>1, <2>2
<1>8. OneRequest(s)
  BY <1>7 DEF OneRequest
<1> QED
  BY <1>2, <1>6, <1>8 DEF s

LEMMA ReleaseAllKeeps ==
  ASSUME NEW e, Sound(e), Booked(e), NEW waiting, waiting \subseteq Ids,
         \A j \in waiting : e.jobs[j].state = "Held",
         NEW f, f \in ReleaseAll(e, waiting)
  PROVE  Keeps(e, f)
<1>1. PICK o \in Outcomes(e, waiting) :
         \E order \in NewestFirst({j \in waiting : o[j].jobs[j].state = "Muxing"}) :
            f = Resumed(e, o, order)
  BY DEF ReleaseAll
<1> DEFINE M == {j \in waiting : o[j].jobs[j].state = "Muxing"}
<1>2. PICK order \in NewestFirst(M) : f = Resumed(e, o, order)
  BY <1>1
<1>3. DOMAIN o = waiting /\ \A j \in waiting : o[j] \in ResumeJob(e, j)
  BY DEF Outcomes
<1>4. e \in Engine /\ e.queue \in Seq(Request) /\ OneRequest(e.queue)
  BY DEF Sound, Engine, Booked, BookedBut
<1>5. ASSUME NEW j \in waiting
      PROVE  /\ Sound(o[j]) /\ (Quiet(e, o[j]) \/ Sends(e, o[j], j))
             /\ o[j].nextId = e.nextId
             /\ e.jobs[j].key \in Keys /\ JobBooked(e, j) /\ j \in Ids
             /\ ~Asked(e.queue, j) /\ e.muxing.job # j /\ ~HasEnd(e.inbox, j)
  <2>1. Present(e, j) /\ j \in Ids
    BY DEF Present, Absent
  <2>2. Sound(o[j]) /\ (Quiet(e, o[j]) \/ Sends(e, o[j], j))
    BY <1>3, <2>1, ResumeJobKeeps
  <2>3. o[j].nextId = e.nextId
    BY <2>2 DEF Quiet, Sends
  <2>4. e.jobs[j].key \in Keys /\ JobBooked(e, j)
    BY <2>1, KeyOfPresent DEF Booked, BookedBut
  <2>5. e.jobs[j].state \notin InMux \cup {Absent}
    BY DEF InMux, Absent
  <2> QED
    BY <2>1, <2>2, <2>3, <2>4, <2>5 DEF JobBooked
<1> DEFINE n == Cardinality(M)
           t == [i \in DOMAIN order |-> [job |-> order[i], key |-> e.jobs[order[i]].key]]
<1>6. /\ n \in Nat /\ order \in [1..n -> M]
      /\ \A i, k \in 1..n : order[i] = order[k] => i = k
      /\ \A j \in M : \E i \in 1..n : order[i] = j
  <2>1. M \subseteq Ids /\ order \in NewestFirst(M)
    BY <1>2
  <2> HIDE DEF M
  <2> QED
    BY <2>1, OrderIsOnto
<1>7. \A j \in M : j \in waiting /\ o[j].jobs[j].state = "Muxing"
  OBVIOUS
<1>8. \A j \in waiting : o[j].jobs[j].state = "Muxing" => j \in M
  OBVIOUS
<1>9. f = [e EXCEPT !.jobs = [j \in Ids |-> IF j \in waiting THEN o[j].jobs[j] ELSE e.jobs[j]],
                    !.probe = [j \in Ids |-> IF j \in waiting THEN o[j].probe[j] ELSE e.probe[j]],
                    !.tracked = {j \in Ids : j \in IF j \in waiting THEN o[j].tracked ELSE e.tracked},
                    !.forced = {j \in Ids : j \in IF j \in waiting THEN o[j].forced ELSE e.forced},
                    !.queue = e.queue \o t]
  BY <1>2, <1>3, <1>4 DEF Resumed, Engine
<1> HIDE DEF M, n
<1>10. /\ t \in Seq(Request) /\ Len(t) = n
       /\ \A i \in 1..n : t[i].job = order[i]
  <2>1. DOMAIN order = 1..n
    BY <1>6
  <2>2. \A i \in 1..n : [job |-> order[i], key |-> e.jobs[order[i]].key] \in Request
    <3> SUFFICES ASSUME NEW i \in 1..n
                 PROVE  [job |-> order[i], key |-> e.jobs[order[i]].key] \in Request
      OBVIOUS
    <3>1. order[i] \in waiting
      BY <1>6, <1>7
    <3> QED
      BY <1>5, <3>1 DEF Request
  <2>3. t \in [1..n -> Request] /\ \A i \in 1..n : t[i].job = order[i]
    BY <2>1, <2>2
  <2> HIDE DEF t
  <2>4. t \in Seq(Request)
    BY <1>6, <2>3, SeqDef
  <2>5. DOMAIN t = 1..Len(t) /\ Len(t) \in Nat
    BY <2>4, LenProperties
  <2>6. Len(t) = n
    BY <1>6, <2>3, <2>4, LenProperties
  <2> QED
    BY <2>3, <2>4, <2>6
<1> HIDE DEF t
<1>11. OneRequest(t) /\ \A j : Asked(t, j) <=> j \in M
  <2>1. OneRequest(t)
    BY <1>6, <1>10 DEF OneRequest
  <2>2. \A j : Asked(t, j) => j \in M
    BY <1>6, <1>10 DEF Asked
  <2>3. \A j \in M : Asked(t, j)
    BY <1>6, <1>10 DEF Asked
  <2> QED
    BY <2>1, <2>2, <2>3
<1>12. \A j : ~(Asked(e.queue, j) /\ Asked(t, j))
  BY <1>5, <1>7, <1>11
<1> DEFINE q == e.queue \o t
<1>13. /\ q \in Seq(Request) /\ OneRequest(q)
       /\ \A j : Asked(q, j) <=> Asked(e.queue, j) \/ j \in M
  BY <1>4, <1>10, <1>11, <1>12, AskedConcat
<1> HIDE DEF q
<1> DEFINE J == [j \in Ids |-> IF j \in waiting THEN o[j].jobs[j] ELSE e.jobs[j]]
           P == [j \in Ids |-> IF j \in waiting THEN o[j].probe[j] ELSE e.probe[j]]
           T == {j \in Ids : j \in IF j \in waiting THEN o[j].tracked ELSE e.tracked}
           F == {j \in Ids : j \in IF j \in waiting THEN o[j].forced ELSE e.forced}
<1>14. J \in [Ids -> JobRecord] /\ P \in [Ids -> ProbeRecord] /\ T \in SUBSET Ids /\ F \in SUBSET Ids
  BY <1>4, <1>5 DEF Sound, Engine
<1>15. f = [e EXCEPT !.jobs = J, !.probe = P, !.tracked = T, !.forced = F, !.queue = q]
  BY <1>9 DEF q
<1>16. \A j \in Ids : /\ J[j] = IF j \in waiting THEN o[j].jobs[j] ELSE e.jobs[j]
                      /\ P[j] = IF j \in waiting THEN o[j].probe[j] ELSE e.probe[j]
                      /\ j \in F <=> IF j \in waiting THEN j \in o[j].forced ELSE j \in e.forced
  OBVIOUS
<1> HIDE DEF J, P, T, F
<1>17. /\ f \in Engine /\ f.jobs = J /\ f.probe = P /\ f.forced = F /\ f.queue = q
       /\ f.muxing = e.muxing /\ f.inbox = e.inbox /\ f.nextId = e.nextId
  BY <1>4, <1>13, <1>14, <1>15 DEF Engine
<1>18. ASSUME NEW j \in Ids PROVE JobSound(f, j)
  <2>1. CASE j \in waiting
    <3>1. JobSound(o[j], j) /\ o[j].nextId = e.nextId
      BY <1>5, <2>1 DEF Sound
    <3>2. /\ f.jobs[j] = o[j].jobs[j] /\ f.probe[j] = o[j].probe[j]
          /\ j \in f.forced <=> j \in o[j].forced
      BY <1>16, <1>17, <2>1
    <3> QED
      BY <1>17, <3>1, <3>2 DEF JobSound
  <2>2. CASE j \notin waiting
    <3>1. JobSound(e, j)
      BY DEF Sound
    <3>2. f.jobs[j] = e.jobs[j] /\ f.probe[j] = e.probe[j] /\ (j \in f.forced <=> j \in e.forced)
      BY <1>16, <1>17, <2>2
    <3> QED
      BY <1>17, <3>1, <3>2 DEF JobSound
  <2> QED
    BY <2>1, <2>2
<1>19. Sound(f)
  BY <1>17, <1>18 DEF Sound
<1>20. ASSUME NEW j \in Ids PROVE JobBooked(f, j)
  <2>1. CASE j \notin waiting
    <3>1. JobBooked(e, j) /\ j \notin M
      BY <1>7, <2>1 DEF Booked, BookedBut
    <3>2. f.jobs[j] = e.jobs[j] /\ (Asked(f.queue, j) <=> Asked(e.queue, j))
      BY <1>13, <1>16, <1>17, <2>1, <3>1
    <3> QED
      BY <1>17, <3>1, <3>2 DEF JobBooked
  <2>2. CASE j \in waiting
    <3>1. /\ JobBooked(e, j) /\ ~Asked(e.queue, j) /\ e.muxing.job # j /\ ~HasEnd(e.inbox, j)
          /\ f.jobs[j] = o[j].jobs[j]
          /\ Asked(f.queue, j) <=> o[j].jobs[j].state = "Muxing"
      BY <1>5, <1>7, <1>8, <1>13, <1>16, <1>17, <2>2
    <3>2. CASE Quiet(e, o[j])
      <4>1. SameClass(e, o[j], j)
        BY <1>5, <2>2, <3>2 DEF Quiet
      <4>2. o[j].jobs[j].state \notin InMux \cup {Absent}
        BY <2>2, <4>1 DEF SameClass, InMux, Absent
      <4> QED
        BY <1>17, <3>1, <4>2 DEF JobBooked, InMux
    <3>3. CASE Sends(e, o[j], j)
      <4>1. o[j].jobs[j].state = "Muxing"
        BY <3>3 DEF Sends
      <4> QED
        BY <1>17, <3>1, <4>1 DEF JobBooked, InMux, Absent
    <3> QED
      BY <1>5, <2>2, <3>2, <3>3
  <2> QED
    BY <2>1, <2>2
<1>21. Booked(f)
  BY <1>13, <1>17, <1>20 DEF Booked, BookedBut
<1>22. Released(e, f)
  <2> SUFFICES ASSUME NEW j \in Ids, f.jobs[j].state \in InMux, e.jobs[j].state \notin InMux
               PROVE  f.jobs[j] \notin Holding
    BY DEF Released
  <2>1. j \in waiting /\ f.jobs[j] = o[j].jobs[j]
    BY <1>16, <1>17
  <2>2. Sends(e, o[j], j)
    BY <1>5, <2>1 DEF Quiet, SameClass
  <2> QED
    BY <2>1, <2>2 DEF Sends
<1> QED
  BY <1>17, <1>19, <1>21, <1>22 DEF Keeps

-----------------------------------------------------------------------------
(* The invariant *)

\* The events on the way that may create a job.
Creates(s) == {i \in DOMAIN s : s[i].type \notin {"probe", "mux"}}

WorldSound ==
    /\ known \subseteq Keys /\ hints \subseteq [job : Ids, key : Keys]
    /\ ame \in [Keys -> {"idle", "sidecars", "writing"}]
    /\ news \in [{"log", "cep"} -> Seq(Keys \X Texts)]
    /\ exports \in 0..MaxExports /\ commands \in 0..MaxCommands /\ touches \in 0..MaxTouches
    /\ muxed \in [Ids -> 0..MaxExports]

\* There is an id for every job that an event may create.
IdsLeft == nextId + Cardinality(Creates(inbox)) <= MaxJobs + 1

IInv == Sound(E) /\ Booked(E) /\ IdsLeft /\ WorldSound

LEMMA CreatesAppend ==
  ASSUME NEW s \in Seq(Event), NEW ev \in Event
  PROVE  /\ Cardinality(Creates(s)) \in Nat
         /\ Cardinality(Creates(Append(s, ev))) =
              Cardinality(Creates(s)) + IF Creating(ev) THEN 1 ELSE 0
<1> DEFINE t == Append(s, ev)
           n == Len(s) + 1
<1>1. Len(s) \in Nat /\ DOMAIN s = 1..Len(s)
  BY LenProperties
<1>2. /\ t \in Seq(Event) /\ Len(t) = n
      /\ \A i \in 1..Len(s) : t[i] = s[i]
      /\ t[n] = ev
  BY AppendProperties
<1> HIDE DEF t
<1>3. DOMAIN t = 1..n
  BY <1>2, LenProperties
<1>4. IsFiniteSet(Creates(s)) /\ Cardinality(Creates(s)) \in Nat
  <2>1. IsFiniteSet(1..Len(s))
    BY <1>1, FS_Interval
  <2>2. Creates(s) \in SUBSET (1..Len(s))
    BY <1>1 DEF Creates
  <2> QED
    BY <2>1, <2>2, FS_Subset, FS_CardinalityType
<1>5. n \notin Creates(s)
  BY <1>1 DEF Creates
<1>6. CASE Creating(ev)
  <2>1. Creates(t) = Creates(s) \cup {n}
    BY <1>1, <1>2, <1>3, <1>6 DEF Creates, Creating
  <2> QED
    BY <1>4, <1>5, <1>6, <2>1, FS_AddElement DEF t
<1>7. CASE ~Creating(ev)
  <2>1. Creates(t) = Creates(s)
    BY <1>1, <1>2, <1>3, <1>7 DEF Creates, Creating
  <2> QED
    BY <1>4, <1>7, <2>1 DEF t
<1> QED
  BY <1>4, <1>6, <1>7 DEF t

LEMMA CreatesTail ==
  ASSUME NEW s \in Seq(Event), s # <<>>
  PROVE  /\ Cardinality(Creates(Tail(s))) \in Nat
         /\ Cardinality(Creates(s)) =
              Cardinality(Creates(Tail(s))) + IF Creating(Head(s)) THEN 1 ELSE 0
<1> DEFINE t == Tail(s)
           A == Creates(t)
           B == Creates(s) \ {1}
           f == [i \in A |-> i + 1]
<1>1. Len(s) \in Nat \ {0} /\ DOMAIN s = 1..Len(s) /\ Head(s) = s[1]
  BY LenProperties, EmptySeq
<1>2. /\ t \in Seq(Event) /\ Len(t) = Len(s) - 1
      /\ \A i \in 1..Len(t) : t[i] = s[i + 1]
  BY HeadTailProperties
<1> HIDE DEF t
<1>3. DOMAIN t = 1..Len(t)
  BY <1>2, LenProperties
<1>4. A \in SUBSET Nat /\ \A i \in Nat : i \in A <=> i + 1 \in B
  BY <1>1, <1>2, <1>3 DEF Creates
<1>5. \A k \in B : k \in Nat /\ k - 1 \in Nat
  BY <1>1 DEF Creates
<1>6. IsFiniteSet(Creates(s)) /\ IsFiniteSet(A) /\ Cardinality(A) \in Nat
  <2>1. IsFiniteSet(1..Len(s)) /\ IsFiniteSet(1..Len(t))
    BY <1>1, <1>2, FS_Interval
  <2>2. Creates(s) \in SUBSET (1..Len(s)) /\ A \in SUBSET (1..Len(t))
    BY <1>1, <1>3 DEF Creates
  <2> QED
    BY <2>1, <2>2, FS_Subset, FS_CardinalityType
<1>7. Cardinality(A) = Cardinality(B)
  <2> HIDE DEF A, B
  <2>1. f \in [A -> B]
    BY <1>4
  <2>2. \A i, k \in A : f[i] = f[k] => i = k
    BY <1>4
  <2>3. \A k \in B : \E i \in A : f[i] = k
    <3> SUFFICES ASSUME NEW k \in B PROVE \E i \in A : f[i] = k
      OBVIOUS
    <3>1. k - 1 \in Nat /\ (k - 1) + 1 = k
      BY <1>5
    <3>2. k - 1 \in A
      BY <1>4, <3>1
    <3> QED
      BY <3>1, <3>2
  <2> HIDE DEF f
  <2>4. f \in Bijection(A, B)
    BY <2>1, <2>2, <2>3 DEF Bijection, Injection, Surjection, IsInjective
  <2>5. ExistsBijection(A, B)
    BY <2>4 DEF ExistsBijection
  <2> QED
    BY <1>6, <2>5, FS_Bijection
<1>8. 1 \in Creates(s) <=> Creating(Head(s))
  BY <1>1 DEF Creates, Creating
<1>9. Cardinality(B) = IF 1 \in Creates(s) THEN Cardinality(Creates(s)) - 1 ELSE Cardinality(Creates(s))
  BY <1>6, FS_RemoveElement
<1>10. Cardinality(Creates(s)) \in Nat
  BY <1>6, FS_CardinalityType
<1> HIDE DEF A, B
<1>11. Cardinality(Creates(s)) = Cardinality(A) + IF Creating(Head(s)) THEN 1 ELSE 0
  BY <1>6, <1>7, <1>8, <1>9, <1>10
<1> QED
  BY <1>6, <1>11 DEF A, t


-----------------------------------------------------------------------------
(* Steps of the handlers and commands *)

LEMMA CommitIsE ==
  ASSUME NEW e \in Engine, Commit(e) PROVE E' = e
BY DEF Commit, E, Engine

\* What the engine's steps leave to prove once Sound and Booked are kept.
LEMMA WorldKept ==
  ASSUME IInv, NEW e, Commit(e), commands' \in 0..MaxCommands, touches' \in 0..MaxTouches
  PROVE  WorldSound'
BY DEF IInv, WorldSound, Commit

LEMMA ApplyStep ==
  ASSUME IInv, Apply PROVE IInv' /\ Released(E, E')
<1> USE DEF IInv
<1>1. PICK f \in Handle([E EXCEPT !.inbox = Tail(@)], Head(inbox)) : Commit(f)
  BY DEF Apply
<1>2. inbox # <<>> /\ commands' = commands /\ touches' = touches
  BY DEF Apply
<1>3. /\ E.inbox = inbox /\ E.nextId = nextId /\ E \in Engine
      /\ inbox \in Seq(Event) /\ nextId \in 1..(MaxJobs + 1) /\ MaxJobs \in Nat
  BY BoundsAssumption DEF E, Sound, Engine
<1>4. /\ Cardinality(Creates(Tail(inbox))) \in Nat
      /\ Cardinality(Creates(inbox)) =
           Cardinality(Creates(Tail(inbox))) + IF Creating(Head(inbox)) THEN 1 ELSE 0
  BY <1>2, <1>3, CreatesTail
<1>5. Creating(Head(inbox)) => nextId \in Ids
  BY <1>3, <1>4 DEF IdsLeft, Ids
<1>6. /\ Sound(f) /\ Booked(f) /\ Released(E, f) /\ f.inbox = Tail(inbox)
      /\ \/ f.nextId = nextId
         \/ Creating(Head(inbox)) /\ f.nextId = nextId + 1
  <2>1. E.inbox # <<>> /\ (Creating(Head(E.inbox)) => E.nextId \in Ids)
    BY <1>2, <1>3, <1>5
  <2>2. f \in Handle([E EXCEPT !.inbox = Tail(@)], Head(E.inbox))
    BY <1>1, <1>3
  <2> HIDE DEF IInv
  <2>3. Sound(E) /\ Booked(E)
    BY DEF IInv
  <2>4. /\ Sound(f) /\ Booked(f) /\ Released(E, f) /\ f.inbox = Tail(E.inbox)
        /\ \/ f.nextId = E.nextId
           \/ Creating(Head(E.inbox)) /\ f.nextId = E.nextId + 1
    BY <2>1, <2>2, <2>3, HandleKeeps
  <2> QED
    BY <1>3, <2>4
<1>7. E' = f
  BY <1>1, <1>6, CommitIsE DEF Sound
<1>8. Sound(E)' /\ Booked(E)' /\ Released(E, E')
  BY <1>6, <1>7
<1>9. inbox' = f.inbox /\ nextId' = f.nextId
  BY <1>1 DEF Commit
<1>10. IdsLeft'
  BY <1>3, <1>4, <1>6, <1>9 DEF IdsLeft
<1>11. WorldSound'
  BY <1>1, <1>2, WorldKept DEF WorldSound
<1> QED
  BY <1>8, <1>10, <1>11

LEMMA OnJobStep ==
  ASSUME IInv, NEW name, NEW j \in Ids, OnJob(name, j) PROVE IInv' /\ Released(E, E')
<1> USE DEF IInv
<1>1. PICK f \in JobCommand(name, E, j) : Commit(f)
  BY DEF OnJob
<1>2. jobs[j].state # Absent /\ commands' = commands + 1 /\ commands < MaxCommands /\ touches' = touches
  BY DEF OnJob, Commanded
<1>3. /\ E.inbox = inbox /\ E.nextId = nextId /\ E.jobs = jobs
      /\ inbox \in Seq(Event) /\ nextId \in 1..(MaxJobs + 1) /\ MaxJobs \in Nat
  BY BoundsAssumption DEF E, Sound, Engine
<1>4. Present(E, j)
  BY <1>2, <1>3 DEF Present
<1>5. /\ Sound(f) /\ Booked(f) /\ Released(E, f) /\ f.nextId = E.nextId
      /\ f.inbox = E.inbox \/ \E ev \in MuxEvents : f.inbox = Append(E.inbox, ev)
  BY <1>4, JobCommandKeeps
<1>6. E' = f
  BY <1>1, <1>5, CommitIsE DEF Sound
<1>7. Sound(E)' /\ Booked(E)' /\ Released(E, E')
  BY <1>5, <1>6
<1>8. inbox' = f.inbox /\ nextId' = f.nextId
  BY <1>1 DEF Commit
<1>9. Cardinality(Creates(inbox')) = Cardinality(Creates(inbox))
  <2>1. CASE f.inbox = E.inbox
    BY <1>3, <1>8, <2>1
  <2>2. ASSUME NEW ev \in MuxEvents, f.inbox = Append(E.inbox, ev)
        PROVE  Cardinality(Creates(inbox')) = Cardinality(Creates(inbox))
    <3>1. ev \in Event /\ ~Creating(ev)
      BY DEF MuxEvents, Event, Creating
    <3>2. inbox' = Append(inbox, ev)
      BY <1>3, <1>8, <2>2
    <3>3. Cardinality(Creates(inbox)) \in Nat
      BY <1>3, <3>1, CreatesAppend
    <3> QED
      BY <1>3, <3>1, <3>2, <3>3, CreatesAppend
  <2> QED
    BY <1>5, <2>1, <2>2
<1>10. IdsLeft'
  BY <1>3, <1>5, <1>8, <1>9 DEF IdsLeft
<1>11. WorldSound'
  <2>1. commands' \in 0..MaxCommands /\ touches' \in 0..MaxTouches
    BY <1>2, BoundsAssumption DEF WorldSound
  <2> QED
    BY <1>1, <2>1, WorldKept
<1> QED
  BY <1>7, <1>10, <1>11

LEMMA AddManualFileStep ==
  ASSUME IInv, NEW k \in Keys, AddManualFile(k) PROVE IInv' /\ Released(E, E')
<1> USE DEF IInv
<1> DEFINE made == Create(E, k, "manual")
           f == IF FindActiveByKey(E, k) # 0 THEN E ELSE Schedule(made, nextId)
<1>1. Commit(f) /\ Room /\ commands' = commands + 1 /\ commands < MaxCommands /\ touches' = touches
  BY DEF AddManualFile, Commanded
<1>2. /\ E.inbox = inbox /\ E.nextId = nextId
      /\ inbox \in Seq(Event) /\ nextId \in 1..(MaxJobs + 1) /\ MaxJobs \in Nat
  BY BoundsAssumption DEF E, Sound, Engine
<1>3. Cardinality(Creates(inbox)) \in Nat
  <2>1. [type |-> "sidecar", key |-> k] \in Event
    BY DEF Event
  <2> QED
    BY <1>2, <2>1, CreatesAppend
<1>4. nextId + Cardinality(Creates(inbox)) <= MaxJobs
  BY <1>1 DEF Room, Creates
<1>5. E.nextId \in Ids
  BY <1>2, <1>3, <1>4 DEF Ids
<1>6. QuietOrMakes(E, f)
  <2>1. CASE FindActiveByKey(E, k) # 0
    BY <2>1, Itself
  <2>2. CASE FindActiveByKey(E, k) = 0
    <3>1. Sound(made) /\ Makes(E, made) /\ Present(made, E.nextId)
      BY <1>5, CreateMakes DEF Sources
    <3>2. f = Schedule(made, E.nextId)
      BY <1>2, <2>2
    <3> HIDE DEF made, f
    <3>3. Sound(f) /\ Quiet(made, f)
      BY <3>1, <3>2, ScheduleKeeps
    <3> QED
      BY <3>1, <3>3, MakesQuiet DEF QuietOrMakes
  <2> QED
    BY <2>1, <2>2
<1> HIDE DEF f
<1>7. /\ Sound(f) /\ Booked(f) /\ Released(E, f) /\ f.inbox = E.inbox
      /\ f.nextId = E.nextId \/ f.nextId = E.nextId + 1
  BY <1>6, MakesKeeps
<1>8. E' = f
  BY <1>1, <1>7, CommitIsE DEF Sound
<1>9. Sound(E)' /\ Booked(E)' /\ Released(E, E')
  BY <1>7, <1>8
<1>10. inbox' = inbox /\ (nextId' = nextId \/ nextId' = nextId + 1)
  BY <1>1, <1>2, <1>7 DEF Commit
<1>11. IdsLeft'
  BY <1>2, <1>3, <1>4, <1>10 DEF IdsLeft
<1>12. WorldSound'
  <2>1. commands' \in 0..MaxCommands /\ touches' \in 0..MaxTouches
    BY <1>1, BoundsAssumption DEF WorldSound
  <2> QED
    BY <1>1, <2>1, WorldKept
<1> QED
  BY <1>9, <1>11, <1>12

\* A switch is turned off, or on.
LEMMA SwitchStep ==
  ASSUME IInv, NEW f, Keeps(E, f), Commit(f), Commanded PROVE IInv' /\ Released(E, E')
<1> USE DEF IInv
<1>1. /\ Sound(f) /\ Booked(f) /\ Released(E, f) /\ f.nextId = E.nextId /\ f.inbox = E.inbox
  BY DEF Keeps
<1>2. E' = f
  BY <1>1, CommitIsE DEF Sound
<1>3. Sound(E)' /\ Booked(E)' /\ Released(E, E')
  BY <1>1, <1>2
<1>4. inbox' = inbox /\ nextId' = nextId
  BY <1>1 DEF Commit, E
<1>5. commands' \in 0..MaxCommands /\ touches' \in 0..MaxTouches
  BY BoundsAssumption DEF Commanded, WorldSound
<1>6. WorldSound'
  BY <1>5, WorldKept
<1> QED
  BY <1>3, <1>4, <1>6 DEF IdsLeft

\* The switches are no business of the mux.
LEMMA SwitchKeeps ==
  ASSUME NEW e, Sound(e), Booked(e), NEW f \in Engine, f.jobs = e.jobs, f.nextId = e.nextId,
         f.forced = e.forced, f.probe = e.probe, f.queue = e.queue, f.muxing = e.muxing,
         f.inbox = e.inbox
  PROVE  Keeps(e, f)
<1>1. Sound(f)
  BY DEF Sound, JobSound
<1>2. Quiet(e, f)
  BY DEF Quiet, SameClass
<1> QED
  BY <1>1, <1>2, QuietKeeps

LEMMA KeepsTwice ==
  ASSUME NEW e, NEW f, NEW g, Keeps(e, f), Keeps(f, g), f.jobs = e.jobs PROVE Keeps(e, g)
BY DEF Keeps, Released

LEMMA HeldForFacts ==
  ASSUME NEW why PROVE HeldFor(why) \subseteq Ids /\ \A j \in HeldFor(why) : jobs[j].state = "Held"
BY DEF HeldFor

LEMMA SetAutoProcessStep ==
  ASSUME IInv, SetAutoProcess PROVE IInv' /\ Released(E, E')
<1>1. PICK f : /\ \/ f = [E EXCEPT !.auto = FALSE]
                  \/ f \in ReleaseAll([E EXCEPT !.auto = TRUE], HeldFor("waiting"))
               /\ Commit(f) /\ Commanded
  BY DEF SetAutoProcess
<1>2. Sound(E) /\ Booked(E) /\ E \in Engine /\ E.jobs = jobs
  BY DEF IInv, Sound, E
<1>3. Keeps(E, f)
  <2>1. CASE f = [E EXCEPT !.auto = FALSE]
    <3>1. /\ f \in Engine /\ f.jobs = E.jobs /\ f.nextId = E.nextId
          /\ f.forced = E.forced /\ f.probe = E.probe /\ f.queue = E.queue
          /\ f.muxing = E.muxing /\ f.inbox = E.inbox
      BY <1>2, <2>1 DEF Engine
    <3> QED
      BY <1>2, <3>1, SwitchKeeps
  <2>2. CASE f \in ReleaseAll([E EXCEPT !.auto = TRUE], HeldFor("waiting"))
    <3> DEFINE g == [E EXCEPT !.auto = TRUE]
    <3>1. /\ g \in Engine /\ g.jobs = E.jobs /\ g.nextId = E.nextId
          /\ g.forced = E.forced /\ g.probe = E.probe /\ g.queue = E.queue
          /\ g.muxing = E.muxing /\ g.inbox = E.inbox
      BY <1>2 DEF Engine
    <3> HIDE DEF g
    <3>2. Keeps(E, g)
      BY <1>2, <3>1, SwitchKeeps
    <3>3. Keeps(g, f)
      <4>1. f \in ReleaseAll(g, HeldFor("waiting"))
        BY <2>2 DEF g
      <4>2. /\ HeldFor("waiting") \subseteq Ids
            /\ \A j \in HeldFor("waiting") : g.jobs[j].state = "Held"
        BY <1>2, <3>1, HeldForFacts
      <4>3. Sound(g) /\ Booked(g)
        BY <3>2 DEF Keeps
      <4> QED
        BY <4>1, <4>2, <4>3, ReleaseAllKeeps
    <3> QED
      BY <3>1, <3>2, <3>3, KeepsTwice
  <2> QED
    BY <1>1, <2>1, <2>2
<1> QED
  BY <1>1, <1>3, SwitchStep

LEMMA ReprobeMkvmergeStep ==
  ASSUME IInv, ReprobeMkvmerge PROVE IInv' /\ Released(E, E')
<1>1. PICK f : /\ \/ f = [E EXCEPT !.tool = FALSE]
                  \/ f \in ReleaseAll([E EXCEPT !.tool = TRUE], HeldFor("mkvmerge"))
               /\ Commit(f) /\ Commanded
  BY DEF ReprobeMkvmerge
<1>2. Sound(E) /\ Booked(E) /\ E \in Engine /\ E.jobs = jobs
  BY DEF IInv, Sound, E
<1>3. Keeps(E, f)
  <2>1. CASE f = [E EXCEPT !.tool = FALSE]
    <3>1. /\ f \in Engine /\ f.jobs = E.jobs /\ f.nextId = E.nextId
          /\ f.forced = E.forced /\ f.probe = E.probe /\ f.queue = E.queue
          /\ f.muxing = E.muxing /\ f.inbox = E.inbox
      BY <1>2, <2>1 DEF Engine
    <3> QED
      BY <1>2, <3>1, SwitchKeeps
  <2>2. CASE f \in ReleaseAll([E EXCEPT !.tool = TRUE], HeldFor("mkvmerge"))
    <3> DEFINE g == [E EXCEPT !.tool = TRUE]
    <3>1. /\ g \in Engine /\ g.jobs = E.jobs /\ g.nextId = E.nextId
          /\ g.forced = E.forced /\ g.probe = E.probe /\ g.queue = E.queue
          /\ g.muxing = E.muxing /\ g.inbox = E.inbox
      BY <1>2 DEF Engine
    <3> HIDE DEF g
    <3>2. Keeps(E, g)
      BY <1>2, <3>1, SwitchKeeps
    <3>3. Keeps(g, f)
      <4>1. f \in ReleaseAll(g, HeldFor("mkvmerge"))
        BY <2>2 DEF g
      <4>2. /\ HeldFor("mkvmerge") \subseteq Ids
            /\ \A j \in HeldFor("mkvmerge") : g.jobs[j].state = "Held"
        BY <1>2, <3>1, HeldForFacts
      <4>3. Sound(g) /\ Booked(g)
        BY <3>2 DEF Keeps
      <4> QED
        BY <4>1, <4>2, <4>3, ReleaseAllKeeps
    <3> QED
      BY <3>1, <3>2, <3>3, KeepsTwice
  <2> QED
    BY <1>1, <2>1, <2>2
<1> QED
  BY <1>1, <1>3, SwitchStep

-----------------------------------------------------------------------------
(* Steps of the workers and of the world *)

\* An event is posted that is not the end of a mux; it may create a job only
\* when there is an id for it.
Posted(ev) == /\ ev \in Event /\ \A j \in Ids : ~IsEnd(ev, j)
              /\ Creating(ev) => Room
              /\ inbox' = Append(inbox, ev)

LEMMA Typed ==
  ASSUME IInv
  PROVE  /\ jobs \in [Ids -> JobRecord] /\ nextId \in 1..(MaxJobs + 1)
         /\ tracked \in SUBSET Ids /\ forced \in SUBSET Ids /\ auto \in BOOLEAN /\ tool \in BOOLEAN
         /\ probe \in [Ids -> ProbeRecord] /\ queue \in Seq(Request) /\ muxing \in MuxRecord
         /\ inbox \in Seq(Event) /\ file \in [Keys -> FileRecord] /\ change \in [Keys -> Changes]
         /\ \A j \in Ids : probe[j].st # "none" => probe[j].key \in Keys
         /\ muxing.job # 0 => muxing.key \in Keys
BY DEF IInv, Sound, E, Engine, JobSound

\* Nothing changes for the table and the mux.
LEMMA AroundStep ==
  ASSUME IInv, UNCHANGED <<jobs, nextId, tracked, forced, auto, tool, queue, muxing>>,
         probe' \in [Ids -> ProbeRecord],
         \A j \in Ids : probe'[j].st # "none" => probe'[j].key \in Keys,
         file' \in [Keys -> FileRecord], change' \in [Keys -> Changes],
         inbox' = inbox \/ \E ev : Posted(ev)
  PROVE  Sound(E)' /\ Booked(E)' /\ IdsLeft' /\ Released(E, E')
<1>1. /\ jobs \in [Ids -> JobRecord] /\ nextId \in 1..(MaxJobs + 1)
      /\ tracked \in SUBSET Ids /\ forced \in SUBSET Ids /\ auto \in BOOLEAN /\ tool \in BOOLEAN
      /\ queue \in Seq(Request) /\ muxing \in MuxRecord /\ inbox \in Seq(Event)
  BY Typed
<1>2. /\ OneRequest(queue) /\ OneEnd(inbox) /\ \A j \in Ids : JobBooked(E, j) /\ JobSound(E, j)
  BY DEF IInv, Booked, BookedBut, E, Sound
<1>3. /\ inbox' \in Seq(Event) /\ OneEnd(inbox')
      /\ \A j \in Ids : HasEnd(inbox', j) <=> HasEnd(inbox, j)
      /\ IdsLeft'
  <2>1. CASE inbox' = inbox
    BY <1>1, <1>2, <2>1 DEF IInv, IdsLeft
  <2>2. ASSUME NEW ev, Posted(ev)
        PROVE  /\ inbox' \in Seq(Event) /\ OneEnd(inbox')
               /\ \A j \in Ids : HasEnd(inbox', j) <=> HasEnd(inbox, j)
               /\ IdsLeft'
    <3>1. /\ ev \in Event /\ (\A j \in Ids : ~IsEnd(ev, j)) /\ inbox' = Append(inbox, ev)
          /\ Creating(ev) => nextId + Cardinality(Creates(inbox)) <= MaxJobs
      BY <2>2 DEF Posted, Room, Creates
    <3>2. /\ inbox' \in Seq(Event) /\ OneEnd(inbox')
          /\ \A j \in Ids : HasEnd(inbox', j) <=> HasEnd(inbox, j)
      BY <1>1, <1>2, <3>1, EndsAppend
    <3>3. /\ Cardinality(Creates(inbox)) \in Nat
          /\ Cardinality(Creates(inbox')) =
               Cardinality(Creates(inbox)) + IF Creating(ev) THEN 1 ELSE 0
      BY <1>1, <3>1, CreatesAppend
    <3>4. nextId + Cardinality(Creates(inbox)) <= MaxJobs + 1 /\ MaxJobs \in Nat /\ nextId \in Nat
      BY <1>1, BoundsAssumption DEF IInv, IdsLeft
    <3>5. IdsLeft'
      BY <3>1, <3>3, <3>4 DEF IdsLeft
    <3> QED
      BY <3>2, <3>5
  <2> QED
    BY <2>1, <2>2
<1>4. /\ E'.jobs = jobs /\ E'.nextId = nextId /\ E'.forced = forced /\ E'.probe = probe'
      /\ E'.queue = queue /\ E'.muxing = muxing /\ E'.inbox = inbox'
      /\ E.jobs = jobs /\ E.nextId = nextId /\ E.forced = forced
      /\ E.queue = queue /\ E.muxing = muxing /\ E.inbox = inbox
  BY DEF E
<1>5. E' \in Engine
  BY <1>1, <1>3 DEF E, Engine
<1>6. \A j \in Ids : JobSound(E', j) /\ JobBooked(E', j)
  BY <1>2, <1>3, <1>4 DEF JobSound, JobBooked
<1>7. Sound(E')
  BY <1>4, <1>5, <1>6, Typed DEF Sound
<1>8. Booked(E')
  BY <1>2, <1>3, <1>4, <1>6 DEF Booked, BookedBut
<1>9. Released(E, E')
  BY <1>4 DEF Released
<1> QED
  BY <1>3, <1>7, <1>8, <1>9

LEMMA ProbeWritingStep ==
  ASSUME IInv, NEW j \in Ids, ProbeWriting(j) PROVE IInv' /\ Released(E, E')
<1> DEFINE ev == [type |-> "probe", job |-> j, out |-> "Writing"]
<1>1. ev \in Event /\ ev.type = "probe"
  BY DEF Event
<1>2. Posted(ev)
  BY <1>1 DEF ProbeWriting, Post, Posted, IsEnd, Creating
<1> HIDE DEF ev
<1>3. Sound(E)' /\ Booked(E)' /\ IdsLeft' /\ Released(E, E')
  BY <1>2, Typed, AroundStep DEF ProbeWriting, ProbeFrame, engineVars, diskVars
<1>4. WorldSound'
  BY DEF IInv, WorldSound, ProbeWriting, ProbeFrame, diskVars, worldVars
<1> QED
  BY <1>3, <1>4 DEF IInv

LEMMA StampTyped ==
  ASSUME IInv, NEW k \in Keys PROVE Stamp(E, k) \in Stamps
BY Typed DEF Stamp, E, Stamps, FileRecord

LEMMA ProbeVerdictStep ==
  ASSUME IInv, NEW j \in Ids, ProbeVerdict(j) PROVE IInv' /\ Released(E, E')
<1>1. \E ev : Posted(ev)
  <2>1. probe[j].key \in Keys
    BY Typed DEF ProbeVerdict
  <2>2. CASE inbox' = Append(inbox, [type |-> "probe", job |-> j, out |-> "Ready",
                                     stamp |-> Stamp(E, probe[j].key)])
    <3> DEFINE ev == [type |-> "probe", job |-> j, out |-> "Ready", stamp |-> Stamp(E, probe[j].key)]
    <3>1. ev \in Event /\ ev.type = "probe"
      BY <2>1, StampTyped DEF Event
    <3>2. inbox' = Append(inbox, ev)
      BY <2>2
    <3> HIDE DEF ev
    <3>3. Posted(ev)
      BY <3>1, <3>2 DEF Posted, IsEnd, Creating
    <3> QED
      BY <3>3
  <2>3. CASE inbox' = Append(inbox, [type |-> "probe", job |-> j, out |-> "Failed"])
    <3> DEFINE ev == [type |-> "probe", job |-> j, out |-> "Failed"]
    <3>1. ev \in Event /\ ev.type = "probe"
      BY DEF Event
    <3>2. inbox' = Append(inbox, ev)
      BY <2>3
    <3> HIDE DEF ev
    <3>3. Posted(ev)
      BY <3>1, <3>2 DEF Posted, IsEnd, Creating
    <3> QED
      BY <3>3
  <2> QED
    BY <2>2, <2>3 DEF ProbeVerdict, Post
<1>2. PICK st \in {"judged", "judgedFailing"} : probe' = [probe EXCEPT ![j].st = st]
  BY DEF ProbeVerdict
<1>3. /\ probe' \in [Ids -> ProbeRecord]
      /\ \A i \in Ids : probe'[i].st # "none" => probe'[i].key \in Keys
  <2> DEFINE p == [probe[j] EXCEPT !.st = st]
  <2>1. probe' = [probe EXCEPT ![j] = p]
    BY <1>2, Typed
  <2>2. probe[j] \in ProbeRecord /\ probe[j].st # "none"
    BY Typed DEF ProbeVerdict
  <2>3. p \in ProbeRecord /\ p.key \in Keys
    BY <2>2, Typed DEF ProbeRecord
  <2> HIDE DEF p
  <2>4. \A i \in Ids : probe'[i] = IF i = j THEN p ELSE probe[i]
    BY <2>1, Typed
  <2> QED
    BY <2>1, <2>3, <2>4, Typed
<1>4. Sound(E)' /\ Booked(E)' /\ IdsLeft' /\ Released(E, E')
  BY <1>1, <1>3, Typed, AroundStep DEF ProbeVerdict, ProbeFrame, engineVars, diskVars
<1>5. WorldSound'
  BY DEF IInv, WorldSound, ProbeVerdict, ProbeFrame, diskVars, worldVars
<1> QED
  BY <1>4, <1>5 DEF IInv

LEMMA ProbeMergeStep ==
  ASSUME IInv, NEW j \in Ids, ProbeMerge(j) PROVE IInv' /\ Released(E, E')
<1>1. inbox' = inbox \/ \E ev : Posted(ev)
  <2>1. CASE inbox' = Append(inbox, [type |-> "probe", job |-> j, out |-> "Failed"])
    <3> DEFINE ev == [type |-> "probe", job |-> j, out |-> "Failed"]
    <3>1. ev \in Event /\ ev.type = "probe"
      BY DEF Event
    <3>2. inbox' = Append(inbox, ev)
      BY <2>1
    <3> HIDE DEF ev
    <3>3. Posted(ev)
      BY <3>1, <3>2 DEF Posted, IsEnd, Creating
    <3> QED
      BY <3>3
  <2> QED
    BY <2>1 DEF ProbeMerge, Post
<1>2. NoProbe \in ProbeRecord /\ NoProbe.st = "none"
  BY DEF NoProbe, ProbeRecord
<1>3. /\ probe' \in [Ids -> ProbeRecord]
      /\ \A i \in Ids : probe'[i].st # "none" => probe'[i].key \in Keys
  <2>1. \A i \in Ids : probe'[i] = IF i = j THEN NoProbe ELSE probe[i]
    BY Typed DEF ProbeMerge
  <2> QED
    BY <1>2, <2>1, Typed DEF ProbeMerge
<1>4. Sound(E)' /\ Booked(E)' /\ IdsLeft' /\ Released(E, E')
  BY <1>1, <1>3, Typed, AroundStep DEF ProbeMerge, ProbeFrame, engineVars, diskVars
<1>5. WorldSound'
  BY DEF IInv, WorldSound, ProbeMerge, ProbeFrame, diskVars, worldVars
<1> QED
  BY <1>4, <1>5 DEF IInv


\* The worker takes the next request.
LEMMA MuxTakeStep ==
  ASSUME IInv, MuxTake PROVE IInv' /\ Released(E, E')
<1> DEFINE r == Head(queue)
<1>1. /\ jobs \in [Ids -> JobRecord] /\ nextId \in 1..(MaxJobs + 1)
      /\ tracked \in SUBSET Ids /\ forced \in SUBSET Ids /\ auto \in BOOLEAN /\ tool \in BOOLEAN
      /\ probe \in [Ids -> ProbeRecord] /\ inbox \in Seq(Event) /\ queue \in Seq(Request)
      /\ file \in [Keys -> FileRecord] /\ change \in [Keys -> Changes]
  BY Typed
<1>2. /\ OneRequest(queue) /\ OneEnd(inbox) /\ \A j \in Ids : JobBooked(E, j) /\ JobSound(E, j)
  BY DEF IInv, Booked, BookedBut, E, Sound
<1>3. /\ muxing.job = 0 /\ queue # <<>> /\ queue' = Tail(queue)
      /\ muxing' = [Idle EXCEPT !.job = r.job, !.key = r.key]
      /\ UNCHANGED <<engineVars, probe, inbox, file, change>>
  BY DEF MuxTake, MuxFrame
<1>4. /\ queue' \in Seq(Request) /\ OneRequest(queue') /\ r \in Request /\ Asked(queue, r.job)
      /\ \A j : Asked(queue', j) <=> Asked(queue, j) /\ j # r.job
  BY <1>1, <1>2, <1>3, AskedTail
<1> HIDE DEF r
<1>5. r.job \in Ids /\ r.key \in Keys /\ \A j \in Ids : j # 0
  BY <1>4 DEF Request, Ids
<1>6. muxing' \in MuxRecord /\ muxing'.job = r.job /\ muxing'.key = r.key
  BY <1>3, <1>5 DEF Idle, MuxRecord
<1>7. /\ E'.jobs = jobs /\ E'.nextId = nextId /\ E'.forced = forced /\ E'.probe = probe
      /\ E'.queue = queue' /\ E'.muxing = muxing' /\ E'.inbox = inbox
      /\ E.jobs = jobs /\ E.nextId = nextId /\ E.forced = forced /\ E.probe = probe
      /\ E.queue = queue /\ E.muxing = muxing /\ E.inbox = inbox
  BY <1>3 DEF E, engineVars
<1>8. E' \in Engine
  BY <1>1, <1>3, <1>4, <1>6 DEF E, Engine, engineVars
<1>9. Sound(E')
  <2>1. \A j \in Ids : JobSound(E', j)
    BY <1>2, <1>7 DEF JobSound
  <2> QED
    BY <1>5, <1>6, <1>7, <1>8, <2>1 DEF Sound
<1>10. ASSUME NEW j \in Ids, j # r.job PROVE JobBooked(E', j)
  <2>1. JobBooked(E, j)
    BY <1>2
  <2>2. (Asked(queue', j) <=> Asked(queue, j)) /\ muxing'.job # j /\ muxing.job # j
    BY <1>3, <1>4, <1>5, <1>6, <1>10
  <2> QED
    BY <1>7, <2>1, <2>2 DEF JobBooked
<1>11. JobBooked(E', r.job)
  <2>1. JobBooked(E, r.job) /\ JobSound(E, r.job)
    BY <1>2, <1>5
  <2>2. /\ jobs[r.job].state \in InMux /\ jobs[r.job].state # Absent
        /\ ~HasEnd(inbox, r.job) /\ ~(r.job >= nextId)
    BY <1>4, <1>7, <2>1 DEF JobBooked, JobSound
  <2>3. ~Asked(queue', r.job) /\ muxing'.job = r.job
    BY <1>4, <1>6
  <2> QED
    BY <1>7, <2>2, <2>3 DEF JobBooked
<1>12. Booked(E')
  BY <1>2, <1>4, <1>7, <1>10, <1>11 DEF Booked, BookedBut
<1>13. Released(E, E')
  BY <1>7 DEF Released
<1>14. IdsLeft' /\ WorldSound'
  BY <1>3 DEF IInv, IdsLeft, WorldSound, MuxTake, MuxFrame, engineVars, worldVars
<1> QED
  BY <1>9, <1>12, <1>13, <1>14 DEF IInv

\* The worker reports that the output is being verified.
LEMMA MuxVerifyStep ==
  ASSUME IInv, MuxVerify PROVE IInv' /\ Released(E, E')
<1> DEFINE ev == [type |-> "mux", job |-> muxing.job, out |-> "Verifying"]
<1>1. /\ jobs \in [Ids -> JobRecord] /\ nextId \in 1..(MaxJobs + 1)
      /\ tracked \in SUBSET Ids /\ forced \in SUBSET Ids /\ auto \in BOOLEAN /\ tool \in BOOLEAN
      /\ probe \in [Ids -> ProbeRecord] /\ inbox \in Seq(Event) /\ queue \in Seq(Request)
      /\ file \in [Keys -> FileRecord] /\ change \in [Keys -> Changes] /\ muxing \in MuxRecord
      /\ (muxing.job # 0 => muxing.key \in Keys)
  BY Typed
<1>2. /\ OneRequest(queue) /\ OneEnd(inbox) /\ \A j \in Ids : JobBooked(E, j) /\ JobSound(E, j)
  BY DEF IInv, Booked, BookedBut, E, Sound
<1>3. /\ muxing.job # 0 /\ muxing' = [muxing EXCEPT !.verified = TRUE]
      /\ muxed' = [muxed EXCEPT ![muxing.job] = file[muxing.key].content]
      /\ inbox' = Append(inbox, ev)
      /\ UNCHANGED <<engineVars, probe, queue, file, change>>
  BY DEF MuxVerify, MuxFrame, Post
<1>4. /\ muxing' \in MuxRecord /\ muxing'.job = muxing.job /\ muxing'.key = muxing.key
      /\ muxing'.cancel = muxing.cancel /\ muxing.job \in Ids
  BY <1>1, <1>3 DEF MuxRecord
<1>5. ev \in Event /\ ev.type = "mux" /\ ~Creating(ev) /\ \A j \in Ids : ~IsEnd(ev, j)
  BY <1>4 DEF Event, Creating, IsEnd
<1> HIDE DEF ev
<1>6. /\ inbox' \in Seq(Event) /\ OneEnd(inbox')
      /\ \A j \in Ids : HasEnd(inbox', j) <=> HasEnd(inbox, j)
  BY <1>1, <1>2, <1>3, <1>5, EndsAppend
<1>7. /\ E'.jobs = jobs /\ E'.nextId = nextId /\ E'.forced = forced /\ E'.probe = probe
      /\ E'.queue = queue /\ E'.muxing = muxing' /\ E'.inbox = inbox'
      /\ E.jobs = jobs /\ E.nextId = nextId /\ E.forced = forced /\ E.probe = probe
      /\ E.queue = queue /\ E.muxing = muxing /\ E.inbox = inbox
  BY <1>3 DEF E, engineVars
<1>8. E' \in Engine
  BY <1>1, <1>3, <1>4, <1>6 DEF E, Engine, engineVars
<1>9. \A j \in Ids : JobSound(E', j) /\ JobBooked(E', j)
  BY <1>2, <1>4, <1>6, <1>7 DEF JobSound, JobBooked
<1>10. Sound(E')
  BY <1>1, <1>4, <1>7, <1>8, <1>9 DEF Sound
<1>11. Booked(E')
  BY <1>2, <1>6, <1>7, <1>9 DEF Booked, BookedBut
<1>12. Released(E, E')
  BY <1>7 DEF Released
<1>13. IdsLeft'
  <2>1. Cardinality(Creates(inbox)) \in Nat /\ Cardinality(Creates(inbox')) = Cardinality(Creates(inbox))
    BY <1>1, <1>3, <1>5, CreatesAppend
  <2> QED
    BY <1>3, <2>1 DEF IInv, IdsLeft, engineVars
<1>14. WorldSound'
  <2>1. file[muxing.key].content \in 0..MaxExports
    BY <1>1, <1>3 DEF FileRecord
  <2>2. muxed' \in [Ids -> 0..MaxExports]
    BY <1>3, <2>1 DEF IInv, WorldSound
  <2> QED
    BY <2>2 DEF IInv, WorldSound, MuxVerify, MuxFrame, worldVars
<1> QED
  BY <1>10, <1>11, <1>12, <1>13, <1>14 DEF IInv

\* The worker reports the end.
LEMMA MuxEndStep ==
  ASSUME IInv, MuxEnd PROVE IInv' /\ Released(E, E')
<1>1. /\ jobs \in [Ids -> JobRecord] /\ nextId \in 1..(MaxJobs + 1)
      /\ tracked \in SUBSET Ids /\ forced \in SUBSET Ids /\ auto \in BOOLEAN /\ tool \in BOOLEAN
      /\ probe \in [Ids -> ProbeRecord] /\ inbox \in Seq(Event) /\ queue \in Seq(Request)
      /\ file \in [Keys -> FileRecord] /\ change \in [Keys -> Changes] /\ muxing \in MuxRecord
      /\ (muxing.job # 0 => muxing.key \in Keys)
  BY Typed
<1>2. /\ OneRequest(queue) /\ OneEnd(inbox) /\ \A j \in Ids : JobBooked(E, j) /\ JobSound(E, j)
  BY DEF IInv, Booked, BookedBut, E, Sound
<1>3. PICK out \in {"Done", "Failed", "Cancelled"} :
        /\ hints' = IF out = "Done" THEN hints \cup {[job |-> muxing.job, key |-> muxing.key]} ELSE hints
        /\ muxed' = IF out = "Done" THEN muxed ELSE [muxed EXCEPT ![muxing.job] = 0]
        /\ inbox' = Append(inbox, [type |-> "mux", job |-> muxing.job, out |-> out])
  BY DEF MuxEnd, Post
<1> DEFINE ev == [type |-> "mux", job |-> muxing.job, out |-> out]
<1>4. muxing.job # 0 /\ muxing' = Idle /\ UNCHANGED <<engineVars, probe, queue, file, change>>
  BY DEF MuxEnd, MuxFrame
<1>5. /\ muxing.job \in Ids /\ muxing.key \in Keys
      /\ muxing' \in MuxRecord /\ \A j \in Ids : muxing'.job # j
  BY <1>1, <1>4 DEF MuxRecord, Idle, Ids
<1>6. /\ ev \in Event /\ ~Creating(ev) /\ inbox' = Append(inbox, ev)
      /\ \A j \in Ids : IsEnd(ev, j) <=> j = muxing.job
  BY <1>3, <1>5 DEF Event, Creating, IsEnd
<1> HIDE DEF ev
<1>7. /\ E'.jobs = jobs /\ E'.nextId = nextId /\ E'.forced = forced /\ E'.probe = probe
      /\ E'.queue = queue /\ E'.muxing = muxing' /\ E'.inbox = inbox'
      /\ E.jobs = jobs /\ E.nextId = nextId /\ E.forced = forced /\ E.probe = probe
      /\ E.queue = queue /\ E.muxing = muxing /\ E.inbox = inbox
  BY <1>4 DEF E, engineVars
<1>8. ~Asked(queue, muxing.job) /\ ~HasEnd(inbox, muxing.job) /\ ~(muxing.job >= nextId)
  BY <1>2, <1>5, <1>7 DEF JobBooked
<1>9. /\ inbox' \in Seq(Event) /\ OneEnd(inbox')
      /\ \A j \in Ids : HasEnd(inbox', j) <=> HasEnd(inbox, j) \/ j = muxing.job
  BY <1>1, <1>2, <1>6, <1>8, EndsAppend
<1>10. E' \in Engine
  BY <1>1, <1>4, <1>5, <1>9 DEF E, Engine, engineVars
<1>11. Sound(E')
  <2>1. \A j \in Ids : JobSound(E', j)
    BY <1>2, <1>7 DEF JobSound
  <2> QED
    BY <1>4, <1>7, <1>10, <2>1 DEF Sound, Idle
<1>12. ASSUME NEW j \in Ids PROVE JobBooked(E', j)
  <2>1. JobBooked(E, j)
    BY <1>2
  <2>2. CASE j = muxing.job
    BY <1>5, <1>7, <1>8, <1>9, <2>1, <2>2 DEF JobBooked
  <2>3. CASE j # muxing.job
    BY <1>5, <1>7, <1>9, <2>1, <2>3 DEF JobBooked
  <2> QED
    BY <2>2, <2>3
<1>13. Booked(E')
  BY <1>2, <1>7, <1>9, <1>12 DEF Booked, BookedBut
<1>14. Released(E, E')
  BY <1>7 DEF Released
<1>15. IdsLeft'
  <2>1. Cardinality(Creates(inbox)) \in Nat /\ Cardinality(Creates(inbox')) = Cardinality(Creates(inbox))
    BY <1>1, <1>6, CreatesAppend
  <2> QED
    BY <1>4, <2>1 DEF IInv, IdsLeft, engineVars
<1>16. WorldSound'
  <2>1. 0 \in 0..MaxExports
    BY BoundsAssumption
  <2>2. muxed' \in [Ids -> 0..MaxExports] /\ hints' \subseteq [job : Ids, key : Keys]
    BY <1>3, <1>5, <2>1 DEF IInv, WorldSound
  <2> QED
    BY <2>2 DEF IInv, WorldSound, MuxEnd, MuxFrame, worldVars
<1> QED
  BY <1>11, <1>13, <1>14, <1>15, <1>16 DEF IInv

-----------------------------------------------------------------------------
(* Steps of AME, the folder, the log and other programs *)

\* What the world tells is typed.
LEMMA TellTyped ==
  ASSUME IInv, NEW k \in Keys, NEW a \in Texts \cup {""}, NEW b \in Texts \cup {""}, Tell(k, a, b)
  PROVE  news' \in [{"log", "cep"} -> Seq(Keys \X Texts)]
<1> DEFINE Message == Keys \X Texts
<1>1. ASSUME NEW s \in {"log", "cep"} PROVE news'[s] \in Seq(Message)
  <2> DEFINE text == IF s = "log" THEN a ELSE b
             told == <<k, text>>
  <2>1. news[s] \in Seq(Message)
    BY DEF IInv, WorldSound
  <2>2. news'[s] = IF s \in Triggers /\ text # "" THEN Append(news[s], told) ELSE news[s]
    BY DEF Tell
  <2>3. text # "" => told \in Message
    OBVIOUS
  <2> HIDE DEF told, Message, text
  <2>4. CASE s \in Triggers /\ text # ""
    <3>1. Append(news[s], told) \in Seq(Message)
      BY <2>1, <2>3, <2>4, AppendProperties
    <3> QED
      BY <2>2, <2>4, <3>1
  <2> QED
    BY <2>1, <2>2, <2>4
<1>2. news' = [s \in {"log", "cep"} |-> news'[s]]
  BY DEF Tell
<1> QED
  BY <1>1, <1>2

LEMMA NoticeTyped ==
  ASSUME IInv, NEW k \in Keys, NEW action \in Changes, Notice(k, action)
  PROVE  change' \in [Keys -> Changes]
BY Typed DEF Notice, MergeAction, Changes

LEMMA AmeBeginStep ==
  ASSUME IInv, NEW k \in Keys, AmeBegin(k) PROVE IInv' /\ Released(E, E')
<1>1. news' \in [{"log", "cep"} -> Seq(Keys \X Texts)]
  BY TellTyped DEF AmeBegin, Texts
<1>2. Sound(E)' /\ Booked(E)' /\ IdsLeft' /\ Released(E, E')
  BY Typed, AroundStep DEF AmeBegin, WorldFrame, engineVars, workerVars, diskVars
<1>3. exports' \in 0..MaxExports
  <2>1. exports \in 0..MaxExports /\ exports < MaxExports /\ exports' = exports + 1
    BY DEF AmeBegin, IInv, WorldSound
  <2> QED
    BY <2>1, BoundsAssumption
<1>4. WorldSound'
  BY <1>1, <1>3 DEF IInv, WorldSound, AmeBegin, WorldFrame, diskVars
<1> QED
  BY <1>2, <1>4 DEF IInv

LEMMA AmeWriteStep ==
  ASSUME IInv, NEW k \in Keys, AmeWrite(k) PROVE IInv' /\ Released(E, E')
<1>1. PICK size \in Sizes, over \in BOOLEAN :
        /\ file' = [file EXCEPT ![k] = [id |-> IF over THEN @.id ELSE exports, size |-> size,
                                        content |-> exports]]
        /\ Notice(k, IF over THEN "Modified" ELSE "Added")
  BY DEF AmeWrite
<1>2. change' \in [Keys -> Changes]
  BY <1>1, NoticeTyped DEF Changes
<1>3. file' \in [Keys -> FileRecord]
  <2> DEFINE r == [id |-> IF over THEN file[k].id ELSE exports, size |-> size, content |-> exports]
  <2>1. file' = [file EXCEPT ![k] = r]
    BY <1>1, Typed
  <2>2. r \in FileRecord
    BY <1>1, Typed DEF FileRecord, IInv, WorldSound
  <2> HIDE DEF r
  <2> QED
    BY <2>1, <2>2, Typed
<1>4. Sound(E)' /\ Booked(E)' /\ IdsLeft' /\ Released(E, E')
  BY <1>2, <1>3, Typed, AroundStep DEF AmeWrite, WorldFrame, engineVars, workerVars
<1>5. WorldSound'
  BY DEF IInv, WorldSound, AmeWrite, WorldFrame
<1> QED
  BY <1>4, <1>5 DEF IInv

LEMMA AmeEndStep ==
  ASSUME IInv, NEW k \in Keys, AmeEnd(k) PROVE IInv' /\ Released(E, E')
<1>1. news' \in [{"log", "cep"} -> Seq(Keys \X Texts)]
  BY TellTyped DEF AmeEnd, Texts
<1>2. change' \in [Keys -> Changes]
  BY NoticeTyped DEF AmeEnd, Changes
<1>3. Sound(E)' /\ Booked(E)' /\ IdsLeft' /\ Released(E, E')
  BY <1>2, Typed, AroundStep DEF AmeEnd, WorldFrame, engineVars, workerVars
<1>4. WorldSound'
  BY <1>1 DEF IInv, WorldSound, AmeEnd, WorldFrame
<1> QED
  BY <1>3, <1>4 DEF IInv

LEMMA AmeFailsStep ==
  ASSUME IInv, NEW k \in Keys, AmeFails(k) PROVE IInv' /\ Released(E, E')
<1>1. news' \in [{"log", "cep"} -> Seq(Keys \X Texts)]
  BY TellTyped DEF AmeFails, Texts
<1>2. change' \in [Keys -> Changes] /\ file' \in [Keys -> FileRecord]
  <2>1. CASE UNCHANGED <<file, change>>
    BY <2>1, Typed
  <2>2. CASE file' = [file EXCEPT ![k] = NoFile] /\ Notice(k, "Removed")
    <3>1. NoFile \in FileRecord
      BY BoundsAssumption DEF NoFile, FileRecord
    <3>2. change' \in [Keys -> Changes]
      BY <2>2, NoticeTyped DEF Changes
    <3> QED
      BY <2>2, <3>1, <3>2, Typed
  <2> QED
    BY <2>1, <2>2 DEF AmeFails
<1>3. Sound(E)' /\ Booked(E)' /\ IdsLeft' /\ Released(E, E')
  BY <1>2, Typed, AroundStep DEF AmeFails, WorldFrame, engineVars, workerVars
<1>4. WorldSound'
  BY <1>1 DEF IInv, WorldSound, AmeFails, WorldFrame
<1> QED
  BY <1>3, <1>4 DEF IInv

\* An event of the engine's triggers is posted.
LEMMA PostedTrigger ==
  ASSUME NEW ev \in Event, ev.type # "mux", Room, Post(ev) PROVE Posted(ev)
BY DEF Posted, Post, IsEnd

LEMMA PostNewsStep ==
  ASSUME IInv, NEW s \in {"log", "cep"}, PostNews(s) PROVE IInv' /\ Released(E, E')
<1> DEFINE told == Head(news[s])
           ev == [type |-> s, key |-> told[1], what |-> told[2]]
<1>1. news[s] \in Seq(Keys \X Texts) /\ news[s] # <<>>
  BY DEF IInv, WorldSound, PostNews
<1>2. told \in Keys \X Texts /\ Tail(news[s]) \in Seq(Keys \X Texts)
  BY <1>1, HeadTailProperties
<1> HIDE DEF told
<1>3. ev \in Event /\ ev.type # "mux"
  BY <1>2 DEF Event
<1>4. Room /\ Post(ev)
  BY DEF PostNews, told
<1> HIDE DEF ev
<1>5. Posted(ev)
  BY <1>3, <1>4, PostedTrigger
<1>6. Sound(E)' /\ Booked(E)' /\ IdsLeft' /\ Released(E, E')
  BY <1>5, Typed, AroundStep DEF PostNews, WorldFrame, engineVars, workerVars, diskVars
<1>7. news' \in [{"log", "cep"} -> Seq(Keys \X Texts)]
  BY <1>2 DEF IInv, WorldSound, PostNews
<1>8. WorldSound'
  BY <1>7 DEF IInv, WorldSound, PostNews, WorldFrame, diskVars
<1> QED
  BY <1>6, <1>8 DEF IInv

LEMMA PostSidecarStep ==
  ASSUME IInv, NEW k \in Keys, PostSidecar(k) PROVE IInv' /\ Released(E, E')
<1> DEFINE ev == [type |-> "sidecar", key |-> k]
<1>1. ev \in Event /\ ev.type # "mux" /\ Room /\ Post(ev)
  BY DEF PostSidecar, Event
<1> HIDE DEF ev
<1>2. Posted(ev)
  BY <1>1, PostedTrigger
<1>3. Sound(E)' /\ Booked(E)' /\ IdsLeft' /\ Released(E, E')
  BY <1>2, Typed, AroundStep DEF PostSidecar, WorldFrame, engineVars, workerVars, diskVars
<1>4. WorldSound'
  BY DEF IInv, WorldSound, PostSidecar, WorldFrame, diskVars, worldVars
<1> QED
  BY <1>3, <1>4 DEF IInv

LEMMA FlushChangeStep ==
  ASSUME IInv, NEW k \in Keys, FlushChange(k) PROVE IInv' /\ Released(E, E')
<1>1. Room
  BY DEF FlushChange
<1>2. inbox' = inbox \/ \E ev : Posted(ev)
  <2>1. CASE inbox' = inbox
    BY <2>1
  <2>2. ASSUME NEW action \in Changes,
               Post([type |-> "output", key |-> k, action |-> action, scan |-> FALSE])
        PROVE  \E ev : Posted(ev)
    <3> DEFINE ev == [type |-> "output", key |-> k, action |-> action, scan |-> FALSE]
    <3>1. ev \in Event /\ ev.type # "mux" /\ Post(ev)
      BY <2>2 DEF Event
    <3> HIDE DEF ev
    <3> QED
      BY <1>1, <3>1, PostedTrigger
  <2> QED
    BY <2>1, <2>2 DEF FlushChange, Changes
<1>3. change' \in [Keys -> Changes] /\ known' \subseteq Keys
  BY Typed DEF IInv, WorldSound, FlushChange, Changes
<1>4. Sound(E)' /\ Booked(E)' /\ IdsLeft' /\ Released(E, E')
  BY <1>2, <1>3, Typed, AroundStep DEF FlushChange, WorldFrame, engineVars, workerVars
<1>5. WorldSound'
  BY <1>3 DEF IInv, WorldSound, FlushChange, WorldFrame, worldVars
<1> QED
  BY <1>4, <1>5 DEF IInv

LEMMA TouchStep ==
  ASSUME IInv, NEW k \in Keys, Touch(k) PROVE IInv' /\ Released(E, E')
<1>1. /\ inbox' = inbox \/ \E ev : Posted(ev)
      /\ change' \in [Keys -> Changes] /\ file' \in [Keys -> FileRecord]
      /\ known' \subseteq Keys /\ hints' \subseteq [job : Ids, key : Keys]
  <2>1. known \subseteq Keys /\ hints \subseteq [job : Ids, key : Keys]
    BY DEF IInv, WorldSound
  <2>2. CASE Notice(k, "Modified") /\ UNCHANGED <<file, inbox, known, hints>>
    BY <2>1, <2>2, Typed, NoticeTyped DEF Changes
  <2>3. CASE /\ Notice(k, "Removed") /\ file' = [file EXCEPT ![k] = NoFile]
             /\ UNCHANGED <<inbox, known, hints>>
    <3>1. NoFile \in FileRecord
      BY BoundsAssumption DEF NoFile, FileRecord
    <3>2. change' \in [Keys -> Changes]
      BY <2>3, NoticeTyped DEF Changes
    <3> QED
      BY <2>1, <2>3, <3>1, <3>2, Typed
  <2>4. CASE /\ \E h \in hints : h.key = k /\ hints' = hints \ {h}
             /\ UNCHANGED <<change, file, inbox, known>>
    BY <2>1, <2>4, Typed
  <2>5. CASE /\ Room /\ Post([type |-> "output", key |-> k, action |-> "Added", scan |-> TRUE])
             /\ known' = known \cup {k} /\ UNCHANGED <<change, file, hints>>
    <3> DEFINE ev == [type |-> "output", key |-> k, action |-> "Added", scan |-> TRUE]
    <3>1. ev \in Event /\ ev.type # "mux" /\ Room /\ Post(ev)
      BY <2>5 DEF Event, Changes
    <3> HIDE DEF ev
    <3>2. Posted(ev)
      BY <3>1, PostedTrigger
    <3> QED
      BY <2>1, <2>5, <3>2, Typed
  <2>6. ASSUME NEW what \in {"newer", "older"}, Room,
               Post([type |-> "log", key |-> k, what |-> what]),
               UNCHANGED <<change, file, known, hints>>
        PROVE  /\ inbox' = inbox \/ \E ev : Posted(ev)
               /\ change' \in [Keys -> Changes] /\ file' \in [Keys -> FileRecord]
               /\ known' \subseteq Keys /\ hints' \subseteq [job : Ids, key : Keys]
    <3> DEFINE ev == [type |-> "log", key |-> k, what |-> what]
    <3>1. ev \in Event /\ ev.type # "mux" /\ Post(ev)
      BY <2>6 DEF Event, Texts
    <3> HIDE DEF ev
    <3>2. Posted(ev)
      BY <2>6, <3>1, PostedTrigger
    <3> QED
      BY <2>1, <2>6, <3>2, Typed
  <2> QED
    BY <2>2, <2>3, <2>4, <2>5, <2>6 DEF Touch
<1>2. Sound(E)' /\ Booked(E)' /\ IdsLeft' /\ Released(E, E')
  BY <1>1, Typed, AroundStep DEF Touch, WorldFrame, engineVars, workerVars
<1>3. touches' \in 0..MaxTouches
  BY BoundsAssumption DEF Touch, IInv, WorldSound
<1>4. WorldSound'
  BY <1>1, <1>3 DEF IInv, WorldSound, Touch, WorldFrame
<1> QED
  BY <1>2, <1>4 DEF IInv

-----------------------------------------------------------------------------
(* Every step *)

LEMMA InitSound ==
  ASSUME Init PROVE IInv
<1>1. /\ MaxJobs \in Nat /\ MaxExports \in Nat /\ MaxCommands \in Nat /\ MaxTouches \in Nat
      /\ NoJob \in JobRecord /\ NoJob.state = Absent /\ NoJob.key = NoKey /\ NoJob.gen = 0
      /\ \A j \in Ids : j \in Nat /\ j # 0
  BY BoundsAssumption, NoJobFacts DEF Ids
<1>2. NoProbe \in ProbeRecord /\ NoProbe.st = "none"
  BY DEF NoProbe, ProbeRecord
<1>3. Idle \in MuxRecord /\ Idle.job = 0
  BY DEF Idle, MuxRecord
<1>4. NoFile \in FileRecord
  BY <1>1 DEF NoFile, FileRecord
<1>5. /\ jobs = [j \in Ids |-> NoJob] /\ nextId = 1 /\ forced = {}
      /\ probe = [j \in Ids |-> NoProbe] /\ queue = <<>> /\ muxing = Idle /\ inbox = <<>>
  BY DEF Init
<1>6. /\ E.jobs = jobs /\ E.nextId = nextId /\ E.forced = forced /\ E.probe = probe
      /\ E.queue = queue /\ E.muxing = muxing /\ E.inbox = inbox
  BY DEF E
<1>7. queue \in Seq(Request) /\ inbox \in Seq(Event) /\ Len(queue) = 0 /\ Len(inbox) = 0
  BY <1>5, EmptySeq
<1>8. E \in Engine
  <2>1. jobs \in [Ids -> JobRecord] /\ probe \in [Ids -> ProbeRecord] /\ nextId \in 1..(MaxJobs + 1)
    BY <1>1, <1>2, <1>5
  <2>2. /\ tracked \in SUBSET Ids /\ forced \in SUBSET Ids /\ auto \in BOOLEAN /\ tool \in BOOLEAN
        /\ file \in [Keys -> FileRecord] /\ change \in [Keys -> Changes]
    BY <1>4 DEF Init, Changes
  <2> QED
    BY <1>3, <1>5, <1>7, <2>1, <2>2 DEF E, Engine
<1>9. Sound(E)
  BY <1>1, <1>2, <1>3, <1>5, <1>6, <1>8 DEF Sound, JobSound
<1>10. Booked(E)
  <2>1. /\ OneRequest(queue) /\ OneEnd(inbox)
        /\ \A j \in Ids : ~Asked(queue, j) /\ ~HasEnd(inbox, j) /\ muxing.job # j
    BY <1>1, <1>3, <1>5, <1>7 DEF OneRequest, OneEnd, Asked, HasEnd
  <2>2. \A j \in Ids : jobs[j].state = Absent
    BY <1>1, <1>5
  <2> QED
    BY <1>6, <2>1, <2>2 DEF Booked, BookedBut, JobBooked, InMux, Absent
<1>11. IdsLeft
  <2>1. Creates(inbox) = {}
    BY <1>5, EmptySeq DEF Creates
  <2>2. Cardinality(Creates(inbox)) = 0
    BY <2>1, FS_EmptySet
  <2> QED
    BY <1>1, <1>5, <2>2 DEF IdsLeft
<1>12. WorldSound
  <2>1. <<>> \in Seq(Keys \X Texts)
    BY EmptySeq
  <2> QED
    BY <1>1, <2>1 DEF Init, WorldSound
<1> QED
  BY <1>9, <1>10, <1>11, <1>12 DEF IInv

LEMMA StutterStep ==
  ASSUME IInv, UNCHANGED vars PROVE IInv' /\ Released(E, E')
<1>1. UNCHANGED <<jobs, nextId, tracked, forced, auto, tool, probe, queue, muxing, inbox, file, change>>
  BY DEF vars, engineVars, workerVars, diskVars
<1>2. Sound(E)' /\ Booked(E)' /\ IdsLeft' /\ Released(E, E')
  BY <1>1, Typed, AroundStep
<1>3. WorldSound'
  BY DEF IInv, WorldSound, vars, diskVars, worldVars
<1> QED
  BY <1>2, <1>3 DEF IInv

LEMMA NextStep ==
  ASSUME IInv, [Next]_vars PROVE IInv' /\ Released(E, E')
<1>1. CASE Apply
  BY <1>1, ApplyStep
<1>2. CASE UserStep
  <2>1. ASSUME NEW name \in Commands, NEW j \in Ids, OnJob(name, j) PROVE IInv' /\ Released(E, E')
    BY <2>1, OnJobStep
  <2>2. ASSUME NEW k \in Keys, AddManualFile(k) PROVE IInv' /\ Released(E, E')
    BY <2>2, AddManualFileStep
  <2> QED
    BY <1>2, <2>1, <2>2, SetAutoProcessStep, ReprobeMkvmergeStep DEF UserStep
<1>3. CASE MuxStep
  BY <1>3, MuxTakeStep, MuxVerifyStep, MuxEndStep DEF MuxStep
<1>4. CASE WorldStep
  <2>1. ASSUME NEW k \in Keys,
               \/ AmeBegin(k) \/ AmeWrite(k) \/ AmeEnd(k) \/ AmeFails(k)
               \/ PostSidecar(k) \/ FlushChange(k) \/ Touch(k)
        PROVE  IInv' /\ Released(E, E')
    BY <2>1, AmeBeginStep, AmeWriteStep, AmeEndStep, AmeFailsStep, PostSidecarStep,
       FlushChangeStep, TouchStep
  <2>2. ASSUME NEW s \in {"log", "cep"}, PostNews(s) PROVE IInv' /\ Released(E, E')
    BY <2>2, PostNewsStep
  <2> QED
    BY <1>4, <2>1, <2>2 DEF WorldStep
<1>5. ASSUME NEW j \in Ids, ProbeStep(j) \/ ProbeWriting(j) PROVE IInv' /\ Released(E, E')
  BY <1>5, ProbeVerdictStep, ProbeMergeStep, ProbeWritingStep DEF ProbeStep
<1>6. CASE UNCHANGED vars
  BY <1>6, StutterStep
<1> QED
  BY <1>1, <1>2, <1>3, <1>4, <1>5, <1>6 DEF Next

\* The invariant of every behaviour.
LEMMA Invariant == Spec => []IInv
<1>1. Init => IInv
  BY InitSound
<1>2. IInv /\ [Next]_vars => IInv'
  BY NextStep
<1> QED
  BY <1>1, <1>2, PTL DEF Spec

-----------------------------------------------------------------------------

(* Every variable of the engine and of its workers keeps its type, and an  *)
(* id is a job of the table exactly while it has an output path.           *)
THEOREM TypeCorrect == Spec => []TypeOK
<1>1. IInv => TypeOK
  <2> SUFFICES ASSUME IInv PROVE TypeOK
    OBVIOUS
  <2>1. \A j \in Ids : jobs[j].state = Absent <=> jobs[j].key = NoKey
    BY DEF IInv, Sound, JobSound, E
  <2>2. ASSUME NEW i \in DOMAIN inbox
        PROVE  inbox[i].type \in {"log", "cep", "sidecar", "output", "probe", "mux"}
    <3>1. inbox[i] \in Event
      BY Typed, ElementOfSeq, LenProperties
    <3> QED
      BY <3>1, EventFacts
  <2> QED
    BY <2>1, <2>2, Typed DEF TypeOK, IInv, WorldSound, ProbeRecord, Request, MuxRecord, FileRecord, Changes
<1> QED
  BY <1>1, Invariant, PTL

LEMMA OneOrNone ==
  ASSUME NEW S, NEW n \in Nat, S \subseteq 1..n, \A i, k \in S : i = k
  PROVE  Cardinality(S) = IF S = {} THEN 0 ELSE 1
<1>1. CASE S = {}
  BY <1>1, FS_EmptySet
<1>2. CASE S # {}
  <2>1. PICK i \in S : TRUE
    BY <1>2
  <2>2. S = {i}
    BY <2>1
  <2> QED
    BY <2>2, FS_Singleton
<1> QED
  BY <1>1, <1>2

(* However events, commands, workers, AME and the disk interleave, a job   *)
(* is Muxing or Verifying exactly while one request of it waits, runs or   *)
(* has its end on the way, and the mux of a removed job is being           *)
(* cancelled.                                                              *)
THEOREM MuxIsAccounted == Spec => []MuxAccounted
<1>1. IInv => MuxAccounted
  <2> SUFFICES ASSUME IInv, NEW j \in Ids
               PROVE  LET pending == Cardinality(Requests(j)) + Cardinality(MuxEnds(j))
                                       + (IF muxing.job = j THEN 1 ELSE 0)
                      IN  CASE jobs[j].state \in InMux -> pending = 1
                            [] jobs[j].state = Absent -> /\ Requests(j) = {}
                                                         /\ muxing.job = j => muxing.cancel
                            [] OTHER -> pending = 0
    BY DEF MuxAccounted
  <2>1. /\ Len(queue) \in Nat /\ DOMAIN queue = 1..Len(queue)
        /\ Len(inbox) \in Nat /\ DOMAIN inbox = 1..Len(inbox)
    BY Typed, LenProperties
  <2>2. OneRequest(queue) /\ OneEnd(inbox) /\ JobBooked(E, j)
    BY DEF IInv, Booked, BookedBut, E
  <2>3. /\ E.jobs = jobs /\ E.queue = queue /\ E.muxing = muxing /\ E.inbox = inbox
    BY DEF E
  <2>4. Requests(j) = {} <=> ~Asked(queue, j)
    BY <2>1 DEF Requests, Asked
  <2>5. MuxEnds(j) = {} <=> ~HasEnd(inbox, j)
    BY <2>1 DEF MuxEnds, HasEnd, IsEnd
  <2>6. Cardinality(Requests(j)) = IF Asked(queue, j) THEN 1 ELSE 0
    <3>1. Requests(j) \subseteq 1..Len(queue) /\ \A i, k \in Requests(j) : i = k
      BY <2>1, <2>2 DEF Requests, OneRequest
    <3> QED
      BY <2>1, <2>4, <3>1, OneOrNone
  <2>7. Cardinality(MuxEnds(j)) = IF HasEnd(inbox, j) THEN 1 ELSE 0
    <3>1. MuxEnds(j) \subseteq 1..Len(inbox) /\ \A i, k \in MuxEnds(j) : i = k
      BY <2>1, <2>2 DEF MuxEnds, OneEnd, IsEnd
    <3> QED
      BY <2>1, <2>5, <3>1, OneOrNone
  <2>8. CASE jobs[j].state \in InMux
    BY <2>2, <2>3, <2>6, <2>7, <2>8 DEF JobBooked, InMux, Absent
  <2>9. CASE jobs[j].state = Absent
    BY <2>2, <2>3, <2>4, <2>9 DEF JobBooked, InMux, Absent
  <2>10. CASE jobs[j].state \notin InMux \cup {Absent}
    BY <2>2, <2>3, <2>6, <2>7, <2>10 DEF JobBooked
  <2> QED
    BY <2>8, <2>9, <2>10
<1> QED
  BY <1>1, Invariant, PTL

(* Whatever runs, holds, resumes, presets, switches and verdicts come, a   *)
(* job on hold is never sent to the mux.                                   *)
THEOREM HeldStays == Spec => HeldIsNotDispatched
<1>1. IInv /\ [Next]_vars =>
        [\A j \in Ids : jobs'[j].state = "Muxing" /\ jobs[j].state \notin InMux => ~jobs'[j].hold]_vars
  <2> SUFFICES ASSUME IInv, [Next]_vars, NEW j \in Ids,
                      jobs'[j].state = "Muxing", jobs[j].state \notin InMux
               PROVE  ~jobs'[j].hold
    OBVIOUS
  <2>1. IInv' /\ Released(E, E')
    BY NextStep
  <2>2. jobs'[j] \notin Holding
    BY <2>1, StateFacts DEF Released, E
  <2>3. jobs'[j] \in JobRecord
    BY <2>1 DEF IInv, Sound, Engine, E
  <2> QED
    BY <2>2, <2>3 DEF Holding
<1> QED
  BY <1>1, Invariant, PTL DEF Spec, HeldIsNotDispatched
=============================================================================
