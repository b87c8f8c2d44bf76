--------------------------- MODULE MuxWorkerProofs ---------------------------
(***************************************************************************)
(* Theorems about MuxWorker, for any set of jobs, any number of requests,  *)
(* foreign files and final names, and any plan.                            *)
(*                                                                         *)
(* Counted is the invariant the others rest on: a request that has not     *)
(* been reported is in exactly one place.  TypeOK needs it too: the number *)
(* of Finished events stays within the number of requests.  StopInv,       *)
(* CancelInv, EarlyInv and FileInv add what stop(), the cancel event and   *)
(* the files depend on; each is preserved by the steps given Counted.      *)
(***************************************************************************)
EXTENDS MuxWorker, SequenceTheorems, WellFoundedInduction, TLAPS

NoDup(s) == \A i, k \in 1..Len(s) : s[i] = s[k] => i = k

\* The places that the count looks at are well formed.
PlacesInv ==
    /\ NoDup(queue) /\ NoDup(leftovers)
    /\ pc = "locked" => queue # <<>>
    /\ pc # "leftovers" => leftovers = <<>>
    /\ pc \in ProcessPcs => request \in Jobs
    /\ uiPc = "report" => uiJob \in Jobs

Counted == TypeOK /\ OneFinishedPerRequest /\ PlacesInv

-----------------------------------------------------------------------------
(* Sequences without duplicates *)

LEMMA ContainsAppend ==
  ASSUME NEW S, NEW s \in Seq(S), NEW e \in S, NoDup(s), ~Contains(s, e)
  PROVE  /\ Append(s, e) \in Seq(S) /\ NoDup(Append(s, e))
         /\ \A x : Contains(Append(s, e), x) <=> Contains(s, x) \/ x = e
<1> DEFINE t == Append(s, e)
<1>1. /\ t \in Seq(S) /\ Len(t) = Len(s) + 1
      /\ \A i \in 1..Len(s) : t[i] = s[i]
      /\ t[Len(s) + 1] = e
  BY AppendProperties
<1>2. Len(s) \in Nat
  BY LenProperties
<1> HIDE DEF t
<1>3. \A i \in 1..Len(s) : s[i] # e
  BY DEF Contains
<1>4. NoDup(t)
  BY <1>1, <1>2, <1>3 DEF NoDup
<1>5. \A x : Contains(t, x) <=> Contains(s, x) \/ x = e
  BY <1>1, <1>2 DEF Contains
<1> QED
  BY <1>1, <1>4, <1>5 DEF t

LEMMA ContainsTail ==
  ASSUME NEW S, NEW s \in Seq(S), NoDup(s), s # <<>>
  PROVE  /\ Tail(s) \in Seq(S) /\ NoDup(Tail(s))
         /\ Head(s) \in S /\ Contains(s, Head(s))
         /\ \A x : Contains(Tail(s), x) <=> Contains(s, x) /\ x # Head(s)
<1> DEFINE t == Tail(s)
<1>1. /\ t \in Seq(S) /\ Len(t) = Len(s) - 1
      /\ \A i \in 1..Len(t) : t[i] = s[i + 1]
  BY HeadTailProperties
<1>2. Len(s) \in Nat \ {0}
  BY LenProperties, EmptySeq
<1>3. Head(s) = s[1] /\ Head(s) \in S
  BY <1>2, ElementOfSeq
<1> HIDE DEF t
<1>4. NoDup(t)
  BY <1>1, <1>2 DEF NoDup
<1>5. Contains(s, Head(s))
  BY <1>2, <1>3 DEF Contains
<1>6. \A x : Contains(t, x) => Contains(s, x) /\ x # Head(s)
  BY <1>1, <1>2, <1>3 DEF Contains, NoDup
<1>7. ASSUME NEW x, Contains(s, x), x # Head(s) PROVE Contains(t, x)
  <2>1. PICK i \in 1..Len(s) : s[i] = x
    BY <1>7 DEF Contains
  <2>2. i - 1 \in 1..Len(t) /\ t[i - 1] = x
    BY <1>1, <1>2, <1>3, <1>7, <2>1
  <2> QED
    BY <2>2 DEF Contains
<1> QED
  BY <1>1, <1>3, <1>4, <1>5, <1>6, <1>7 DEF t

LEMMA ContainsRemove ==
  ASSUME NEW S, NEW s \in Seq(S), NoDup(s), NEW n \in 1..Len(s)
  PROVE  /\ RemoveAt(s, n) \in Seq(S) /\ NoDup(RemoveAt(s, n))
         /\ \A x : Contains(RemoveAt(s, n), x) <=> Contains(s, x) /\ x # s[n]
<1> DEFINE t == RemoveAt(s, n)
           a == SubSeq(s, 1, n - 1)
           b == SubSeq(s, n + 1, Len(s))
<1>1. Len(s) \in Nat
  BY LenProperties
<1>2. \A i \in 1..Len(s) : s[i] \in S
  BY ElementOfSeq
<1>3. /\ a \in Seq(S) /\ Len(a) = n - 1
      /\ \A i \in 1..(n - 1) : a[i] = s[i]
  BY <1>1, <1>2, SubSeqProperties
<1>4. /\ b \in Seq(S) /\ Len(b) = Len(s) - n
      /\ \A i \in 1..(Len(s) - n) : b[i] = s[n + i]
  BY <1>1, <1>2, SubSeqProperties
<1>5. t = a \o b
  BY DEF RemoveAt
<1> HIDE DEF a, b, t
<1>6. /\ t \in Seq(S) /\ Len(t) = Len(s) - 1
      /\ \A i \in 1..Len(t) : t[i] = IF i < n THEN s[i] ELSE s[i + 1]
  <2>1. /\ t \in Seq(S) /\ Len(t) = Len(a) + Len(b)
        /\ \A i \in 1..(Len(a) + Len(b)) :
              t[i] = IF i <= Len(a) THEN a[i] ELSE b[i - Len(a)]
    BY <1>3, <1>4, <1>5, ConcatProperties
  <2>2. Len(t) = Len(s) - 1
    BY <1>1, <1>3, <1>4, <2>1
  <2>3. ASSUME NEW i \in 1..Len(t), i < n PROVE t[i] = s[i]
    BY <1>1, <1>3, <1>4, <2>1, <2>2, <2>3
  <2>4. ASSUME NEW i \in 1..Len(t), ~(i < n) PROVE t[i] = s[i + 1]
    <3>1. i - (n - 1) \in 1..(Len(s) - n)
      BY <1>1, <2>2, <2>4
    <3>2. t[i] = b[i - (n - 1)]
      BY <1>1, <1>3, <1>4, <2>1, <2>2, <2>4
    <3> QED
      BY <1>1, <1>4, <3>1, <3>2
  <2> QED
    BY <2>1, <2>2, <2>3, <2>4
<1>7. NoDup(t)
  BY <1>1, <1>6 DEF NoDup
<1>8. \A x : Contains(t, x) => Contains(s, x) /\ x # s[n]
  BY <1>1, <1>6 DEF Contains, NoDup
<1>9. ASSUME NEW x, Contains(s, x), x # s[n] PROVE Contains(t, x)
  <2>1. PICK i \in 1..Len(s) : s[i] = x
    BY <1>9 DEF Contains
  <2>2. CASE i < n
    BY <1>1, <1>6, <2>1, <2>2 DEF Contains
  <2>3. CASE i > n
    <3>1. i - 1 \in 1..Len(t) /\ t[i - 1] = x
      BY <1>1, <1>6, <2>1, <2>3
    <3> QED
      BY <3>1 DEF Contains
  <2> QED
    BY <1>9, <2>1, <2>2, <2>3
<1> QED
  BY <1>6, <1>7, <1>8, <1>9 DEF t

-----------------------------------------------------------------------------
(* The program counters of the worker *)

LEMMA Pcs ==
  /\ EarlyPcs = {"sanity", "identify", "probe", "stale", "sanity?", "identify?", "probe?",
                 "stale?", "launch", "run"}
  /\ ProcessPcs = {"sanity", "identify", "probe", "stale", "sanity?", "identify?", "probe?",
                   "stale?", "launch", "run", "verify", "finalize", "moveReplace",
                   "moveNoReplace", "discard", "post"}
  /\ \A s \in StageSet : CheckOf[s] \in {"sanity?", "identify?", "probe?", "stale?"}
  /\ DOMAIN After = {"sanity?", "identify?", "probe?", "stale?"}
  /\ \A c \in DOMAIN After : After[c] \in {"identify", "probe", "stale", "launch"}
<1>1. DOMAIN After = {"sanity?", "identify?", "probe?", "stale?"}
  BY DEF After
<1>2. \A s \in StageSet : CheckOf[s] \in {"sanity?", "identify?", "probe?", "stale?"}
  BY DEF StageSet, CheckOf
<1>3. \A c \in DOMAIN After : After[c] \in {"identify", "probe", "stale", "launch"}
  BY DEF After
<1> QED
  BY <1>1, <1>2, <1>3 DEF EarlyPcs, LatePcs, ProcessPcs, StageSet

\* process() starts at the sanity check, never returns to a stage before
\* verification once it is past it, and ends with the post.
LEMMA ProcessPcsStep ==
  ASSUME ProcessStep
  PROVE  /\ pc \in ProcessPcs /\ pc' \in ProcessPcs \cup {"release"}
         /\ pc' \in EarlyPcs => pc \in EarlyPcs
<1>1. CASE \E s \in StageSet : StagePasses(s) \/ StageFails(s)
  BY <1>1, Pcs DEF StagePasses, StageFails, Finish, StageSet
<1>2. CASE \E c \in DOMAIN After : CheckCancel(c)
  BY <1>2, Pcs DEF CheckCancel, Finish
<1>3. CASE \/ Launch \/ RunCancelled \/ RunFails \/ RunDone \/ Verify
           \/ Finalize \/ Move \/ MoveFails \/ Discard \/ PostFinished \/ Throws
  BY <1>3, Pcs DEF Launch, RunCancelled, RunFails, RunDone, Verify, Finalize, Move,
                   MoveFails, Discard, PostFinished, Throws, MoveToTarget, Finish
<1> QED
  BY <1>1, <1>2, <1>3 DEF ProcessStep

-----------------------------------------------------------------------------
(* A request is in one place *)

\* The request of a job that is in some place is its only unreported one.
LEMMA InPlace ==
  ASSUME TypeOK, OneFinishedPerRequest, NEW j \in Jobs
  PROVE  /\ enqueued[j] \in 0..MaxRuns /\ finished[j] \in 0..MaxRuns
         /\ enqueued[j] = finished[j] + Places(j)
         /\ Places(j) \in {0, 1}
         /\ enqueued[j] = finished[j] <=>
               ~Queued(j) /\ ~Processing(j) /\ ~Leaving(j) /\ ~Reporting(j)
         /\ Queued(j) => ~Processing(j) /\ ~Leaving(j) /\ ~Reporting(j)
         /\ Processing(j) => ~Queued(j) /\ ~Leaving(j) /\ ~Reporting(j)
         /\ Leaving(j) => ~Queued(j) /\ ~Processing(j) /\ ~Reporting(j)
         /\ Reporting(j) => ~Queued(j) /\ ~Processing(j) /\ ~Leaving(j)
<1>1. /\ enqueued[j] \in 0..MaxRuns /\ finished[j] \in 0..MaxRuns
      /\ enqueued[j] = finished[j] + Places(j) /\ Places(j) <= 1
  BY DEF TypeOK, OneFinishedPerRequest
<1> QED
  BY <1>1, BoundsAssumption DEF Places, One

\* What the places are determines the count.
LEMMA SamePlaces ==
  ASSUME TypeOK, OneFinishedPerRequest, NEW j \in Jobs,
         Queued(j)' <=> Queued(j), Processing(j)' <=> Processing(j),
         Leaving(j)' <=> Leaving(j), Reporting(j)' <=> Reporting(j),
         enqueued'[j] = enqueued[j], finished'[j] = finished[j]
  PROVE  enqueued'[j] = finished'[j] + Places(j)' /\ Places(j)' <= 1
<1>1. Places(j)' = Places(j)
  BY DEF Places, One
<1> QED
  BY <1>1 DEF OneFinishedPerRequest

LEMMA MovedPlace ==
  ASSUME TypeOK, OneFinishedPerRequest, NEW j \in Jobs,
         Queued(j) \/ Processing(j) \/ Leaving(j) \/ Reporting(j),
         \/ Queued(j)' /\ ~Processing(j)' /\ ~Leaving(j)' /\ ~Reporting(j)'
         \/ ~Queued(j)' /\ Processing(j)' /\ ~Leaving(j)' /\ ~Reporting(j)'
         \/ ~Queued(j)' /\ ~Processing(j)' /\ Leaving(j)' /\ ~Reporting(j)'
         \/ ~Queued(j)' /\ ~Processing(j)' /\ ~Leaving(j)' /\ Reporting(j)',
         enqueued'[j] = enqueued[j], finished'[j] = finished[j]
  PROVE  enqueued'[j] = finished'[j] + Places(j)' /\ Places(j)' <= 1
<1>1. enqueued[j] = finished[j] + 1
  BY InPlace
<1>2. Places(j)' = 1
  BY DEF Places, One
<1> QED
  BY <1>1, <1>2

LEMMA ReportedPlace ==
  ASSUME TypeOK, OneFinishedPerRequest, NEW j \in Jobs,
         Queued(j) \/ Processing(j) \/ Leaving(j) \/ Reporting(j),
         ~Queued(j)', ~Processing(j)', ~Leaving(j)', ~Reporting(j)',
         enqueued'[j] = enqueued[j], finished'[j] = finished[j] + 1
  PROVE  /\ enqueued'[j] = finished'[j] + Places(j)' /\ Places(j)' <= 1
         /\ finished'[j] \in 0..MaxRuns
<1>1. enqueued[j] = finished[j] + 1 /\ enqueued[j] \in 0..MaxRuns /\ finished[j] \in 0..MaxRuns
  BY InPlace
<1>2. Places(j)' = 0
  BY DEF Places, One
<1> QED
  BY <1>1, <1>2, BoundsAssumption

\* Steps that move no request.
LEMMA QuietStep ==
  ASSUME Counted,
         UNCHANGED <<queue, leftovers, request, enqueued, finished, uiJob>>,
         pc' \in ProcessPcs <=> pc \in ProcessPcs,
         uiPc' = "report" <=> uiPc = "report",
         pc' = "locked" => queue # <<>>,
         pc' # "leftovers" => leftovers = <<>>
  PROVE  OneFinishedPerRequest' /\ PlacesInv'
<1>1. ASSUME NEW j \in Jobs
      PROVE  enqueued'[j] = finished'[j] + Places(j)' /\ Places(j)' <= 1
  <2>1. Queued(j)' <=> Queued(j)
    BY DEF Queued
  <2>2. Processing(j)' <=> Processing(j)
    BY DEF Processing
  <2>3. Leaving(j)' <=> Leaving(j)
    BY DEF Leaving
  <2>4. Reporting(j)' <=> Reporting(j)
    BY DEF Reporting
  <2> QED
    BY <2>1, <2>2, <2>3, <2>4, SamePlaces DEF Counted
<1>2. PlacesInv'
  BY DEF Counted, PlacesInv
<1> QED
  BY <1>1, <1>2 DEF OneFinishedPerRequest

LEMMA EnqueueCounted == Counted /\ (\E j \in Jobs : Enqueue(j)) => OneFinishedPerRequest' /\ PlacesInv'
<1> SUFFICES ASSUME Counted, NEW j \in Jobs, Enqueue(j) PROVE OneFinishedPerRequest' /\ PlacesInv'
  OBVIOUS
<1>1. TypeOK /\ OneFinishedPerRequest /\ PlacesInv
  BY DEF Counted
<1>2. ~Queued(j) /\ ~Processing(j) /\ ~Leaving(j) /\ ~Reporting(j)
  BY <1>1, InPlace DEF Enqueue
<1>3. /\ NoDup(queue')
      /\ \A x : Contains(queue', x) <=> Contains(queue, x) \/ x = j
  <2>1. queue \in Seq(Jobs) /\ NoDup(queue) /\ ~Contains(queue, j)
    BY <1>1, <1>2 DEF TypeOK, PlacesInv, Queued
  <2> QED
    BY <2>1, ContainsAppend DEF Enqueue
<1>4. ASSUME NEW k \in Jobs
      PROVE  enqueued'[k] = finished'[k] + Places(k)' /\ Places(k)' <= 1
  <2>1. Processing(k)' <=> Processing(k)
    BY DEF Enqueue, Processing, workerVars
  <2>2. Leaving(k)' <=> Leaving(k)
    BY DEF Enqueue, Leaving, workerVars
  <2>3. ~Reporting(k) /\ ~Reporting(k)'
    BY DEF Enqueue, Reporting
  <2>4. Queued(k)' <=> Queued(k) \/ k = j
    BY <1>3 DEF Queued
  <2>5. CASE k = j
    <3>1. Places(k)' = 1
      BY <1>2, <2>1, <2>2, <2>3, <2>4, <2>5 DEF Places, One
    <3>2. enqueued'[k] = enqueued[k] + 1 /\ enqueued[k] = finished[k] /\ finished'[k] = finished[k]
      BY <1>1, <2>5 DEF Enqueue, TypeOK
    <3>3. finished[k] \in Nat
      BY <1>1, InPlace, BoundsAssumption
    <3> QED
      BY <3>1, <3>2, <3>3
  <2>6. CASE k # j
    <3>1. enqueued'[k] = enqueued[k] /\ finished'[k] = finished[k]
      BY <1>1, <2>6 DEF Enqueue, TypeOK
    <3> QED
      BY <1>1, <2>1, <2>2, <2>3, <2>4, <2>6, <3>1, SamePlaces
  <2> QED
    BY <2>5, <2>6
<1>5. PlacesInv'
  <2>1. UNCHANGED <<pc, request, leftovers>> /\ pc # "locked" /\ uiPc' = "wake"
    BY DEF Enqueue, LockFree, workerVars
  <2> QED
    BY <1>1, <1>3, <2>1 DEF PlacesInv
<1> QED
  BY <1>4, <1>5 DEF OneFinishedPerRequest

\* In a queue without duplicates the request find_if finds is the only one.
LEMMA FirstIsJob ==
  ASSUME TypeOK, NoDup(queue), NEW j, Contains(queue, j)
  PROVE  FirstRequest(j) \in 1..Len(queue) /\ queue[FirstRequest(j)] = j
<1>1. Len(queue) \in Nat /\ DOMAIN queue = 1..Len(queue)
  BY LenProperties DEF TypeOK
<1>2. PICK i \in 1..Len(queue) : queue[i] = j
  BY DEF Contains
<1>3. \A k \in 1..(i - 1) : queue[k] # j
  BY <1>1, <1>2 DEF NoDup
<1> QED
  BY <1>1, <1>2, <1>3 DEF FirstRequest

LEMMA CancelQueuedCounted ==
  Counted /\ (\E j \in Jobs : CancelQueued(j)) => OneFinishedPerRequest' /\ PlacesInv'
<1> SUFFICES ASSUME Counted, NEW j \in Jobs, CancelQueued(j)
             PROVE  OneFinishedPerRequest' /\ PlacesInv'
  OBVIOUS
<1>1. TypeOK /\ OneFinishedPerRequest /\ PlacesInv
  BY DEF Counted
<1>2. Queued(j) /\ ~Processing(j) /\ ~Leaving(j) /\ ~Reporting(j)
  BY <1>1, InPlace DEF CancelQueued, Queued
<1>3. /\ NoDup(queue')
      /\ \A x : Contains(queue', x) <=> Contains(queue, x) /\ x # j
  <2>1. queue \in Seq(Jobs) /\ NoDup(queue)
    BY <1>1 DEF TypeOK, PlacesInv
  <2>2. FirstRequest(j) \in 1..Len(queue) /\ queue[FirstRequest(j)] = j
    BY <1>1, <1>2, <2>1, FirstIsJob DEF Queued
  <2> QED
    BY <2>1, <2>2, ContainsRemove DEF CancelQueued
<1>4. ASSUME NEW k \in Jobs
      PROVE  enqueued'[k] = finished'[k] + Places(k)' /\ Places(k)' <= 1
  <2>1. Processing(k)' <=> Processing(k)
    BY DEF CancelQueued, Processing, workerVars
  <2>2. Leaving(k)' <=> Leaving(k)
    BY DEF CancelQueued, Leaving, workerVars
  <2>3. ~Reporting(k) /\ (Reporting(k)' <=> k = j)
    BY DEF CancelQueued, Reporting
  <2>4. Queued(k)' <=> Queued(k) /\ k # j
    BY <1>3 DEF Queued
  <2>5. enqueued'[k] = enqueued[k] /\ finished'[k] = finished[k]
    BY DEF CancelQueued
  <2>6. CASE k = j
    BY <1>1, <1>2, <2>1, <2>2, <2>3, <2>4, <2>5, <2>6, MovedPlace
  <2>7. CASE k # j
    BY <1>1, <2>1, <2>2, <2>3, <2>4, <2>5, <2>7, SamePlaces
  <2> QED
    BY <2>6, <2>7
<1>5. PlacesInv'
  <2>1. UNCHANGED <<pc, request, leftovers>> /\ pc # "locked" /\ uiJob' = j
    BY DEF CancelQueued, LockFree, workerVars
  <2> QED
    BY <1>1, <1>3, <2>1 DEF PlacesInv
<1> QED
  BY <1>4, <1>5 DEF OneFinishedPerRequest

\* finalizeOutput moves to a name of the job's family.
LEMMA TargetInNames == ASSUME TypeOK, NEW j \in Jobs PROVE TargetName(j) \in Names
<1> DEFINE free == {n \in Names : final[j][n] = "none"}
<1>1. CASE free = {}
  BY <1>1, BoundsAssumption DEF TargetName, Names
<1>2. CASE free # {}
  <2>1. free \subseteq Nat
    BY BoundsAssumption DEF Names
  <2> DEFINE less == OpToRel(<, Nat)
  <2>2. \A x, y \in Nat : <<y, x>> \in less <=> y < x
    BY DEF OpToRel
  <2>3. IsWellFoundedOn(less, Nat)
    BY NatLessThanWellFounded
  <2> HIDE DEF less, free
  <2>4. PICK x \in free : \A y \in free : ~(<<y, x>> \in less)
    BY <1>2, <2>1, <2>3, WFMin
  <2>5. ASSUME NEW y \in free PROVE x <= y
    <3>1. x \in Nat /\ y \in Nat
      BY <2>1
    <3>2. ~(y < x)
      BY <2>2, <2>4, <3>1
    <3> QED
      BY <3>1, <3>2
  <2> QED
    BY <1>2, <2>5 DEF TargetName, free
<1> QED
  BY <1>1, <1>2

\* "Cancelled before start" is the Finished event of the request it names.
LEMMA CancelReportCounted ==
  Counted /\ CancelReport => /\ OneFinishedPerRequest' /\ PlacesInv'
                             /\ finished' \in [Jobs -> 0..MaxRuns]
<1> SUFFICES ASSUME Counted, CancelReport
             PROVE  /\ OneFinishedPerRequest' /\ PlacesInv'
                    /\ finished' \in [Jobs -> 0..MaxRuns]
  OBVIOUS
<1>1. TypeOK /\ OneFinishedPerRequest /\ PlacesInv /\ uiJob \in Jobs
  BY DEF Counted, PlacesInv, CancelReport
<1>2. /\ UNCHANGED <<queue, pc, request, leftovers, uiJob, enqueued>>
      /\ uiPc = "report" /\ uiPc' = "ready"
      /\ finished' = [finished EXCEPT ![uiJob] = @ + 1]
  BY DEF CancelReport, Report, sharedVars, workerVars
<1>3. ASSUME NEW k \in Jobs
      PROVE  /\ enqueued'[k] = finished'[k] + Places(k)' /\ Places(k)' <= 1
             /\ finished'[k] \in 0..MaxRuns
  <2>1. Queued(k)' <=> Queued(k)
    BY <1>2 DEF Queued
  <2>2. Processing(k)' <=> Processing(k)
    BY <1>2 DEF Processing
  <2>3. Leaving(k)' <=> Leaving(k)
    BY <1>2 DEF Leaving
  <2>4. ~Reporting(k)' /\ (Reporting(k) <=> k = uiJob)
    BY <1>2 DEF Reporting
  <2>5. finished'[k] = IF k = uiJob THEN finished[k] + 1 ELSE finished[k]
    BY <1>1, <1>2 DEF TypeOK
  <2>6. CASE k = uiJob
    <3>1. ~Queued(k) /\ ~Processing(k) /\ ~Leaving(k)
      BY <1>1, <2>4, <2>6, InPlace
    <3> QED
      BY <1>1, <1>2, <2>1, <2>2, <2>3, <2>4, <2>5, <2>6, <3>1, ReportedPlace
  <2>7. CASE k # uiJob
    <3>1. enqueued'[k] = finished'[k] + Places(k)' /\ Places(k)' <= 1
      BY <1>1, <1>2, <2>1, <2>2, <2>3, <2>4, <2>5, <2>7, SamePlaces
    <3> QED
      BY <1>1, <2>5, <2>7, <3>1, InPlace
  <2> QED
    BY <2>6, <2>7
<1>4. finished' \in [Jobs -> 0..MaxRuns]
  BY <1>1, <1>2, <1>3 DEF TypeOK
<1>5. PlacesInv'
  BY <1>1, <1>2 DEF PlacesInv
<1> QED
  BY <1>3, <1>4, <1>5 DEF OneFinishedPerRequest

\* The worker takes the request at the head of the queue.
LEMMA PopCounted == Counted /\ Pop => OneFinishedPerRequest' /\ PlacesInv'
<1> SUFFICES ASSUME Counted, Pop PROVE OneFinishedPerRequest' /\ PlacesInv'
  OBVIOUS
<1>1. TypeOK /\ OneFinishedPerRequest /\ PlacesInv
  BY DEF Counted
<1>2. CASE stopEvent
  BY <1>1, <1>2, QuietStep, Pcs DEF Pop, PlacesInv, uiVars, historyVars
<1>3. CASE ~stopEvent
  <2> DEFINE h == Head(queue)
  <2>1. /\ queue' = Tail(queue) /\ request' = h /\ pc = "locked" /\ pc' = "sanity"
        /\ UNCHANGED <<leftovers, uiPc, uiJob, enqueued, finished>>
    BY <1>3 DEF Pop, uiVars, historyVars
  <2>2. /\ h \in Jobs /\ Contains(queue, h) /\ NoDup(queue')
        /\ \A x : Contains(queue', x) <=> Contains(queue, x) /\ x # h
    <3>1. queue \in Seq(Jobs) /\ NoDup(queue) /\ queue # <<>>
      BY <1>1, <2>1 DEF TypeOK, PlacesInv
    <3> QED
      BY <2>1, <3>1, ContainsTail
  <2> HIDE DEF h
  <2>3. ASSUME NEW k \in Jobs
        PROVE  enqueued'[k] = finished'[k] + Places(k)' /\ Places(k)' <= 1
    <3>1. Queued(k)' <=> Queued(k) /\ k # h
      BY <2>2 DEF Queued
    <3>2. ~Processing(k) /\ (Processing(k)' <=> k = h)
      BY <2>1, Pcs DEF Processing
    <3>3. Leaving(k)' <=> Leaving(k)
      BY <2>1 DEF Leaving
    <3>4. Reporting(k)' <=> Reporting(k)
      BY <2>1 DEF Reporting
    <3>5. CASE k = h
      <4>1. Queued(k) /\ ~Leaving(k) /\ ~Reporting(k)
        BY <1>1, <2>2, <3>5, InPlace DEF Queued
      <4> QED
        BY <1>1, <2>1, <3>1, <3>2, <3>3, <3>4, <3>5, <4>1, MovedPlace
    <3>6. CASE k # h
      BY <1>1, <2>1, <3>1, <3>2, <3>3, <3>4, <3>6, SamePlaces
    <3> QED
      BY <3>5, <3>6
  <2>4. PlacesInv'
    BY <1>1, <2>1, <2>2 DEF PlacesInv
  <2> QED
    BY <2>3, <2>4 DEF OneFinishedPerRequest
<1> QED
  BY <1>2, <1>3

\* The requests that still wait are swapped out of the queue.
LEMMA AfterDrainCounted == Counted /\ AfterDrain => OneFinishedPerRequest' /\ PlacesInv'
<1> SUFFICES ASSUME Counted, AfterDrain PROVE OneFinishedPerRequest' /\ PlacesInv'
  OBVIOUS
<1>1. TypeOK /\ OneFinishedPerRequest /\ PlacesInv
  BY DEF Counted
<1>2. CASE ~stopEvent
  BY <1>1, <1>2, QuietStep, Pcs DEF AfterDrain, PlacesInv, uiVars, historyVars
<1>3. CASE stopEvent
  <2>1. /\ leftovers' = queue /\ queue' = <<>> /\ pc = "afterDrain" /\ pc' = "leftovers"
        /\ UNCHANGED <<request, uiPc, uiJob, enqueued, finished>>
    BY <1>3 DEF AfterDrain, uiVars, historyVars
  <2>2. leftovers = <<>>
    BY <1>1, <2>1 DEF PlacesInv
  <2>3. \A x : ~Contains(<<>>, x)
    BY DEF Contains
  <2>4. ASSUME NEW k \in Jobs
        PROVE  enqueued'[k] = finished'[k] + Places(k)' /\ Places(k)' <= 1
    <3>1. ~Queued(k)' /\ ~Leaving(k) /\ (Leaving(k)' <=> Queued(k))
      BY <2>1, <2>2, <2>3 DEF Queued, Leaving
    <3>2. ~Processing(k) /\ ~Processing(k)'
      BY <2>1, Pcs DEF Processing
    <3>3. Reporting(k)' <=> Reporting(k)
      BY <2>1 DEF Reporting
    <3>4. CASE Queued(k)
      <4>1. ~Reporting(k)
        BY <1>1, <3>4, InPlace
      <4> QED
        BY <1>1, <2>1, <3>1, <3>2, <3>3, <3>4, <4>1, MovedPlace
    <3>5. CASE ~Queued(k)
      BY <1>1, <2>1, <3>1, <3>2, <3>3, <3>5, SamePlaces
    <3> QED
      BY <3>4, <3>5
  <2>5. PlacesInv'
    BY <1>1, <2>1, Pcs DEF PlacesInv, NoDup
  <2> QED
    BY <2>4, <2>5 DEF OneFinishedPerRequest
<1> QED
  BY <1>2, <1>3

\* On the way out the worker reports the requests it swapped out.
LEMMA ReportLeftoverCounted ==
  Counted /\ ReportLeftover => /\ OneFinishedPerRequest' /\ PlacesInv'
                               /\ finished' \in [Jobs -> 0..MaxRuns]
<1> SUFFICES ASSUME Counted, ReportLeftover
             PROVE  /\ OneFinishedPerRequest' /\ PlacesInv'
                    /\ finished' \in [Jobs -> 0..MaxRuns]
  OBVIOUS
<1>1. TypeOK /\ OneFinishedPerRequest /\ PlacesInv
  BY DEF Counted
<1>2. CASE leftovers = <<>>
  <2>1. OneFinishedPerRequest' /\ PlacesInv'
    BY <1>1, <1>2, QuietStep, Pcs DEF ReportLeftover, PlacesInv, sharedVars, uiVars
  <2> QED
    BY <1>1, <1>2, <2>1 DEF ReportLeftover, TypeOK
<1>3. CASE leftovers # <<>>
  <2> DEFINE h == Head(leftovers)
  <2>1. /\ leftovers' = Tail(leftovers) /\ finished' = [finished EXCEPT ![h] = @ + 1]
        /\ pc = "leftovers" /\ UNCHANGED <<pc, queue, request, uiPc, uiJob, enqueued>>
    BY <1>3 DEF ReportLeftover, Report, sharedVars, uiVars
  <2>2. /\ h \in Jobs /\ Contains(leftovers, h) /\ NoDup(leftovers')
        /\ \A x : Contains(leftovers', x) <=> Contains(leftovers, x) /\ x # h
    <3>1. leftovers \in Seq(Jobs) /\ NoDup(leftovers)
      BY <1>1 DEF TypeOK, PlacesInv
    <3> QED
      BY <1>3, <2>1, <3>1, ContainsTail
  <2> HIDE DEF h
  <2>3. ASSUME NEW k \in Jobs
        PROVE  /\ enqueued'[k] = finished'[k] + Places(k)' /\ Places(k)' <= 1
               /\ finished'[k] \in 0..MaxRuns
    <3>1. Queued(k)' <=> Queued(k)
      BY <2>1 DEF Queued
    <3>2. Processing(k)' <=> Processing(k)
      BY <2>1 DEF Processing
    <3>3. Leaving(k)' <=> Leaving(k) /\ k # h
      BY <2>2 DEF Leaving
    <3>4. Reporting(k)' <=> Reporting(k)
      BY <2>1 DEF Reporting
    <3>5. finished'[k] = IF k = h THEN finished[k] + 1 ELSE finished[k]
      BY <1>1, <2>1 DEF TypeOK
    <3>6. CASE k = h
      <4>1. Leaving(k) /\ ~Queued(k) /\ ~Processing(k) /\ ~Reporting(k)
        BY <1>1, <2>2, <3>6, InPlace DEF Leaving
      <4> QED
        BY <1>1, <2>1, <3>1, <3>2, <3>3, <3>4, <3>5, <3>6, <4>1, ReportedPlace
    <3>7. CASE k # h
      <4>1. enqueued'[k] = finished'[k] + Places(k)' /\ Places(k)' <= 1
        BY <1>1, <2>1, <3>1, <3>2, <3>3, <3>4, <3>5, <3>7, SamePlaces
      <4> QED
        BY <1>1, <3>5, <3>7, <4>1, InPlace
    <3> QED
      BY <3>6, <3>7
  <2>4. finished' \in [Jobs -> 0..MaxRuns]
    BY <1>1, <2>1, <2>3 DEF TypeOK
  <2>5. PlacesInv'
    BY <1>1, <2>1, <2>2 DEF PlacesInv
  <2> QED
    BY <2>3, <2>4, <2>5 DEF OneFinishedPerRequest
<1> QED
  BY <1>2, <1>3

\* process() reports its request: by itself, or an exception has ended it.
LEMMA PostFinishedCounted ==
  Counted /\ (PostFinished \/ Throws) => /\ OneFinishedPerRequest' /\ PlacesInv'
                                         /\ finished' \in [Jobs -> 0..MaxRuns]
<1> SUFFICES ASSUME Counted, PostFinished \/ Throws
             PROVE  /\ OneFinishedPerRequest' /\ PlacesInv'
                    /\ finished' \in [Jobs -> 0..MaxRuns]
  OBVIOUS
<1>1. TypeOK /\ OneFinishedPerRequest /\ PlacesInv
  BY DEF Counted
<1>2. /\ finished' = [finished EXCEPT ![request] = @ + 1]
      /\ pc \in ProcessPcs /\ pc' = "release"
      /\ UNCHANGED <<queue, request, leftovers, uiPc, uiJob, enqueued>>
  BY Pcs DEF PostFinished, Throws, Report, sharedVars, uiVars
<1>3. request \in Jobs
  BY <1>1, <1>2, Pcs DEF PlacesInv
<1>4. ASSUME NEW k \in Jobs
      PROVE  /\ enqueued'[k] = finished'[k] + Places(k)' /\ Places(k)' <= 1
             /\ finished'[k] \in 0..MaxRuns
  <2>1. Queued(k)' <=> Queued(k)
    BY <1>2 DEF Queued
  <2>2. ~Processing(k)' /\ (Processing(k) <=> k = request)
    BY <1>2, Pcs DEF Processing
  <2>3. Leaving(k)' <=> Leaving(k)
    BY <1>2 DEF Leaving
  <2>4. Reporting(k)' <=> Reporting(k)
    BY <1>2 DEF Reporting
  <2>5. finished'[k] = IF k = request THEN finished[k] + 1 ELSE finished[k]
    BY <1>1, <1>2 DEF TypeOK
  <2>6. CASE k = request
    <3>1. ~Queued(k) /\ ~Leaving(k) /\ ~Reporting(k)
      BY <1>1, <2>2, <2>6, InPlace
    <3> QED
      BY <1>1, <1>2, <2>1, <2>2, <2>3, <2>4, <2>5, <2>6, <3>1, ReportedPlace
  <2>7. CASE k # request
    <3>1. enqueued'[k] = finished'[k] + Places(k)' /\ Places(k)' <= 1
      BY <1>1, <1>2, <2>1, <2>2, <2>3, <2>4, <2>5, <2>7, SamePlaces
    <3> QED
      BY <1>1, <2>5, <2>7, <3>1, InPlace
  <2> QED
    BY <2>6, <2>7
<1>5. finished' \in [Jobs -> 0..MaxRuns]
  BY <1>1, <1>2, <1>4 DEF TypeOK
<1>6. PlacesInv'
  BY <1>1, <1>2, <1>3, Pcs DEF PlacesInv
<1> QED
  BY <1>4, <1>5, <1>6 DEF OneFinishedPerRequest

-----------------------------------------------------------------------------
(* Type correctness and the count, action by action *)

\* What every action of a client keeps: it is not in the way of the worker.
LEMMA UITyped ==
  ASSUME Counted,
         \/ \E j \in Jobs : Enqueue(j) \/ CancelRunning(j) \/ CancelQueued(j)
         \/ Stop \/ UIStep
  PROVE  TypeOK'
<1> USE DEF TypeOK, UIPcs
<1>1. TypeOK /\ OneFinishedPerRequest /\ PlacesInv
  BY DEF Counted
<1>2. ASSUME NEW j \in Jobs, Enqueue(j) PROVE TypeOK'
  <2>1. queue' \in Seq(Jobs)
    BY <1>1, <1>2, AppendProperties DEF Enqueue
  <2>2. enqueued' \in [Jobs -> 0..MaxRuns]
    BY <1>1, <1>2, BoundsAssumption DEF Enqueue
  <2>3. plan' \in [Jobs -> Plans]
    BY <1>1, <1>2 DEF Enqueue
  <2> QED
    BY <1>1, <1>2, <2>1, <2>2, <2>3 DEF Enqueue, workerVars, diskVars
<1>3. ASSUME NEW j \in Jobs, CancelRunning(j) PROVE TypeOK'
  BY <1>1, <1>3 DEF CancelRunning, AskedNow, workerVars, uiVars, diskVars
<1>4. ASSUME NEW j \in Jobs, CancelQueued(j) PROVE TypeOK'
  <2>1. FirstRequest(j) \in 1..Len(queue) /\ queue \in Seq(Jobs) /\ NoDup(queue)
    BY <1>1, <1>4, FirstIsJob DEF CancelQueued, PlacesInv
  <2>2. queue' \in Seq(Jobs)
    BY <1>4, <2>1, ContainsRemove DEF CancelQueued
  <2> QED
    BY <1>1, <1>4, <2>2 DEF CancelQueued, workerVars, diskVars
<1>5. CASE Stop
  BY <1>1, <1>5 DEF Stop, workerVars, diskVars, historyVars
<1>6. CASE EnqueueWake
  BY <1>1, <1>6 DEF EnqueueWake, workerVars, diskVars, historyVars
<1>7. CASE CancelReport
  <2>1. finished' \in [Jobs -> 0..MaxRuns]
    BY <1>7, CancelReportCounted
  <2>2. last' \in [Jobs -> Outcomes]
    BY <1>1, <1>7 DEF CancelReport, Report, Outcomes
  <2> QED
    BY <1>1, <1>7, <2>1, <2>2 DEF CancelReport, sharedVars, workerVars, diskVars
<1>8. CASE StopCancel
  BY <1>1, <1>8 DEF StopCancel, workerVars, diskVars, historyVars
<1>9. CASE StopWake
  BY <1>1, <1>9 DEF StopWake, workerVars, diskVars, historyVars
<1>10. CASE StopJoin
  BY <1>1, <1>10 DEF StopJoin, sharedVars, workerVars, diskVars, historyVars
<1> QED
  BY <1>2, <1>3, <1>4, <1>5, <1>6, <1>7, <1>8, <1>9, <1>10 DEF UIStep

LEMMA LoopTyped == ASSUME Counted, LoopStep PROVE TypeOK'
<1> USE DEF TypeOK, LoopPcs
<1>1. TypeOK /\ OneFinishedPerRequest /\ PlacesInv
  BY DEF Counted
<1>2. CASE LoopTop
  BY <1>1, <1>2 DEF LoopTop, sharedVars, uiVars, diskVars, historyVars
<1>3. CASE PopNothing
  BY <1>1, <1>3 DEF PopNothing, sharedVars, uiVars, diskVars, historyVars
<1>4. CASE PopReset
  BY <1>1, <1>4 DEF PopReset, uiVars, diskVars, historyVars
<1>5. CASE Pop
  <2>1. queue # <<>> => Head(queue) \in Jobs /\ Tail(queue) \in Seq(Jobs)
    BY <1>1, HeadTailProperties
  <2>2. /\ pc' \in ProcessPcs \cup LoopPcs /\ queue' \in Seq(Jobs)
        /\ request' \in Jobs \cup {NoJob} /\ current' \in Jobs \cup {NoJob}
    BY <1>1, <1>5, <2>1, Pcs DEF Pop, PlacesInv
  <2> QED
    BY <1>1, <1>5, <2>2 DEF Pop, uiVars, diskVars, historyVars
<1>6. CASE Release
  BY <1>1, <1>6 DEF Release, uiVars, diskVars, historyVars
<1>7. CASE AfterDrain
  <2>1. leftovers' \in Seq(Jobs) /\ queue' \in Seq(Jobs) /\ pc' \in LoopPcs
    BY <1>1, <1>7, EmptySeq DEF AfterDrain
  <2> QED
    BY <1>1, <1>7, <2>1 DEF AfterDrain, uiVars, diskVars, historyVars
<1>8. CASE ReportLeftover
  <2>1. finished' \in [Jobs -> 0..MaxRuns]
    BY <1>8, ReportLeftoverCounted
  <2>2. CASE leftovers = <<>>
    BY <1>1, <1>8, <2>2 DEF ReportLeftover, sharedVars, uiVars, diskVars
  <2>3. CASE leftovers # <<>>
    <3>1. leftovers' \in Seq(Jobs)
      BY <1>1, <1>8, <2>3, HeadTailProperties, ZenonT(60) DEF ReportLeftover
    <3>2. last' \in [Jobs -> Outcomes]
      BY <1>1, <1>8, <2>3 DEF ReportLeftover, Report, Outcomes
    <3> QED
      BY <1>1, <1>8, <2>1, <2>3, <3>1, <3>2 DEF ReportLeftover, sharedVars, uiVars, diskVars
  <2> QED
    BY <2>2, <2>3
<1>9. CASE IdleWait
  BY <1>1, <1>9 DEF IdleWait, uiVars, diskVars, historyVars
<1> QED
  BY <1>2, <1>3, <1>4, <1>5, <1>6, <1>7, <1>8, <1>9 DEF LoopStep

LEMMA ProcessTyped == ASSUME Counted, ProcessStep PROVE TypeOK'
<1> USE DEF TypeOK, Finish
<1>1. TypeOK /\ OneFinishedPerRequest /\ PlacesInv
  BY DEF Counted
<1>2. pc \in ProcessPcs => request \in Jobs
  BY <1>1 DEF PlacesInv
<1>3. Outcomes = {"none", "Done", "Failed", "Cancelled"}
      /\ Content = {"none", "foreign", "broken", "whole"}
  BY DEF Outcomes, Content
<1>4. ASSUME NEW s \in StageSet, StagePasses(s) PROVE TypeOK'
  <2>1. pc' \in ProcessPcs
    BY <1>4, Pcs DEF StagePasses
  <2>2. partial' \in [Jobs -> Content] /\ excused' \subseteq Jobs
    <3>1. request \in Jobs
      BY <1>2, <1>4, Pcs DEF StagePasses, StageSet
    <3> QED
      BY <1>1, <1>3, <1>4, <3>1 DEF StagePasses, PartialGone, PartialStays
  <2> QED
    BY <1>1, <1>4, <2>1, <2>2 DEF StagePasses, sharedVars, uiVars
<1>5. ASSUME NEW s \in StageSet, StageFails(s) PROVE TypeOK'
  BY <1>1, <1>3, <1>5, Pcs DEF StageFails, sharedVars, uiVars, diskVars, historyVars
<1>6. ASSUME NEW c \in DOMAIN After, CheckCancel(c) PROVE TypeOK'
  <2>1. pc' \in ProcessPcs /\ outcome' \in Outcomes
    BY <1>1, <1>3, <1>6, Pcs DEF CheckCancel
  <2> QED
    BY <1>1, <1>6, <2>1 DEF CheckCancel, sharedVars, uiVars, diskVars, historyVars
<1>7. CASE Launch
  <2>1. pc' \in ProcessPcs /\ outcome' \in Outcomes
    BY <1>1, <1>3, <1>7, Pcs DEF Launch
  <2>2. partial' \in [Jobs -> Content]
    BY <1>1, <1>2, <1>3, <1>7, Pcs DEF Launch
  <2> QED
    BY <1>1, <1>7, <2>1, <2>2 DEF Launch, sharedVars, uiVars, historyVars
<1>8. CASE RunCancelled
  BY <1>1, <1>3, <1>8, Pcs DEF RunCancelled, sharedVars, uiVars, diskVars, historyVars
<1>9. CASE RunFails
  BY <1>1, <1>3, <1>9, Pcs DEF RunFails, sharedVars, uiVars, diskVars, historyVars
<1>10. CASE RunDone
  <2>1. partial' \in [Jobs -> Content]
    BY <1>1, <1>2, <1>3, <1>10, Pcs DEF RunDone
  <2> QED
    BY <1>1, <1>10, <2>1, Pcs DEF RunDone, sharedVars, uiVars, historyVars
<1>11. CASE Verify
  BY <1>1, <1>3, <1>11, Pcs DEF Verify, sharedVars, uiVars, diskVars, historyVars
<1>12. CASE Finalize
  <2>1. TargetName(request) \in Names /\ 0 \in Names
    BY <1>1, <1>2, <1>12, Pcs, TargetInNames, BoundsAssumption DEF Finalize, Names
  <2>2. pc' \in ProcessPcs /\ outcome' \in Outcomes /\ target' \in Names
    BY <1>1, <1>3, <1>12, <2>1, Pcs DEF Finalize
  <2> QED
    BY <1>1, <1>12, <2>2 DEF Finalize, sharedVars, uiVars, diskVars, historyVars
<1>13. CASE Move
  <2>1. request \in Jobs /\ target \in Names /\ partial[request] \in Content
    BY <1>1, <1>2, <1>13, Pcs DEF Move
  <2>2. final' \in [Jobs -> [Names -> Content]]
    <3>1. final' = [final EXCEPT ![request] = [final[request] EXCEPT ![target] = partial[request]]]
      BY <1>13 DEF Move, MoveToTarget
    <3> QED
      BY <1>1, <2>1, <3>1
  <2>3. partial' \in [Jobs -> Content] /\ outcome' \in Outcomes /\ pc' \in ProcessPcs
    BY <1>1, <1>3, <1>13, <2>1, Pcs DEF Move, MoveToTarget
  <2> QED
    BY <1>1, <1>13, <2>2, <2>3 DEF Move, MoveToTarget, sharedVars, uiVars, historyVars
<1>14. CASE MoveFails
  BY <1>1, <1>3, <1>14, Pcs DEF MoveFails, sharedVars, uiVars, diskVars, historyVars
<1>15. CASE Discard
  <2>1. partial' \in [Jobs -> Content] /\ excused' \subseteq Jobs
    BY <1>1, <1>2, <1>3, <1>15, Pcs DEF Discard, PartialGone, PartialStays
  <2> QED
    BY <1>1, <1>15, <2>1, Pcs DEF Discard, sharedVars, uiVars
<1>16. CASE PostFinished
  <2>1. finished' \in [Jobs -> 0..MaxRuns]
    BY <1>16, PostFinishedCounted
  <2>2. last' \in [Jobs -> Outcomes] /\ pc' \in LoopPcs
    BY <1>1, <1>16 DEF PostFinished, Report, LoopPcs
  <2> QED
    BY <1>1, <1>16, <2>1, <2>2 DEF PostFinished, sharedVars, uiVars, diskVars
<1>17. CASE Throws
  <2>1. finished' \in [Jobs -> 0..MaxRuns]
    BY <1>17, PostFinishedCounted
  <2>2. last' \in [Jobs -> Outcomes] /\ pc' \in LoopPcs
    BY <1>1, <1>3, <1>17 DEF Throws, Report, LoopPcs
  <2>3. partial' \in [Jobs -> Content] /\ excused' \subseteq Jobs
    BY <1>1, <1>2, <1>17 DEF Throws, PartialStays
  <2> QED
    BY <1>1, <1>17, <2>1, <2>2, <2>3 DEF Throws, sharedVars, uiVars
<1> QED
  BY <1>4, <1>5, <1>6, <1>7, <1>8, <1>9, <1>10, <1>11, <1>12, <1>13, <1>14, <1>15, <1>16, <1>17
     DEF ProcessStep

LEMMA ForeignTyped ==
  ASSUME TypeOK, NEW j \in Jobs, NEW n \in Names, ForeignFile(j, n)
  PROVE  TypeOK'
<1>1. foreigners' \in 0..MaxForeign
  BY BoundsAssumption DEF TypeOK, ForeignFile
<1>2. final' \in [Jobs -> [Names -> Content]]
  <2>1. final' = [final EXCEPT ![j] = [final[j] EXCEPT ![n] = "foreign"]]
    BY DEF ForeignFile
  <2> QED
    BY <2>1 DEF TypeOK, Content
<1> QED
  BY <1>1, <1>2 DEF TypeOK, ForeignFile, sharedVars, workerVars, uiVars, historyVars

\* The steps that leave the count alone.
LEMMA QuietActions ==
  ASSUME Counted,
         \/ \E j \in Jobs : CancelRunning(j)
         \/ Stop \/ EnqueueWake \/ StopCancel \/ StopWake \/ StopJoin
         \/ LoopTop \/ PopNothing \/ PopReset \/ Release \/ IdleWait
         \/ \E s \in StageSet : StagePasses(s) \/ StageFails(s)
         \/ \E c \in DOMAIN After : CheckCancel(c)
         \/ Launch \/ RunCancelled \/ RunFails \/ RunDone \/ Verify
         \/ Finalize \/ Move \/ MoveFails \/ Discard
         \/ \E j \in Jobs, n \in Names : ForeignFile(j, n)
         \/ UNCHANGED vars
  PROVE  OneFinishedPerRequest' /\ PlacesInv'
<1>1. PlacesInv
  BY DEF Counted
<1> DEFINE Kept == UNCHANGED <<queue, leftovers, request, enqueued, finished, uiJob>>
           UIKept == uiPc' = "report" <=> uiPc = "report"
<1>2. CASE \/ \E j \in Jobs : CancelRunning(j)
           \/ Stop \/ EnqueueWake \/ StopCancel \/ StopWake \/ StopJoin
           \/ \E j \in Jobs, n \in Names : ForeignFile(j, n)
           \/ UNCHANGED vars
  <2>1. Kept /\ UIKept /\ UNCHANGED pc
    BY <1>2 DEF CancelRunning, Stop, EnqueueWake, StopCancel, StopWake, StopJoin, ForeignFile,
                vars, sharedVars, workerVars, uiVars, historyVars
  <2> QED
    BY <1>1, <2>1, QuietStep DEF PlacesInv
<1>3. CASE LoopTop \/ PopNothing \/ PopReset \/ Release \/ IdleWait
  <2>1. Kept /\ UIKept
    BY <1>3 DEF LoopTop, PopNothing, PopReset, Release, IdleWait,
                sharedVars, uiVars, historyVars
  <2>2. pc \in LoopPcs \ {"leftovers"} /\ pc' \in LoopPcs /\ (pc' = "locked" => queue # <<>>)
    BY <1>3 DEF LoopTop, PopNothing, PopReset, Release, IdleWait, LoopPcs
  <2> QED
    BY <1>1, <2>1, <2>2, Pcs, QuietStep DEF PlacesInv, LoopPcs
<1>4. CASE \/ \E s \in StageSet : StagePasses(s) \/ StageFails(s)
           \/ \E c \in DOMAIN After : CheckCancel(c)
           \/ Launch \/ RunCancelled \/ RunFails \/ RunDone \/ Verify
           \/ Finalize \/ Move \/ MoveFails \/ Discard
  <2>1. Kept /\ UIKept
    BY <1>4 DEF StagePasses, StageFails, CheckCancel, Launch, RunCancelled, RunFails, RunDone,
                Verify, Finalize, Move, MoveFails, Discard, sharedVars, uiVars, historyVars
  <2>2. pc \in ProcessPcs /\ pc' \in ProcessPcs
    <3>1. pc' # "release"
      BY <1>4, Pcs DEF StagePasses, StageFails, CheckCancel, Launch, RunCancelled, RunFails,
                       RunDone, Verify, Finalize, Move, MoveFails, Discard, MoveToTarget, Finish
    <3> QED
      BY <1>4, <3>1, ProcessPcsStep DEF ProcessStep
  <2> QED
    BY <1>1, <2>1, <2>2, Pcs, QuietStep DEF PlacesInv
<1> QED
  BY <1>2, <1>3, <1>4

LEMMA CountedInit == Init => Counted
<1> SUFFICES ASSUME Init PROVE Counted
  OBVIOUS
<1>1. <<>> \in Seq(Jobs) /\ 0 \in Names /\ 0 \in 0..MaxRuns /\ 0 \in 0..MaxForeign
  BY EmptySeq, BoundsAssumption DEF Names
<1>2. TypeOK
  BY <1>1 DEF Init, TypeOK, LoopPcs, UIPcs, Outcomes, Content
<1>3. \A j \in Jobs : Places(j) = 0
  BY Pcs DEF Init, Places, One, Queued, Processing, Leaving, Reporting, Contains
<1>4. OneFinishedPerRequest
  BY <1>3 DEF Init, OneFinishedPerRequest
<1>5. PlacesInv
  BY Pcs DEF Init, PlacesInv, NoDup
<1> QED
  BY <1>2, <1>4, <1>5 DEF Counted

LEMMA CountedStep == Counted /\ [Next]_vars => Counted'
<1> SUFFICES ASSUME Counted, [Next]_vars PROVE Counted'
  OBVIOUS
<1>1. TypeOK'
  <2>1. CASE UNCHANGED vars
    BY <2>1 DEF Counted, TypeOK, vars, sharedVars, workerVars, uiVars, diskVars, historyVars
  <2>2. CASE \/ \E j \in Jobs : Enqueue(j) \/ CancelRunning(j) \/ CancelQueued(j)
             \/ Stop \/ UIStep
    BY <2>2, UITyped
  <2>3. CASE \E j \in Jobs, n \in Names : ForeignFile(j, n)
    BY <2>3, ForeignTyped DEF Counted
  <2> QED
    BY <2>1, <2>2, <2>3, LoopTyped, ProcessTyped DEF Next, WorkerStep
<1>2. OneFinishedPerRequest' /\ PlacesInv'
  BY EnqueueCounted, CancelQueuedCounted, CancelReportCounted, PopCounted, AfterDrainCounted,
     ReportLeftoverCounted, PostFinishedCounted, QuietActions
     DEF Next, UIStep, WorkerStep, LoopStep, ProcessStep
<1> QED
  BY <1>1, <1>2 DEF Counted

THEOREM AlwaysCounted == Spec => []Counted
<1>1. Init => Counted
  BY CountedInit
<1>2. Counted /\ [Next]_vars => Counted'
  BY CountedStep
<1> QED
  BY <1>1, <1>2, PTL DEF Spec

(* Every variable keeps its type; the Finished events of a job never        *)
(* outnumber its requests.                                                  *)
THEOREM TypeCorrect == Spec => []TypeOK
<1>1. Counted => TypeOK
  BY DEF Counted
<1> QED
  BY <1>1, AlwaysCounted, PTL

(* MuxWorker: between enqueue() and its Finished event a request is in      *)
(* exactly one place - queue_, the worker, the leftovers, or a cancel()     *)
(* that is reporting it - and afterwards in none.                           *)
THEOREM RequestsCounted == Spec => []OneFinishedPerRequest
<1>1. Counted => OneFinishedPerRequest
  BY DEF Counted
<1> QED
  BY <1>1, AlwaysCounted, PTL

-----------------------------------------------------------------------------
(* stop() *)

StopPcs == {"stopCancel", "stopWake", "join", "stopped"}

\* stop() has begun exactly when its event is set, and only then does the
\* thread leave; once it does, nothing is queued any more.
StopInv ==
    /\ stopEvent <=> uiPc \in StopPcs
    /\ running <=> ~stopEvent
    /\ pc \in {"leftovers", "exited"} => stopEvent /\ queue = <<>>
    /\ uiPc = "stopped" => pc = "exited"

LEMMA StopStep == Counted /\ StopInv /\ [Next]_vars => StopInv'
<1> SUFFICES ASSUME Counted, StopInv, [Next]_vars PROVE StopInv'
  OBVIOUS
<1> USE DEF StopInv, StopPcs
<1>1. CASE UNCHANGED vars
  BY <1>1 DEF vars, sharedVars, workerVars, uiVars
<1>2. ASSUME NEW j \in Jobs, Enqueue(j) PROVE StopInv'
  BY <1>2 DEF Enqueue, workerVars
<1>3. ASSUME NEW j \in Jobs, CancelRunning(j) PROVE StopInv'
  BY <1>3 DEF CancelRunning, workerVars, uiVars
<1>4. ASSUME NEW j \in Jobs, CancelQueued(j) PROVE StopInv'
  BY <1>4 DEF CancelQueued, workerVars
<1>5. CASE Stop
  BY <1>5 DEF Stop, workerVars
<1>6. CASE UIStep
  BY <1>6 DEF UIStep, EnqueueWake, CancelReport, StopCancel, StopWake, StopJoin,
              sharedVars, workerVars
<1>7. CASE LoopStep
  <2>1. CASE LoopTop
    BY <2>1 DEF LoopTop, sharedVars, uiVars
  <2>2. CASE PopNothing
    BY <2>2 DEF PopNothing, sharedVars, uiVars
  <2>3. CASE PopReset
    BY <2>3 DEF PopReset, uiVars
  <2>4. CASE Pop
    BY <2>4 DEF Pop, uiVars
  <2>5. CASE Release
    BY <2>5 DEF Release, uiVars
  <2>6. CASE AfterDrain
    BY <2>6 DEF AfterDrain, uiVars
  <2>7. CASE ReportLeftover
    BY <2>7 DEF ReportLeftover, sharedVars, uiVars
  <2>8. CASE IdleWait
    BY <2>8 DEF IdleWait, uiVars
  <2> QED
    BY <1>7, <2>1, <2>2, <2>3, <2>4, <2>5, <2>6, <2>7, <2>8 DEF LoopStep
<1>8. CASE ProcessStep
  <2>1. UNCHANGED <<sharedVars, uiVars>>
    BY <1>8 DEF ProcessStep, StagePasses, StageFails, CheckCancel, Launch, RunCancelled,
                RunFails, RunDone, Verify, Finalize, Move, MoveFails, Discard, PostFinished, Throws
  <2>2. pc \in ProcessPcs /\ pc' \in ProcessPcs \cup {"release"}
    BY <1>8, ProcessPcsStep
  <2> QED
    BY <2>1, <2>2, Pcs DEF sharedVars, uiVars
<1>9. ASSUME NEW j \in Jobs, NEW n \in Names, ForeignFile(j, n) PROVE StopInv'
  BY <1>9 DEF ForeignFile, sharedVars, workerVars, uiVars
<1> QED
  BY <1>1, <1>2, <1>3, <1>4, <1>5, <1>6, <1>7, <1>8, <1>9 DEF Next, WorkerStep

LEMMA AlwaysStopInv == Spec => []StopInv
<1>1. Init => StopInv
  BY DEF Init, StopInv, StopPcs
<1> QED
  BY <1>1, StopStep, AlwaysCounted, PTL DEF Spec

(* MuxWorker::stop: after the join no request waits, is processed or is     *)
(* still to be reported; each has had its Finished event.                   *)
THEOREM StopReportsEverything == Spec => []StopReportsAll
<1>1. Counted /\ StopInv => StopReportsAll
  <2> SUFFICES ASSUME Counted, StopInv, uiPc = "stopped", NEW j \in Jobs
               PROVE  enqueued[j] = finished[j]
    BY DEF StopReportsAll
  <2>1. pc = "exited" /\ queue = <<>> /\ leftovers = <<>>
    BY DEF Counted, PlacesInv, StopInv
  <2>2. ~Queued(j) /\ ~Processing(j) /\ ~Leaving(j) /\ ~Reporting(j)
    BY <2>1, Pcs DEF Queued, Processing, Leaving, Reporting, Contains
  <2> QED
    BY <2>2, InPlace DEF Counted
<1> QED
  BY <1>1, AlwaysCounted, AlwaysStopInv, PTL

(* threadMain's comment on the reset in the pop: "either stop is visible    *)
(* here or its cancel signal lands after the reset".  Pop re-checks the     *)
(* stop event after the reset, so no request starts once it is set.         *)
THEOREM StopAlwaysReaches == Spec => []StopReachesRunningJob
<1>1. Init => StopReachesRunningJob
  BY Pcs DEF Init, StopReachesRunningJob
<1>2. StopReachesRunningJob /\ [Next]_vars => StopReachesRunningJob'
  <2> SUFFICES ASSUME StopReachesRunningJob, [Next]_vars PROVE StopReachesRunningJob'
    OBVIOUS
  <2> USE DEF StopReachesRunningJob
  <2>1. CASE UNCHANGED vars
    BY <2>1 DEF vars, sharedVars, workerVars, uiVars
  <2>2. CASE \/ \E j \in Jobs : Enqueue(j) \/ CancelRunning(j) \/ CancelQueued(j)
             \/ Stop \/ UIStep
    BY <2>2 DEF Enqueue, CancelRunning, CancelQueued, Stop, UIStep, EnqueueWake, CancelReport,
                StopCancel, StopWake, StopJoin, sharedVars, workerVars, uiVars
  <2>3. CASE LoopStep
    BY <2>3, Pcs DEF LoopStep, LoopTop, PopNothing, PopReset, Pop, Release, AfterDrain,
                     ReportLeftover, IdleWait, sharedVars, uiVars
  <2>4. CASE ProcessStep
    <3>1. UNCHANGED <<sharedVars, uiVars>>
      BY <2>4 DEF ProcessStep, StagePasses, StageFails, CheckCancel, Launch, RunCancelled,
                  RunFails, RunDone, Verify, Finalize, Move, MoveFails, Discard, PostFinished, Throws
    <3>2. pc' \in EarlyPcs => pc \in EarlyPcs
      BY <2>4, ProcessPcsStep
    <3> QED
      BY <3>1, <3>2 DEF sharedVars, uiVars
  <2>5. CASE \E j \in Jobs, n \in Names : ForeignFile(j, n)
    BY <2>5 DEF ForeignFile, sharedVars, workerVars, uiVars
  <2> QED
    BY <2>1, <2>2, <2>3, <2>4, <2>5 DEF Next, WorkerStep
<1> QED
  BY <1>1, <1>2, PTL DEF Spec

-----------------------------------------------------------------------------
(* cancel() *)

\* cancel() finds in current_ the request the worker is at.
CurrentIsProcessed ==
    current = IF pc \in ProcessPcs \cup {"release"} THEN request ELSE NoJob

\* Wherever the worker looks at the cancel event, it was set by stop() or for
\* the request it has: PopReset clears what an earlier request left.
CancelInv ==
    /\ CurrentIsProcessed
    /\ pc = "locked" /\ cancelEvent => stopEvent
    /\ pc \in ProcessPcs /\ cancelEvent => stopEvent \/ asked[request] # "no"
    /\ pc \in {"discard", "post"} /\ outcome = "Cancelled" => stopEvent \/ asked[request] # "no"
    /\ uiPc = "report" => asked[uiJob] = "early"
    /\ CancelIsForTheJob

\* A job whose request is not reported cannot break the two cancel properties.
LEMMA Unreported ==
  ASSUME Counted, NEW j \in Jobs, Queued(j) \/ Processing(j) \/ Leaving(j) \/ Reporting(j)
  PROVE  enqueued[j] # finished[j]
<1> QED
  BY InPlace DEF Counted

LEMMA CancelStep == Counted /\ StopInv /\ CancelInv /\ Counted' /\ [Next]_vars => CancelInv'
<1> SUFFICES ASSUME Counted, StopInv, CancelInv, Counted', [Next]_vars PROVE CancelInv'
  OBVIOUS
<1> USE DEF CancelInv, CurrentIsProcessed, CancelIsForTheJob
<1>1. TypeOK /\ OneFinishedPerRequest /\ PlacesInv
  BY DEF Counted
<1>2. CASE UNCHANGED vars
  BY <1>2 DEF vars, sharedVars, workerVars, uiVars, historyVars
<1>3. ASSUME NEW j \in Jobs, Enqueue(j) PROVE CancelInv'
  <2>1. ~Processing(j)
    BY <1>1, <1>3, InPlace DEF Enqueue
  <2>2. /\ asked' = [asked EXCEPT ![j] = "no"] /\ enqueued' = [enqueued EXCEPT ![j] = @ + 1]
        /\ uiPc' = "wake"
        /\ UNCHANGED <<current, stopEvent, cancelEvent, pc, request, outcome, finished, last>>
    BY <1>3 DEF Enqueue, workerVars
  <2>3. \A k \in Jobs : k # j => asked'[k] = asked[k] /\ enqueued'[k] = enqueued[k]
    BY <1>1, <2>2 DEF TypeOK
  <2>4. pc \in ProcessPcs => request \in Jobs /\ request # j
    BY <1>1, <2>1 DEF PlacesInv, Processing
  <2>5. enqueued'[j] # finished'[j]
    BY <1>1, <1>3, <2>2, InPlace, BoundsAssumption DEF Enqueue, TypeOK
  <2>6. CancelIsForTheJob'
    BY <2>2, <2>3, <2>5
  <2> QED
    BY <2>2, <2>3, <2>4, <2>6, Pcs
<1>4. ASSUME NEW j \in Jobs, CancelRunning(j) PROVE CancelInv'
  <2>1. /\ asked' = [asked EXCEPT ![j] = AskedNow(j)] /\ cancelEvent' = TRUE
        /\ current = j /\ pc # "locked" /\ uiPc = "ready"
        /\ UNCHANGED <<current, stopEvent, pc, request, outcome, enqueued, finished, last, uiPc, uiJob>>
    BY <1>4 DEF CancelRunning, LockFree, workerVars, uiVars
  <2>2. AskedNow(j) # "no"
    BY DEF AskedNow
  <2>3. request = j /\ asked'[j] # "no"
    BY <1>1, <2>1, <2>2, NoJobAssumption DEF TypeOK
  <2>4. \A k \in Jobs : asked'[k] # "no" \/ asked'[k] = asked[k]
    BY <1>1, <2>1, <2>3 DEF TypeOK
  <2> QED
    BY <2>1, <2>3, <2>4
<1>5. ASSUME NEW j \in Jobs, CancelQueued(j) PROVE CancelInv'
  <2>1. /\ asked' = [asked EXCEPT ![j] = "early"] /\ uiPc' = "report" /\ uiJob' = j
        /\ UNCHANGED <<current, stopEvent, cancelEvent, pc, request, outcome, enqueued, finished, last>>
    BY <1>5 DEF CancelQueued, workerVars
  <2>2. /\ asked'[j] = "early"
        /\ \A k \in Jobs : k # j => asked'[k] = asked[k]
    BY <1>1, <2>1 DEF TypeOK
  <2>3. pc \in ProcessPcs => request \in Jobs
    BY <1>1 DEF PlacesInv
  <2> QED
    BY <2>1, <2>2, <2>3, Pcs
<1>6. CASE Stop
  BY <1>6 DEF Stop, workerVars, historyVars
<1>7. CASE UIStep
  <2>1. CASE CancelReport
    <3>1. uiJob \in Jobs /\ asked[uiJob] = "early"
      BY <1>1, <2>1 DEF CancelReport, PlacesInv
    <3>2. \A k \in Jobs : k # uiJob => last'[k] = last[k] /\ finished'[k] = finished[k]
      BY <1>1, <2>1 DEF CancelReport, Report, TypeOK
    <3> QED
      BY <2>1, <3>1, <3>2 DEF CancelReport, sharedVars, workerVars
  <2>2. CASE EnqueueWake \/ StopCancel \/ StopWake \/ StopJoin
    BY <2>2 DEF EnqueueWake, StopCancel, StopWake, StopJoin, sharedVars, workerVars, historyVars,
                StopInv, StopPcs
  <2> QED
    BY <1>7, <2>1, <2>2 DEF UIStep
<1>8. CASE LoopStep
  <2>1. CASE LoopTop
    BY <2>1, Pcs DEF LoopTop, sharedVars, uiVars, historyVars
  <2>2. CASE PopNothing
    BY <2>2, Pcs DEF PopNothing, sharedVars, uiVars, historyVars
  <2>3. CASE PopReset
    BY <2>3, Pcs DEF PopReset, uiVars, historyVars
  <2>4. CASE Pop
    BY <2>4, Pcs DEF Pop, uiVars, historyVars
  <2>5. CASE Release
    BY <2>5, Pcs DEF Release, uiVars, historyVars
  <2>6. CASE AfterDrain
    BY <2>6, Pcs DEF AfterDrain, uiVars, historyVars
  <2>7. CASE ReportLeftover
    BY <2>7, Pcs DEF ReportLeftover, sharedVars, uiVars, StopInv
  <2>8. CASE IdleWait
    BY <2>8, Pcs DEF IdleWait, uiVars, historyVars
  <2> QED
    BY <1>8, <2>1, <2>2, <2>3, <2>4, <2>5, <2>6, <2>7, <2>8 DEF LoopStep
<1>9. CASE ProcessStep
  <2>1. UNCHANGED <<sharedVars, uiVars, request, asked, enqueued>> /\ pc \in ProcessPcs
    BY <1>9, ProcessPcsStep
       DEF ProcessStep, StagePasses, StageFails, CheckCancel, Launch, RunCancelled,
           RunFails, RunDone, Verify, Finalize, Move, MoveFails, Discard, PostFinished, Throws,
           historyVars
  <2>2. CASE PostFinished
    <3>1. request \in Jobs
      BY <1>1, <2>1 DEF PlacesInv
    <3>2. /\ last'[request] = outcome /\ pc' = "release" /\ pc = "post" /\ outcome' = outcome
          /\ \A k \in Jobs : k # request => last'[k] = last[k] /\ finished'[k] = finished[k]
      BY <1>1, <2>2, <3>1 DEF PostFinished, Report, TypeOK
    <3>3. CancelIsForTheJob'
      BY <2>1, <3>1, <3>2 DEF sharedVars
    <3> QED
      BY <2>1, <3>2, <3>3, Pcs DEF sharedVars, uiVars
  <2>3. CASE Throws
    <3>1. request \in Jobs
      BY <1>1, <2>1 DEF PlacesInv
    <3>2. /\ last'[request] = "Failed" /\ pc' = "release"
          /\ \A k \in Jobs : k # request => last'[k] = last[k] /\ finished'[k] = finished[k]
      BY <1>1, <2>3, <3>1 DEF Throws, Report, TypeOK
    <3>3. CancelIsForTheJob'
      BY <2>1, <3>1, <3>2 DEF sharedVars
    <3> QED
      BY <2>1, <3>2, <3>3, Pcs DEF sharedVars, uiVars
  <2>4. CASE ~PostFinished /\ ~Throws
    <3>1. UNCHANGED <<finished, last>>
      BY <1>9, <2>4 DEF ProcessStep, StagePasses, StageFails, CheckCancel, Launch, RunCancelled,
                RunFails, RunDone, Verify, Finalize, Move, MoveFails, Discard, historyVars
    <3>2. pc' \in ProcessPcs
      BY <1>9, <2>4, ProcessPcsStep, Pcs
         DEF ProcessStep, StagePasses, StageFails, CheckCancel, Launch, RunCancelled,
             RunFails, RunDone, Verify, Finalize, Move, MoveFails, Discard, MoveToTarget, Finish
    <3>3. \/ outcome' # "Cancelled" \/ pc' \notin {"discard", "post"}
          \/ cancelEvent \/ (pc = "discard" /\ outcome' = outcome)
      BY <1>9, <2>4, Pcs
         DEF ProcessStep, StagePasses, StageFails, CheckCancel, Launch, RunCancelled,
             RunFails, RunDone, Verify, Finalize, Move, MoveFails, Discard, MoveToTarget, Finish,
             StageSet
    <3> QED
      BY <2>1, <3>1, <3>2, <3>3, Pcs DEF sharedVars, uiVars
  <2> QED
    BY <2>2, <2>3, <2>4
<1>10. ASSUME NEW j \in Jobs, NEW n \in Names, ForeignFile(j, n) PROVE CancelInv'
  BY <1>10 DEF ForeignFile, sharedVars, workerVars, uiVars, historyVars
<1> QED
  BY <1>2, <1>3, <1>4, <1>5, <1>6, <1>7, <1>8, <1>9, <1>10 DEF Next, WorkerStep

LEMMA AlwaysCancelInv == Spec => []CancelInv
<1>1. Init => CancelInv
  BY Pcs DEF Init, CancelInv, CurrentIsProcessed, CancelIsForTheJob
<1> QED
  BY <1>1, CancelStep, AlwaysCounted, AlwaysStopInv, PTL DEF Spec

(* cancel() and the cancel event: a request that ends Cancelled was named   *)
(* by a cancel(), or stop() ran; the event of one job never ends another.   *)
THEOREM CancelNamesTheJob == Spec => []CancelIsForTheJob
<1>1. CancelInv => CancelIsForTheJob
  BY DEF CancelInv
<1> QED
  BY <1>1, AlwaysCancelInv, PTL

\* An early cancel() keeps the event set while its request can still see it,
\* and no request passes mkvmerge with one.
EarlyInv ==
    /\ \A j \in Jobs : Queued(j) => asked[j] # "early"
    /\ pc \in EarlyPcs /\ asked[request] = "early" => cancelEvent
    /\ pc \in {"verify", "finalize", "moveReplace", "moveNoReplace"} => asked[request] # "early"
    /\ pc = "discard" => outcome # "Done"
    /\ pc = "post" /\ outcome = "Done" => asked[request] # "early"
    /\ EarlyCancelWins

LEMMA EarlyStep == Counted /\ CancelInv /\ EarlyInv /\ Counted' /\ [Next]_vars => EarlyInv'
<1> SUFFICES ASSUME Counted, CancelInv, EarlyInv, Counted', [Next]_vars PROVE EarlyInv'
  OBVIOUS
<1> USE DEF EarlyInv, EarlyCancelWins
<1>1. TypeOK /\ OneFinishedPerRequest /\ PlacesInv
  BY DEF Counted
<1>2. CASE UNCHANGED vars
  BY <1>2 DEF vars, sharedVars, workerVars, uiVars, historyVars, Queued
<1>3. ASSUME NEW j \in Jobs, Enqueue(j) PROVE EarlyInv'
  <2>1. ~Queued(j) /\ ~Processing(j)
    BY <1>1, <1>3, InPlace DEF Enqueue
  <2>2. /\ asked' = [asked EXCEPT ![j] = "no"] /\ enqueued' = [enqueued EXCEPT ![j] = @ + 1]
        /\ queue' = Append(queue, j)
        /\ UNCHANGED <<current, cancelEvent, pc, request, outcome, finished, last>>
    BY <1>3 DEF Enqueue, workerVars
  <2>3. /\ asked'[j] = "no"
        /\ \A k \in Jobs : k # j => asked'[k] = asked[k] /\ enqueued'[k] = enqueued[k]
    BY <1>1, <2>2 DEF TypeOK
  <2>4. pc \in ProcessPcs => request \in Jobs /\ request # j
    BY <1>1, <2>1 DEF PlacesInv, Processing
  <2>5. \A k \in Jobs : Queued(k)' <=> Queued(k) \/ k = j
    BY <1>1, <2>1, <2>2, ContainsAppend DEF TypeOK, PlacesInv, Queued
  <2>6. EarlyCancelWins'
    BY <2>2, <2>3
  <2> QED
    BY <2>2, <2>3, <2>4, <2>5, <2>6, Pcs
<1>4. ASSUME NEW j \in Jobs, CancelRunning(j) PROVE EarlyInv'
  <2>1. /\ asked' = [asked EXCEPT ![j] = AskedNow(j)] /\ cancelEvent' = TRUE /\ current = j
        /\ UNCHANGED <<queue, pc, request, outcome, enqueued, finished, last>>
    BY <1>4 DEF CancelRunning, LockFree, workerVars, uiVars
  <2>2. request = j /\ pc \in ProcessPcs \cup {"release"}
    BY <2>1, NoJobAssumption DEF CancelInv, CurrentIsProcessed
  <2>3. asked'[j] = "early" => pc \in EarlyPcs /\ Processing(j) /\ ~Queued(j)
    BY <1>1, <2>1, <2>2, Pcs DEF TypeOK, AskedNow, Queued, Processing
  <2>4. \A k \in Jobs : k # j => asked'[k] = asked[k]
    BY <1>1, <2>1 DEF TypeOK
  <2>5. Processing(j) => enqueued[j] # finished[j]
    BY Unreported
  <2>6. \A k \in Jobs : Queued(k)' <=> Queued(k)
    BY <2>1 DEF Queued
  <2> QED
    BY <2>1, <2>2, <2>3, <2>4, <2>5, <2>6, Pcs
<1>5. ASSUME NEW j \in Jobs, CancelQueued(j) PROVE EarlyInv'
  <2>1. /\ asked' = [asked EXCEPT ![j] = "early"]
        /\ queue' = RemoveAt(queue, FirstRequest(j))
        /\ UNCHANGED <<cancelEvent, pc, request, outcome, enqueued, finished, last>>
    BY <1>5 DEF CancelQueued, workerVars
  <2>2. Queued(j) /\ ~Processing(j) /\ enqueued[j] # finished[j]
    BY <1>1, <1>5, InPlace, Unreported DEF CancelQueued, Queued
  <2>3. \A k \in Jobs : k # j => asked'[k] = asked[k]
    BY <1>1, <2>1 DEF TypeOK
  <2>4. \A k \in Jobs : Queued(k)' <=> Queued(k) /\ k # j
    <3>1. FirstRequest(j) \in 1..Len(queue) /\ queue[FirstRequest(j)] = j
      BY <1>1, <2>2, FirstIsJob DEF PlacesInv, Queued
    <3> QED
      BY <1>1, <2>1, <3>1, ContainsRemove DEF TypeOK, PlacesInv, Queued
  <2>5. pc \in ProcessPcs => request \in Jobs /\ request # j
    BY <1>1, <2>2 DEF PlacesInv, Processing
  <2> QED
    BY <2>1, <2>2, <2>3, <2>4, <2>5, Pcs
<1>6. CASE Stop
  BY <1>6 DEF Stop, workerVars, historyVars, Queued
<1>7. CASE UIStep
  <2>1. CASE CancelReport
    <3>1. /\ last'[uiJob] = "Cancelled"
          /\ \A k \in Jobs : k # uiJob => last'[k] = last[k] /\ finished'[k] = finished[k]
      BY <1>1, <2>1 DEF CancelReport, Report, TypeOK, PlacesInv
    <3> QED
      BY <2>1, <3>1 DEF CancelReport, sharedVars, workerVars, Queued
  <2>2. CASE EnqueueWake \/ StopCancel \/ StopWake \/ StopJoin
    BY <2>2 DEF EnqueueWake, StopCancel, StopWake, StopJoin, sharedVars, workerVars, historyVars,
                Queued
  <2> QED
    BY <1>7, <2>1, <2>2 DEF UIStep
<1>8. CASE LoopStep
  <2>1. CASE LoopTop
    BY <2>1, Pcs DEF LoopTop, sharedVars, uiVars, historyVars, Queued
  <2>2. CASE PopNothing
    BY <2>2, Pcs DEF PopNothing, sharedVars, uiVars, historyVars, Queued
  <2>3. CASE PopReset
    BY <2>3, Pcs DEF PopReset, uiVars, historyVars, Queued
  <2>4. CASE Pop
    <3>1. CASE stopEvent
      BY <2>4, <3>1, Pcs DEF Pop, uiVars, historyVars, Queued
    <3>2. CASE ~stopEvent
      <4>1. /\ Head(queue) \in Jobs /\ Queued(Head(queue))
            /\ \A k \in Jobs : Contains(Tail(queue), k) => Queued(k)
        BY <1>1, <2>4, ContainsTail DEF Pop, PlacesInv, TypeOK, Queued
      <4>2. /\ request' = Head(queue) /\ queue' = Tail(queue) /\ pc' = "sanity"
            /\ UNCHANGED <<asked, enqueued, finished, last>>
        BY <2>4, <3>2 DEF Pop, historyVars
      <4> QED
        BY <4>1, <4>2, Pcs DEF Queued
    <3> QED
      BY <3>1, <3>2
  <2>5. CASE Release
    BY <2>5, Pcs DEF Release, uiVars, historyVars, Queued
  <2>6. CASE AfterDrain
    BY <2>6, Pcs DEF AfterDrain, uiVars, historyVars, Queued, Contains
  <2>7. CASE ReportLeftover
    <3>1. CASE leftovers = <<>>
      BY <2>7, <3>1, Pcs DEF ReportLeftover, sharedVars, uiVars, Queued
    <3>2. CASE leftovers # <<>>
      <4>1. Head(leftovers) \in Jobs
        BY <1>1, <3>2, HeadTailProperties DEF TypeOK
      <4>2. /\ last'[Head(leftovers)] = "Cancelled"
            /\ \A k \in Jobs : k # Head(leftovers) => last'[k] = last[k] /\ finished'[k] = finished[k]
        BY <1>1, <2>7, <3>2, <4>1 DEF ReportLeftover, Report, TypeOK
      <4> QED
        BY <2>7, <3>2, <4>1, <4>2, Pcs DEF ReportLeftover, sharedVars, uiVars, Queued
    <3> QED
      BY <3>1, <3>2
  <2>8. CASE IdleWait
    BY <2>8, Pcs DEF IdleWait, uiVars, historyVars, Queued
  <2> QED
    BY <1>8, <2>1, <2>2, <2>3, <2>4, <2>5, <2>6, <2>7, <2>8 DEF LoopStep
<1>9. CASE ProcessStep
  <2>1. UNCHANGED <<sharedVars, request, asked, enqueued>> /\ pc \in ProcessPcs
    BY <1>9, ProcessPcsStep
       DEF ProcessStep, StagePasses, StageFails, CheckCancel, Launch, RunCancelled,
           RunFails, RunDone, Verify, Finalize, Move, MoveFails, Discard, PostFinished, Throws,
           historyVars
  <2>2. \A k \in Jobs : Queued(k)' <=> Queued(k)
    BY <2>1 DEF sharedVars, Queued
  <2>3. CASE PostFinished
    <3>1. request \in Jobs
      BY <1>1, <2>1 DEF PlacesInv
    <3>2. /\ last'[request] = outcome /\ pc' = "release" /\ pc = "post"
          /\ \A k \in Jobs : k # request => last'[k] = last[k] /\ finished'[k] = finished[k]
      BY <1>1, <2>3, <3>1 DEF PostFinished, Report, TypeOK
    <3>3. EarlyCancelWins'
      BY <2>1, <3>1, <3>2
    <3> QED
      BY <2>1, <2>2, <3>2, <3>3, Pcs
  <2>4. CASE Throws
    <3>1. request \in Jobs
      BY <1>1, <2>1 DEF PlacesInv
    <3>2. /\ last'[request] = "Failed" /\ pc' = "release"
          /\ \A k \in Jobs : k # request => last'[k] = last[k] /\ finished'[k] = finished[k]
      BY <1>1, <2>4, <3>1 DEF Throws, Report, TypeOK
    <3>3. EarlyCancelWins'
      BY <2>1, <3>1, <3>2
    <3> QED
      BY <2>1, <2>2, <3>2, <3>3, Pcs
  <2>5. CASE ~PostFinished /\ ~Throws
    <3>1. UNCHANGED <<finished, last>>
      BY <1>9, <2>5 DEF ProcessStep, StagePasses, StageFails, CheckCancel, Launch, RunCancelled,
                RunFails, RunDone, Verify, Finalize, Move, MoveFails, Discard, historyVars
    <3>2. /\ pc' \in EarlyPcs => pc \in EarlyPcs
          /\ pc' \in {"verify", "finalize", "moveReplace", "moveNoReplace"} =>
                \/ pc \in {"verify", "finalize", "moveReplace", "moveNoReplace"}
                \/ pc \in EarlyPcs /\ ~cancelEvent
          /\ pc' = "discard" => outcome' # "Done"
          /\ pc' = "post" /\ outcome' = "Done" =>
                \/ pc \in {"moveReplace", "moveNoReplace"}
                \/ pc = "discard" /\ outcome' = outcome
      BY <1>9, <2>5, Pcs
         DEF ProcessStep, StagePasses, StageFails, CheckCancel, Launch, RunCancelled,
             RunFails, RunDone, Verify, Finalize, Move, MoveFails, Discard, MoveToTarget, Finish,
             StageSet
    <3> QED
      BY <2>1, <2>2, <3>1, <3>2 DEF sharedVars
  <2> QED
    BY <2>3, <2>4, <2>5
<1>10. ASSUME NEW j \in Jobs, NEW n \in Names, ForeignFile(j, n) PROVE EarlyInv'
  BY <1>10 DEF ForeignFile, sharedVars, workerVars, uiVars, historyVars, Queued
<1> QED
  BY <1>2, <1>3, <1>4, <1>5, <1>6, <1>7, <1>8, <1>9, <1>10 DEF Next, WorkerStep

(* threadMain: "a cancel() that lands after the lock is released then sets  *)
(* the event and is never wiped out by a late reset" - for a cancel() that  *)
(* finds its request in the queue, or before mkvmerge has ended.            *)
THEOREM EarlyCancelNeverLost == Spec => []EarlyCancelWins
<1>1. Init => EarlyInv
  BY Pcs DEF Init, EarlyInv, EarlyCancelWins, Queued, Contains
<1>2. EarlyInv => EarlyCancelWins
  BY DEF EarlyInv
<1> QED
  BY <1>1, <1>2, EarlyStep, AlwaysCounted, AlwaysCancelInv, PTL DEF Spec

-----------------------------------------------------------------------------
(* The files *)

\* What the stages after mkvmerge know of the partial and of the plan.
FileInv ==
    /\ pc \in {"finalize", "moveReplace", "moveNoReplace"} => partial[request] = "whole"
    /\ pc = "moveReplace" => plan[request].onConflict = "overwrite"
    /\ pc = "post" => partial[request] = "none" \/ request \in excused
    /\ FinalNamesAreWhole
    /\ NoPartialLeft

\* The steps that touch neither a file nor the request being processed.
LEMMA FilesKept ==
  ASSUME Counted, FileInv, UNCHANGED <<partial, final, excused, pc, request, plan>>
  PROVE  FileInv'
<1> QED
  BY DEF FileInv, FinalNamesAreWhole, NoPartialLeft, Processing

LEMMA FileStep == Counted /\ FileInv /\ [Next]_vars => FileInv'
<1> SUFFICES ASSUME Counted, FileInv, [Next]_vars PROVE FileInv'
  OBVIOUS
<1> USE DEF FileInv, FinalNamesAreWhole, NoPartialLeft, Processing
<1>1. TypeOK /\ OneFinishedPerRequest /\ PlacesInv
  BY DEF Counted
<1>2. CASE \/ UNCHANGED vars \/ Stop \/ UIStep
           \/ \E j \in Jobs : CancelRunning(j) \/ CancelQueued(j)
  BY <1>2, FilesKept DEF vars, Stop, UIStep, EnqueueWake, CancelReport, StopCancel, StopWake,
     StopJoin, CancelRunning, CancelQueued, workerVars, uiVars, diskVars, historyVars
<1>3. ASSUME NEW j \in Jobs, Enqueue(j) PROVE FileInv'
  <2>1. ~Processing(j)
    BY <1>1, <1>3, InPlace DEF Enqueue
  <2>2. \A k \in Jobs : k # j => plan'[k] = plan[k]
    BY <1>1, <1>3 DEF Enqueue, TypeOK
  <2>3. pc = "moveReplace" => request \in Jobs /\ request # j
    BY <1>1, <2>1, Pcs DEF PlacesInv
  <2>4. UNCHANGED <<partial, final, excused, pc, request>>
    BY <1>3 DEF Enqueue, workerVars, diskVars
  <2> QED
    BY <2>2, <2>3, <2>4
<1>4. CASE LoopStep
  <2>1. CASE Pop
    BY <2>1, Pcs DEF Pop, uiVars, diskVars, historyVars
  <2>2. CASE ~Pop
    <3>1. /\ UNCHANGED <<partial, final, excused, plan, request>>
          /\ pc \notin ProcessPcs /\ pc' \notin ProcessPcs
      BY <1>4, <2>2, Pcs
         DEF LoopStep, LoopTop, PopNothing, PopReset, Release, AfterDrain, ReportLeftover,
             IdleWait, uiVars, diskVars, historyVars
    <3> QED
      BY <3>1, Pcs
  <2> QED
    BY <2>1, <2>2
<1>5. CASE ProcessStep
  <2>1. /\ pc \in ProcessPcs /\ pc' \in ProcessPcs \cup {"release"} /\ request \in Jobs
        /\ UNCHANGED <<request, plan>>
    BY <1>1, <1>5, ProcessPcsStep
       DEF PlacesInv, ProcessStep, StagePasses, StageFails, CheckCancel, Launch, RunCancelled,
           RunFails, RunDone, Verify, Finalize, Move, MoveFails, Discard, PostFinished, Throws,
           uiVars
  <2>2. CASE (\E s \in StageSet : StagePasses(s)) \/ Launch \/ RunDone
    <3>1. /\ \A k \in Jobs : k # request => partial'[k] = partial[k]
          /\ \A k \in Jobs : k # request => (k \in excused' <=> k \in excused)
          /\ UNCHANGED final
      BY <1>1, <2>1, <2>2
         DEF StagePasses, Launch, RunDone, PartialGone, PartialStays, TypeOK, historyVars
    <3>2. pc' \in ProcessPcs /\ pc' \notin {"finalize", "moveReplace", "moveNoReplace", "post"}
      BY <2>2, Pcs DEF StagePasses, Launch, RunDone, Finish
    <3> QED
      BY <2>1, <3>1, <3>2
  <2>3. CASE \/ \E s \in StageSet : StageFails(s)
             \/ \E c \in DOMAIN After : CheckCancel(c)
             \/ RunCancelled \/ RunFails \/ MoveFails
    <3>1. UNCHANGED <<partial, final, excused>>
      BY <2>3 DEF StageFails, CheckCancel, RunCancelled, RunFails, MoveFails, diskVars, historyVars
    <3>2. pc' \in ProcessPcs /\ pc' \notin {"finalize", "moveReplace", "moveNoReplace", "post"}
      BY <2>3, Pcs DEF StageFails, CheckCancel, RunCancelled, RunFails, MoveFails, Finish
    <3> QED
      BY <2>1, <3>1, <3>2
  <2>4. CASE Verify
    BY <2>1, <2>4, Pcs DEF Verify, Finish, diskVars, historyVars
  <2>5. CASE Finalize
    BY <2>1, <2>5, Pcs DEF Finalize, Finish, diskVars, historyVars
  <2>6. CASE Move
    <3>1. /\ partial[request] = "whole" /\ partial'[request] = "none"
          /\ \A k \in Jobs : k # request => partial'[k] = partial[k]
          /\ pc' = "post" /\ UNCHANGED excused
      BY <1>1, <2>1, <2>6 DEF Move, MoveToTarget, Finish, TypeOK, historyVars
    <3>2. \A k \in Jobs, n \in Names : final'[k][n] = final[k][n] \/ final'[k][n] = "whole"
      BY <1>1, <2>1, <2>6, <3>1 DEF Move, MoveToTarget, TypeOK
    <3> QED
      BY <2>1, <3>1, <3>2, Pcs
  <2>7. CASE Discard
    <3>1. /\ partial'[request] = "none" \/ request \in excused'
          /\ \A k \in Jobs : k # request => partial'[k] = partial[k]
          /\ \A k \in Jobs : k # request => (k \in excused' <=> k \in excused)
          /\ pc' = "post" /\ UNCHANGED final
      BY <1>1, <2>1, <2>7 DEF Discard, PartialGone, PartialStays, TypeOK
    <3> QED
      BY <2>1, <3>1, Pcs
  <2>8. CASE PostFinished
    BY <2>1, <2>8, Pcs DEF PostFinished, diskVars
  <2>9. CASE Throws
    <3>1. request \in excused' /\ excused \subseteq excused' /\ pc' = "release" /\ UNCHANGED <<partial, final>>
      BY <2>1, <2>9 DEF Throws, PartialStays
    <3> QED
      BY <2>1, <3>1, Pcs
  <2> QED
    BY <1>5, <2>2, <2>3, <2>4, <2>5, <2>6, <2>7, <2>8, <2>9 DEF ProcessStep
<1>6. ASSUME NEW j \in Jobs, NEW n \in Names, ForeignFile(j, n) PROVE FileInv'
  <2>1. \A k \in Jobs, m \in Names : final'[k][m] = final[k][m] \/ final'[k][m] = "foreign"
    BY <1>1, <1>6 DEF ForeignFile, TypeOK
  <2>2. UNCHANGED <<partial, excused, pc, request, plan>>
    BY <1>6 DEF ForeignFile, workerVars, uiVars, historyVars
  <2> QED
    BY <2>1, <2>2
<1> QED
  BY <1>2, <1>3, <1>4, <1>5, <1>6 DEF Next, WorkerStep

LEMMA AlwaysFileInv == Spec => []FileInv
<1>1. Init => FileInv
  BY Pcs DEF Init, FileInv, FinalNamesAreWhole, NoPartialLeft
<1> QED
  BY <1>1, FileStep, AlwaysCounted, PTL DEF Spec

(* MkvmergeRunner's verification and finalizeOutput: a file appears under a *)
(* final name only whole and verified, however the mux ends.                *)
THEOREM FinalNamesWhole == Spec => []FinalNamesAreWhole
<1>1. FileInv => FinalNamesAreWhole
  BY DEF FileInv
<1> QED
  BY <1>1, AlwaysFileInv, PTL

(* process() on every way out: a partial outlives its request only when the *)
(* plan keeps it, the deletion was refused, or the way out is an exception, *)
(* which threadMain catches past every clean-up.                            *)
THEOREM PartialsCleared == Spec => []NoPartialLeft
<1>1. FileInv => NoPartialLeft
  BY DEF FileInv
<1> QED
  BY <1>1, AlwaysFileInv, PTL

(* cancel() and stop() together: each reaches the request it is for.        *)
THEOREM CancelsAlwaysReach == Spec => []CancelsReach
<1>1. CancelIsForTheJob /\ EarlyCancelWins /\ StopReachesRunningJob => CancelsReach
  BY DEF CancelsReach
<1> QED
  BY <1>1, CancelNamesTheJob, EarlyCancelNeverLost, StopAlwaysReaches, PTL

(* process() and the disk: what is under a final name is whole, and what is *)
(* left of a mux is asked for, held open, or an exception's.                *)
THEOREM FilesStayWhole == Spec => []FilesAreWhole
<1>1. FinalNamesAreWhole /\ NoPartialLeft => FilesAreWhole
  BY DEF FilesAreWhole
<1> QED
  BY <1>1, FinalNamesWhole, PartialsCleared, PTL

(* finalizeOutput: a file that another program put under a final name is    *)
(* replaced under the overwrite policy only, even if it appears between the *)
(* choice of the name and the rename.                                       *)
THEOREM ForeignFilesKept == Spec => ForeignFilesSurvive
<1> DEFINE Kept == \A j \in Jobs, n \in Names :
                      final[j][n] = "foreign" /\ plan[j].onConflict # "overwrite"
                         => final'[j][n] = "foreign"
<1>1. Counted /\ FileInv /\ [Next]_vars => Kept
  <2> SUFFICES ASSUME Counted, FileInv, [Next]_vars, NEW j \in Jobs, NEW n \in Names,
                      final[j][n] = "foreign", plan[j].onConflict # "overwrite"
               PROVE  final'[j][n] = "foreign"
    OBVIOUS
  <2>1. CASE Move
    <3>1. request \in Jobs /\ target \in Names
      BY <2>1, Pcs DEF Counted, PlacesInv, TypeOK, Move
    <3>2. \/ plan[request].onConflict = "overwrite"
          \/ final[request][target] = "none"
      BY <2>1 DEF FileInv, Move
    <3>3. final' = [final EXCEPT ![request] =
                                   [final[request] EXCEPT ![target] = partial[request]]]
      BY <2>1 DEF Move, MoveToTarget
    <3> QED
      BY <3>1, <3>2, <3>3 DEF Counted, TypeOK
  <2>2. ASSUME NEW k \in Jobs, NEW m \in Names, ForeignFile(k, m)
        PROVE  final'[j][n] = "foreign"
    <3>1. final' = [final EXCEPT ![k] = [final[k] EXCEPT ![m] = "foreign"]]
      BY <2>2 DEF ForeignFile
    <3> QED
      BY <3>1 DEF Counted, TypeOK
  <2>3. CASE UNCHANGED final
    BY <2>3
  <2>4. \/ Move \/ UNCHANGED final
        \/ \E k \in Jobs, m \in Names : ForeignFile(k, m)
    BY DEF Next, WorkerStep, UIStep, LoopStep, ProcessStep, Enqueue, CancelRunning, CancelQueued,
           Stop, EnqueueWake, CancelReport, StopCancel, StopWake, StopJoin, LoopTop, PopNothing,
           PopReset, Pop, Release, AfterDrain, ReportLeftover, IdleWait, StagePasses, StageFails,
           CheckCancel, Launch, RunCancelled, RunFails, RunDone, Verify, Finalize, MoveFails,
           Discard, PostFinished, Throws, PartialStays, vars, diskVars
  <2> QED
    BY <2>1, <2>2, <2>3, <2>4
<1> QED
  BY <1>1, AlwaysCounted, AlwaysFileInv, PTL DEF Spec, ForeignFilesSurvive

=============================================================================
