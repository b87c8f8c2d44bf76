-------------------------- MODULE EventQueueProofs --------------------------
(***************************************************************************)
(* Theorems about EventQueue, for any number of posters, windows and       *)
(* events, any drain limit, with and without early posts and refused       *)
(* messages.                                                               *)
(*                                                                         *)
(* FlagHasOwner is inductive together with TypeOK; NoStrandedEvent needs   *)
(* FlagHasOwner at the one place where a thread relies on somebody else's  *)
(* kick (KickExchange that finds the flag set).  The refinement needs to   *)
(* know when the batch is empty (BatchInv): DrainSwap overwrites it.       *)
(***************************************************************************)
EXTENDS EngineWindow, SequenceTheorems, TLAPS

\* The batch holds events exactly while onEventMessage is applying them.
BatchInv == (batch # <<>>) <=> (pc[UI] = "apply")

KickInv == TypeOK /\ FlagHasOwner /\ NoStrandedEvent

-----------------------------------------------------------------------------
(* Type correctness *)

LEMMA PostType == TypeOK /\ (\E p \in Posters : Post(p)) => TypeOK'
<1> SUFFICES ASSUME TypeOK, NEW p \in Posters, Post(p) PROVE TypeOK'
  OBVIOUS
<1> DEFINE event == <<p, sent[p] + 1>>
<1>1. event \in Events
  BY BoundsAssumption DEF TypeOK, Post, Events
<1>2. queue' \in Seq(Events) /\ posted' \in Seq(Events)
  BY <1>1, AppendProperties DEF TypeOK, Post
<1>3. sent' \in [Posters -> 0..MaxEvents]
  BY BoundsAssumption DEF TypeOK, Post
<1>4. /\ pc' \in [Threads -> {"idle"} \cup KickPcs \cup UIPcs]
      /\ \A q \in Posters : pc'[q] \in {"idle"} \cup KickPcs
  BY DEF TypeOK, Post, Goto, Threads, KickPcs
<1> QED
  BY <1>2, <1>3, <1>4 DEF TypeOK, Post, uiVars

LEMMA KickType == TypeOK /\ (\E t \in Threads : Kick(t)) => TypeOK'
<1> SUFFICES ASSUME TypeOK, NEW t \in Threads, Kick(t) PROVE TypeOK'
  OBVIOUS
<1> USE DEF TypeOK, Threads, KickPcs, Goto
<1>1. CASE KickExchange(t)
  BY <1>1 DEF KickExchange, uiVars, historyVars
<1>2. CASE KickLoadHwnd(t)
  BY <1>2 DEF KickLoadHwnd, queueVars, uiVars, historyVars
<1>3. CASE KickLoadMessage(t)
  BY <1>3 DEF KickLoadMessage, queueVars, uiVars
<1>4. CASE KickSend(t)
  BY <1>4 DEF KickSend, queueVars, uiVars, historyVars
<1>5. CASE KickSendFails(t)
  BY <1>5 DEF KickSendFails, queueVars, uiVars
<1>6. CASE KickReset(t)
  BY <1>6 DEF KickReset, uiVars, historyVars
<1> QED
  BY <1>1, <1>2, <1>3, <1>4, <1>5, <1>6 DEF Kick

LEMMA TargetType == TypeOK /\ (\E w \in Windows : SetTarget(w)) => TypeOK'
<1> SUFFICES ASSUME TypeOK, NEW w \in Windows, SetTarget(w) PROVE TypeOK'
  OBVIOUS
<1>1. targets' \in 0..MaxTargets
  BY BoundsAssumption DEF TypeOK, SetTarget
<1> QED
  BY <1>1, UIAssumption DEF TypeOK, SetTarget, Goto, Threads, UIPcs, historyVars

LEMMA UIType == TypeOK /\ UIStep => TypeOK'
<1> SUFFICES ASSUME TypeOK, UIStep PROVE TypeOK'
  OBVIOUS
<1> USE UIAssumption DEF TypeOK, Threads, UIPcs, KickPcs, Goto
<1>1. CASE StoreMessage
  BY <1>1 DEF StoreMessage, uiVars, historyVars
<1>2. CASE CheckPending
  BY <1>2 DEF CheckPending, queueVars, uiVars, historyVars
<1>3. CASE DrainClear
  BY <1>3 DEF DrainClear, uiVars
<1>4. CASE DrainSwap
  BY <1>4 DEF DrainSwap, historyVars
<1>5. CASE Apply
  <2>1. applied' \in Seq(Events) /\ batch' \in Seq(Events)
    BY <1>5, HeadTailProperties, AppendProperties DEF Apply
  <2>2. round' \in 0..MaxRounds
    BY <1>5, BoundsAssumption DEF Apply
  <2> QED
    BY <1>5, <2>1, <2>2 DEF Apply, queueVars
<1>6. ASSUME NEW w \in Windows, ReceiveKick(w) PROVE TypeOK'
  <2>1. round' \in 0..MaxRounds
    BY <1>6, BoundsAssumption DEF ReceiveKick
  <2>2. kicks' \in [Windows -> Nat]
    BY <1>6 DEF ReceiveKick
  <2> QED
    BY <1>6, <2>1, <2>2 DEF ReceiveKick, queueVars, historyVars
<1> QED
  BY <1>1, <1>2, <1>3, <1>4, <1>5, <1>6 DEF UIStep

LEMMA InitType == Init => TypeOK
<1> SUFFICES ASSUME Init PROVE TypeOK
  OBVIOUS
<1>1. <<>> \in Seq(Events)
  BY EmptySeq
<1>2. 0 \in 0..MaxEvents /\ 0 \in 0..MaxRounds /\ 0 \in 0..MaxTargets
  BY BoundsAssumption
<1>3. pc \in [Threads -> {"idle"} \cup KickPcs \cup UIPcs]
  BY DEF Init
<1>4. \A p \in Posters : pc[p] \in {"idle"} \cup KickPcs
  BY DEF Init, Threads
<1> QED
  BY <1>1, <1>2, <1>3, <1>4 DEF Init, TypeOK

LEMMA NextType == TypeOK /\ [Next]_vars => TypeOK'
<1> SUFFICES ASSUME TypeOK, [Next]_vars PROVE TypeOK'
  OBVIOUS
<1>1. CASE UNCHANGED vars
  BY <1>1 DEF TypeOK, vars, queueVars, uiVars, historyVars
<1> QED
  BY <1>1, PostType, KickType, TargetType, UIType DEF Next

(* Every variable keeps its type; in particular a worker never runs a step  *)
(* of the UI thread's code.                                                 *)
THEOREM TypeCorrect == Spec => []TypeOK
<1>1. Init => TypeOK
  BY InitType
<1>2. TypeOK /\ [Next]_vars => TypeOK'
  BY NextType
<1> QED
  BY <1>1, <1>2, PTL DEF Spec

-----------------------------------------------------------------------------
(* The kick flag *)

\* A thread that steps out of a kick leaves the others' kicks in flight.
LEMMA KickFlag == KickInv /\ (\E t \in Threads : Kick(t)) => FlagHasOwner'
<1> SUFFICES ASSUME KickInv, NEW t \in Threads, Kick(t) PROVE FlagHasOwner'
  OBVIOUS
<1> USE DEF KickInv, TypeOK, FlagHasOwner, KickInFlight, Goto
<1>1. CASE KickExchange(t)
  <2>1. CASE kickPending
    BY <1>1, <2>1 DEF KickExchange, historyVars
  <2>2. CASE ~kickPending
    <3>1. pc'[t] = "loadHwnd"
      BY <1>1, <2>2 DEF KickExchange
    <3> QED
      BY <3>1
  <2> QED
    BY <2>1, <2>2
<1>2. CASE KickLoadHwnd(t)
  <2>1. pc'[t] = "loadMessage"
    BY <1>2 DEF KickLoadHwnd
  <2> QED
    BY <2>1
<1>3. CASE KickLoadMessage(t)
  <2>1. pc'[t] = "send" \/ refused'
    BY <1>3 DEF KickLoadMessage
  <2> QED
    BY <2>1
<1>4. CASE KickSend(t)
  <2>1. loaded[t] \in live' /\ kicks'[loaded[t]] > 0
    BY <1>4 DEF KickSend
  <2> QED
    BY <2>1
<1>5. CASE KickSendFails(t)
  BY <1>5 DEF KickSendFails
<1>6. CASE KickReset(t)
  BY <1>6 DEF KickReset
<1> QED
  BY <1>1, <1>2, <1>3, <1>4, <1>5, <1>6 DEF Kick

\* Steps that touch neither the flag nor a kick: posters and setTarget.
LEMMA QuietFlag ==
    ASSUME KickInv,
           (\E p \in Posters : Post(p)) \/ (\E w \in Windows : SetTarget(w))
    PROVE  FlagHasOwner'
<1> USE DEF KickInv, TypeOK, FlagHasOwner, KickInFlight, Goto, Threads
<1>1. ASSUME NEW p \in Posters, Post(p) PROVE FlagHasOwner'
  <2>1. /\ kickPending' = kickPending /\ refused' = refused
        /\ kicks' = kicks /\ live' = live /\ pc'[UI] = pc[UI]
    BY <1>1, UIAssumption DEF Post
  <2>2. \A t \in Threads \ {p} : pc'[t] = pc[t]
    BY <1>1 DEF Post
  <2>3. pc[p] = "idle"
    BY <1>1 DEF Post
  <2> QED
    BY <2>1, <2>2, <2>3
<1>2. ASSUME NEW w \in Windows, SetTarget(w) PROVE FlagHasOwner'
  <2>1. /\ kickPending' = kickPending /\ refused' = refused
        /\ kicks' = kicks /\ live' = live
    BY <1>2 DEF SetTarget, historyVars
  <2>2. \A t \in Threads \ {UI} : pc'[t] = pc[t]
    BY <1>2 DEF SetTarget
  <2>3. pc[UI] = "idle"
    BY <1>2 DEF SetTarget
  <2> QED
    BY <2>1, <2>2, <2>3
<1> QED
  BY <1>1, <1>2

LEMMA UIFlag == KickInv /\ UIStep => FlagHasOwner'
<1> SUFFICES ASSUME KickInv, UIStep PROVE FlagHasOwner'
  OBVIOUS
<1> USE DEF KickInv, TypeOK, FlagHasOwner, KickInFlight, Goto, Threads
<1>1. CASE StoreMessage
  BY <1>1 DEF StoreMessage, historyVars
<1>2. CASE CheckPending
  BY <1>2 DEF CheckPending, queueVars, historyVars
<1>3. CASE DrainClear
  BY <1>3 DEF DrainClear
<1>4. CASE DrainSwap
  BY <1>4 DEF DrainSwap, historyVars
<1>5. CASE Apply
  BY <1>5 DEF Apply, queueVars
<1>6. ASSUME NEW w \in Windows, ReceiveKick(w) PROVE FlagHasOwner'
  BY <1>6 DEF ReceiveKick
<1> QED
  BY <1>1, <1>2, <1>3, <1>4, <1>5, <1>6 DEF UIStep

LEMMA NextFlag == KickInv /\ [Next]_vars => FlagHasOwner'
<1> SUFFICES ASSUME KickInv, [Next]_vars PROVE FlagHasOwner'
  OBVIOUS
<1>1. CASE UNCHANGED vars
  BY <1>1 DEF KickInv, FlagHasOwner, KickInFlight, vars, queueVars, historyVars
<1> QED
  BY <1>1, KickFlag, QuietFlag, UIFlag DEF Next

-----------------------------------------------------------------------------
(* No stranded event *)

LEMMA PostStranded == KickInv /\ (\E p \in Posters : Post(p)) => NoStrandedEvent'
<1> SUFFICES ASSUME KickInv, NEW p \in Posters, Post(p) PROVE NoStrandedEvent'
  OBVIOUS
<1>1. p \in Threads /\ pc'[p] = "exchange"
  BY DEF KickInv, TypeOK, Post, Goto, Threads
<1> QED
  BY <1>1 DEF NoStrandedEvent

LEMMA KickStranded == KickInv /\ (\E t \in Threads : Kick(t)) => NoStrandedEvent'
<1> SUFFICES ASSUME KickInv, NEW t \in Threads, Kick(t) PROVE NoStrandedEvent'
  OBVIOUS
<1> USE DEF KickInv, TypeOK, NoStrandedEvent, KickInFlight, Goto
<1>1. CASE KickExchange(t)
  <2>1. CASE kickPending
    \* The thread leaves it to the owner of the flag.
    <3>1. KickInFlight \/ pc[UI] = "clear" \/ refused
      BY <2>1 DEF FlagHasOwner
    <3> QED
      BY <1>1, <2>1, <3>1 DEF KickExchange, historyVars
  <2>2. CASE ~kickPending
    <3>1. pc'[t] = "loadHwnd"
      BY <1>1, <2>2 DEF KickExchange
    <3> QED
      BY <3>1
  <2> QED
    BY <2>1, <2>2
<1>2. CASE KickLoadHwnd(t)
  <2>1. pc'[t] = "loadMessage"
    BY <1>2 DEF KickLoadHwnd
  <2> QED
    BY <2>1
<1>3. CASE KickLoadMessage(t)
  <2>1. pc'[t] = "send" \/ refused'
    BY <1>3 DEF KickLoadMessage
  <2> QED
    BY <2>1
<1>4. CASE KickSend(t)
  <2>1. loaded[t] \in live' /\ kicks'[loaded[t]] > 0
    BY <1>4 DEF KickSend
  <2> QED
    BY <2>1
<1>5. CASE KickSendFails(t)
  BY <1>5 DEF KickSendFails
<1>6. CASE KickReset(t)
  BY <1>6 DEF KickReset, historyVars
<1> QED
  BY <1>1, <1>2, <1>3, <1>4, <1>5, <1>6 DEF Kick

LEMMA TargetStranded == KickInv /\ (\E w \in Windows : SetTarget(w)) => NoStrandedEvent'
  BY DEF KickInv, TypeOK, NoStrandedEvent, KickInFlight, Goto, Threads, SetTarget, historyVars

LEMMA UIStranded == KickInv /\ UIStep => NoStrandedEvent'
<1> SUFFICES ASSUME KickInv, UIStep PROVE NoStrandedEvent'
  OBVIOUS
<1> USE DEF KickInv, TypeOK, NoStrandedEvent, KickInFlight, Goto, Threads
<1>1. CASE StoreMessage
  BY <1>1 DEF StoreMessage, historyVars
<1>2. CASE CheckPending
  BY <1>2 DEF CheckPending, queueVars, historyVars
<1>3. CASE DrainClear
  BY <1>3 DEF DrainClear
<1>4. CASE DrainSwap
  BY <1>4 DEF DrainSwap
<1>5. CASE Apply
  BY <1>5 DEF Apply, queueVars
<1>6. ASSUME NEW w \in Windows, ReceiveKick(w) PROVE NoStrandedEvent'
  BY <1>6 DEF ReceiveKick
<1> QED
  BY <1>1, <1>2, <1>3, <1>4, <1>5, <1>6 DEF UIStep

LEMMA NextStranded == KickInv /\ [Next]_vars => NoStrandedEvent'
<1> SUFFICES ASSUME KickInv, [Next]_vars PROVE NoStrandedEvent'
  OBVIOUS
<1>1. CASE UNCHANGED vars
  BY <1>1 DEF KickInv, NoStrandedEvent, KickInFlight, vars, queueVars, historyVars
<1> QED
  BY <1>1, PostStranded, KickStranded, TargetStranded, UIStranded DEF Next

LEMMA KickInvariant == Spec => []KickInv
<1>1. Init => KickInv
  BY InitType DEF KickInv, Init, FlagHasOwner, NoStrandedEvent
<1>2. KickInv /\ [Next]_vars => KickInv'
  BY NextType, NextFlag, NextStranded DEF KickInv
<1> QED
  BY <1>1, <1>2, PTL DEF Spec

(* kick() can rely on a flag that is set: its kick is on its way, or the    *)
(* drain is about to clear it, or PostMessageW refused one.                 *)
THEOREM FlagOwned == Spec => []FlagHasOwner
  BY KickInvariant, PTL DEF KickInv

(* EventQueue.cpp: "nothing ever sits in the queue without a pending        *)
(* message", up to a message that was refused since the last drain.         *)
THEOREM NothingStranded == Spec => []NoStrandedEvent
  BY KickInvariant, PTL DEF KickInv

-----------------------------------------------------------------------------
(* Refinement of the FIFO channel *)

LEMMA NextBatch == TypeOK /\ BatchInv /\ [Next]_vars => BatchInv'
<1> SUFFICES ASSUME TypeOK, BatchInv, [Next]_vars PROVE BatchInv'
  OBVIOUS
<1> USE UIAssumption DEF TypeOK, BatchInv, Goto, Threads
<1>1. ASSUME NEW p \in Posters, Post(p) PROVE BatchInv'
  BY <1>1 DEF Post, uiVars
<1>2. ASSUME NEW t \in Threads, Kick(t) PROVE BatchInv'
  BY <1>2 DEF Kick, KickExchange, KickLoadHwnd, KickLoadMessage, KickSend, KickSendFails,
              KickReset, uiVars
<1>3. ASSUME NEW w \in Windows, SetTarget(w) PROVE BatchInv'
  BY <1>3 DEF SetTarget
<1>4. CASE UIStep
  <2>1. CASE StoreMessage \/ CheckPending \/ DrainClear
    BY <2>1 DEF StoreMessage, CheckPending, DrainClear, uiVars
  <2>2. CASE DrainSwap
    BY <2>2 DEF DrainSwap
  <2>3. CASE Apply
    BY <2>3 DEF Apply
  <2>4. ASSUME NEW w \in Windows, ReceiveKick(w) PROVE BatchInv'
    BY <2>4 DEF ReceiveKick
  <2> QED
    BY <1>4, <2>1, <2>2, <2>3, <2>4 DEF UIStep
<1>5. CASE UNCHANGED vars
  BY <1>5 DEF vars, uiVars
<1> QED
  BY <1>1, <1>2, <1>3, <1>4, <1>5 DEF Next

\* Taking the head of a batch takes the head of all that is on the way.
LEMMA HeadOfConcat ==
    ASSUME NEW S, NEW s \in Seq(S), NEW t \in Seq(S), s # <<>>
    PROVE  /\ s \o t # <<>>
           /\ Head(s \o t) = Head(s)
           /\ Tail(s \o t) = Tail(s) \o t
<1>1. Len(s) \in Nat \ {0} /\ Len(t) \in Nat
  BY EmptySeq, LenProperties
<1>2. s \o t \in Seq(S) /\ Len(s \o t) = Len(s) + Len(t)
  BY ConcatProperties
<1>3. s \o t # <<>>
  BY <1>1, <1>2, EmptySeq
<1>4. (s \o t)[1] = s[1]
  BY <1>1, ConcatProperties
<1>5. Tail(s) \in Seq(S) /\ Len(Tail(s)) = Len(s) - 1
  BY HeadTailProperties
<1>6. Tail(s \o t) \in Seq(S) /\ Len(Tail(s \o t)) = Len(s) + Len(t) - 1
  BY <1>2, <1>3, HeadTailProperties
<1>7. Tail(s) \o t \in Seq(S) /\ Len(Tail(s) \o t) = Len(s) - 1 + Len(t)
  BY <1>5, ConcatProperties
<1>8. ASSUME NEW i \in 1..(Len(s) + Len(t) - 1)
      PROVE  Tail(s \o t)[i] = (Tail(s) \o t)[i]
  <2>1. Tail(s \o t)[i] = (s \o t)[i + 1]
    BY <1>2, <1>3, <1>6, HeadTailProperties
  <2>2. i + 1 \in 1..(Len(s) + Len(t))
    BY <1>1
  <2>3. (s \o t)[i + 1] = IF i + 1 <= Len(s) THEN s[i + 1] ELSE t[i + 1 - Len(s)]
    BY <2>2, ConcatProperties
  <2>4. (Tail(s) \o t)[i] = IF i <= Len(s) - 1 THEN Tail(s)[i] ELSE t[i - (Len(s) - 1)]
    BY <1>1, <1>5, ConcatProperties
  <2>5. i <= Len(s) - 1 => Tail(s)[i] = s[i + 1]
    BY <1>1, <1>5, HeadTailProperties
  <2>6. i + 1 - Len(s) = i - (Len(s) - 1)
    BY <1>1
  <2> QED
    BY <1>1, <2>1, <2>3, <2>4, <2>5, <2>6
<1>9. Tail(s \o t) = Tail(s) \o t
  BY <1>1, <1>6, <1>7, <1>8, SeqEqual
<1> QED
  BY <1>3, <1>4, <1>9

\* A push sends one event.
LEMMA PostSends ==
    ASSUME TypeOK, NEW p \in Posters, Post(p)
    PROVE  Channel!Next
<1> DEFINE event == <<p, sent[p] + 1>>
<1>1. event \in Events
  BY BoundsAssumption DEF TypeOK, Post, Events
<1>2. batch' \o queue' = Append(batch \o queue, event)
  <2>1. batch' = batch /\ queue' = Append(queue, event)
    BY DEF Post, uiVars
  <2>2. /\ batch \in Seq(Events) /\ queue \in Seq(Events) /\ <<event>> \in Seq(Events)
        /\ batch \o queue \in Seq(Events)
    BY <1>1, ConcatProperties DEF TypeOK
  <2>3. Append(queue, event) = queue \o <<event>>
    BY <1>1, <2>2, AppendIsConcat
  <2>4. Append(batch \o queue, event) = (batch \o queue) \o <<event>>
    BY <1>1, <2>2, AppendIsConcat
  <2>5. batch \o (queue \o <<event>>) = (batch \o queue) \o <<event>>
    BY <2>2, ConcatAssociative
  <2> QED
    BY <2>1, <2>3, <2>4, <2>5
<1>3. applied' = applied
  BY DEF Post
<1> QED
  BY <1>1, <1>2, <1>3 DEF Channel!Next, Channel!Send

\* Applying an event receives it.
LEMMA ApplyReceives ==
    ASSUME TypeOK, Apply
    PROVE  Channel!Next
<1>1. /\ batch \o queue # <<>>
      /\ Head(batch \o queue) = Head(batch)
      /\ Tail(batch \o queue) = Tail(batch) \o queue
  BY HeadOfConcat DEF TypeOK, Apply
<1>2. batch' = Tail(batch) /\ queue' = queue /\ applied' = Append(applied, Head(batch))
  BY DEF Apply, queueVars
<1> QED
  BY <1>1, <1>2 DEF Channel!Next, Channel!Receive

\* The swap only moves what is on the way from the queue to the empty batch.
LEMMA SwapIsInvisible ==
    ASSUME TypeOK, BatchInv, DrainSwap
    PROVE  UNCHANGED <<batch \o queue, applied>>
<1>1. batch = <<>> /\ queue \in Seq(Events)
  BY DEF TypeOK, BatchInv, DrainSwap
<1>2. batch' = queue /\ queue' = <<>> /\ applied' = applied
  BY DEF DrainSwap, historyVars
<1>3. batch \o queue = queue /\ batch' \o queue' = queue
  BY <1>1, <1>2, ConcatEmptySeq
<1> QED
  BY <1>2, <1>3

LEMMA NextImplements ==
    ASSUME TypeOK, BatchInv, [Next]_vars
    PROVE  [Channel!Next]_<<batch \o queue, applied>>
<1>1. ASSUME NEW t \in Threads, Kick(t) PROVE UNCHANGED <<batch \o queue, applied>>
  BY <1>1 DEF Kick, KickExchange, KickLoadHwnd, KickLoadMessage, KickSend, KickSendFails,
              KickReset, queueVars, uiVars, historyVars
<1>2. ASSUME NEW w \in Windows, SetTarget(w) \/ ReceiveKick(w)
      PROVE UNCHANGED <<batch \o queue, applied>>
  BY <1>2 DEF SetTarget, ReceiveKick, queueVars, historyVars
<1>3. CASE StoreMessage \/ CheckPending \/ DrainClear
  BY <1>3 DEF StoreMessage, CheckPending, DrainClear, queueVars, uiVars, historyVars
<1>4. CASE UNCHANGED vars
  BY <1>4 DEF vars, queueVars, uiVars, historyVars
<1> QED
  BY <1>1, <1>2, <1>3, <1>4, PostSends, ApplyReceives, SwapIsInvisible DEF Next, UIStep

(* EventQueue implements EventChannel: whatever posters, kicks and          *)
(* setTarget do, the engine applies each posted event once, in the order of *)
(* the pushes.                                                              *)
THEOREM QueueIsAChannel == Spec => ImplementsChannel
<1>1. Init => Channel!Init
  <2>1. <<>> \o <<>> = <<>>
    BY EmptySeq, ConcatEmptySeq
  <2> QED
    BY <2>1 DEF Init, Channel!Init
<1>2. Init => TypeOK /\ BatchInv
  BY InitType DEF Init, BatchInv, Threads
<1>3. TypeOK /\ BatchInv /\ [Next]_vars => (TypeOK /\ BatchInv)'
  BY NextType, NextBatch
<1>4. TypeOK /\ BatchInv /\ [Next]_vars => [Channel!Next]_<<batch \o queue, applied>>
  BY NextImplements
<1> QED
  BY <1>1, <1>2, <1>3, <1>4, PTL DEF Spec, ImplementsChannel, Channel!Spec

-----------------------------------------------------------------------------
(* The window (EngineWindow)                                                *)

\* What a step of the window may do to the target and to the handles.
WindowInv == /\ TypeOK /\ used \subseteq Windows /\ live \subseteq used
             /\ ~started => host \in Windows

LEMMA WindowInitInv == WindowInit => WindowInv
<1> SUFFICES ASSUME WindowInit PROVE WindowInv
  OBVIOUS
<1>1. <<>> \in Seq(Events)
  BY EmptySeq
<1>2. 0 \in 0..MaxEvents /\ 0 \in 0..MaxRounds /\ 0 \in 0..MaxTargets
  BY BoundsAssumption
<1>3. /\ pc \in [Threads -> {"idle"} \cup KickPcs \cup UIPcs]
      /\ \A p \in Posters : pc[p] \in {"idle"} \cup KickPcs
  BY DEF WindowInit, Threads
<1> QED
  BY <1>1, <1>2, <1>3 DEF WindowInit, WindowInv, TypeOK

\* Seen from the queue, the engine's start aims it at a window.
LEMMA StartIsTarget == WindowInv /\ EngineStart => Next
  BY DEF WindowInv, EngineStart, Next

LEMMA QueueStepIsNext == QueueStep => Next
  BY DEF QueueStep, Next

LEMMA WindowNextInv == WindowInv /\ [WindowNext]_allVars => WindowInv'
<1> SUFFICES ASSUME WindowInv, [WindowNext]_allVars PROVE WindowInv'
  OBVIOUS
<1> USE DEF WindowInv
<1>1. CASE EngineStart
  <2>1. TypeOK'
    BY <1>1, StartIsTarget, NextType
  <2> QED
    BY <1>1, <2>1 DEF EngineStart, SetTarget
<1>2. CASE OwnerDestroysWindow
  BY <1>2 DEF OwnerDestroysWindow, TypeOK, queueVars, uiVars, historyVars
<1>3. ASSUME NEW w \in Windows, RecreateAfterOwner(w) PROVE WindowInv'
  BY <1>3 DEF RecreateAfterOwner, NewWindow, TypeOK, queueVars, uiVars, historyVars
<1>4. ASSUME NEW w \in Windows, RecreateForMode(w) PROVE WindowInv'
  BY <1>4 DEF RecreateForMode, NewWindow, TypeOK, queueVars, uiVars, historyVars
<1>5. CASE QueueStep
  <2>1. TypeOK'
    BY <1>5, QueueStepIsNext, NextType
  <2>2. live' = live
    BY <1>5 DEF QueueStep, Post, Kick, KickExchange, KickLoadHwnd, KickLoadMessage, KickSend,
                KickSendFails, KickReset, UIStep, StoreMessage, CheckPending, DrainClear,
                DrainSwap, Apply, ReceiveKick
  <2> QED
    BY <1>5, <2>1, <2>2 DEF QueueStep, windowVars
<1>6. CASE UNCHANGED allVars
  BY <1>6 DEF allVars, vars, windowVars, TypeOK, queueVars, uiVars, historyVars
<1> QED
  BY <1>1, <1>2, <1>3, <1>4, <1>5, <1>6 DEF WindowNext

\* Until the engine has started nothing happens; then every kick is aimed at
\* the target, which is our window as long as it lives.
Unstarted == /\ queue = <<>> /\ ~kickPending /\ ~message /\ ~refused /\ ~recreateMsg /\ host \in used
             /\ hwnd = NoWindow /\ (\A t \in Threads : pc[t] = "idle")
             /\ \A w \in Windows : kicks[w] = 0

Aimed ==
    /\ \A t \in Threads :
          /\ pc[t] \in KickPcs => message
          /\ pc[t] \in {"loadMessage", "send"} => loaded[t] = hwnd
    /\ pc[UI] = "checkPending" => message

AimInv == /\ ~started => Unstarted
          /\ started => hwnd \in used /\ (hwnd \in live => host = hwnd)
          /\ Aimed

\* A step of a thread in kick(): whatever it is aimed at, it is the target.
LEMMA KickAims ==
  ASSUME TypeOK, Aimed, NEW t \in Threads, Kick(t), hwnd \in Windows, ~PostMayFail
  PROVE  Aimed' /\ (hwnd \in live => refused' = refused)
<1>0. /\ pc[t] \in KickPcs => message
      /\ pc[t] \in {"loadMessage", "send"} => loaded[t] = hwnd
  BY DEF Aimed
<1> USE DEF TypeOK, Aimed, Goto, KickPcs
<1>1. CASE KickExchange(t)
  BY <1>1 DEF KickExchange, historyVars
<1>2. CASE KickLoadHwnd(t)
  BY <1>2 DEF KickLoadHwnd, historyVars, queueVars
<1>3. CASE KickLoadMessage(t)
  <2>0. pc[t] = "loadMessage"
    BY <1>3 DEF KickLoadMessage
  <2>1. message /\ loaded[t] # NoWindow
    BY <1>0, <2>0, NoWindowAssumption
  <2>2. /\ pc' = [pc EXCEPT ![t] = "send"] /\ refused' = refused
        /\ message' = message /\ loaded' = loaded /\ hwnd' = hwnd
    BY <1>3, <2>1 DEF KickLoadMessage, queueVars
  <2> QED
    BY <1>3, <2>1, <2>2 DEF KickLoadMessage
<1>4. CASE KickSend(t)
  BY <1>4 DEF KickSend, historyVars, queueVars
<1>5. CASE KickSendFails(t)
  <2>0. pc[t] = "send"
    BY <1>5 DEF KickSendFails
  <2>1. /\ pc' = [pc EXCEPT ![t] = "reset"] /\ message' = message /\ loaded' = loaded
        /\ hwnd' = hwnd /\ hwnd \notin live /\ message
    BY <1>0, <1>5, <2>0 DEF KickSendFails, queueVars
  <2> QED
    BY <2>1
<1>6. CASE KickReset(t)
  BY <1>6 DEF KickReset, historyVars
<1> QED
  BY <1>1, <1>2, <1>3, <1>4, <1>5, <1>6 DEF Kick

LEMMA PostAims ==
  ASSUME TypeOK, Aimed, NEW p \in Posters, Post(p), ~EarlyPost
  PROVE  Aimed' /\ refused' = refused
<1>1. message /\ p # UI
  BY UIAssumption DEF Post, WorkersRunning
<1> QED
  BY <1>1 DEF Post, Aimed, Goto, KickPcs, TypeOK, uiVars

LEMMA UIAims == TypeOK /\ Aimed /\ UIStep => Aimed' /\ (refused' => refused)
<1> SUFFICES ASSUME TypeOK, Aimed, UIStep PROVE Aimed' /\ (refused' => refused)
  OBVIOUS
<1> USE DEF TypeOK, Aimed, Goto, KickPcs, Threads
<1>1. CASE StoreMessage
  <2>1. message' /\ UNCHANGED <<hwnd, loaded, refused>>
    BY <1>1 DEF StoreMessage, historyVars
  <2>2. pc' = [pc EXCEPT ![UI] = "checkPending"]
    BY <1>1 DEF StoreMessage
  <2>3. ASSUME NEW t \in Threads
        PROVE  /\ pc'[t] \in KickPcs => message'
               /\ pc'[t] \in {"loadMessage", "send"} => loaded'[t] = hwnd'
    BY <2>1, <2>2
  <2> QED
    BY <2>1, <2>3
<1>2. CASE CheckPending
  BY <1>2 DEF CheckPending, queueVars, historyVars
<1>3. CASE DrainClear
  BY <1>3 DEF DrainClear
<1>4. CASE DrainSwap
  BY <1>4 DEF DrainSwap, historyVars
<1>5. CASE Apply
  BY <1>5 DEF Apply, queueVars
<1>6. ASSUME NEW w \in Windows, ReceiveKick(w) PROVE Aimed' /\ (refused' => refused)
  BY <1>6 DEF ReceiveKick, queueVars, historyVars
<1> QED
  BY <1>1, <1>2, <1>3, <1>4, <1>5, <1>6 DEF UIStep

\* The queue's own steps, with a target that lives or has gone.
LEMMA QueueKeepsAim ==
  ASSUME WindowInv, AimInv, OnlyDestroyStrands, QueueStep, ~EarlyPost, ~PostMayFail
  PROVE  AimInv' /\ OnlyDestroyStrands'
<1>1. UNCHANGED windowVars
  BY DEF QueueStep
<1>2. started
  BY <1>1 DEF AimInv, Unstarted, QueueStep, Post, WorkersRunning, Kick, KickExchange, KickLoadHwnd,
         KickLoadMessage, KickSend, KickSendFails, KickReset, UIStep, StoreMessage, CheckPending,
         DrainClear, DrainSwap, Apply, ReceiveKick, Threads
<1>3. /\ hwnd \in Windows /\ hwnd \in used
      /\ TypeOK /\ Aimed
  BY <1>2 DEF AimInv, WindowInv
<1>4. hwnd' = hwnd /\ live' = live
  BY DEF QueueStep, Post, Kick, KickExchange, KickLoadHwnd, KickLoadMessage, KickSend,
         KickSendFails, KickReset, UIStep, StoreMessage, CheckPending, DrainClear,
         DrainSwap, Apply, ReceiveKick, queueVars
<1>5. Aimed' /\ (hwnd \in live => (refused' => refused))
  BY <1>3, KickAims, PostAims, UIAims DEF QueueStep
<1>6. AimInv'
  BY <1>1, <1>2, <1>3, <1>4, <1>5 DEF AimInv, windowVars
<1>7. ASSUME hwnd \in live
      PROVE  NoStrandedEvent' /\ FlagHasOwner'
  <2>1. KickInv
    BY <1>3, <1>7 DEF KickInv, OnlyDestroyStrands
  <2> QED
    BY <2>1, QueueStepIsNext, NextFlag, NextStranded
<1>8. ASSUME hwnd \in live
      PROVE  ~refused'
  BY <1>5, <1>8 DEF OnlyDestroyStrands
<1> QED
  BY <1>1, <1>3, <1>4, <1>6, <1>7, <1>8 DEF OnlyDestroyStrands, windowVars

\* The steps of the window: the target that goes is not missed any more.
LEMMA WindowKeepsAim ==
  ASSUME WindowInv, AimInv, OnlyDestroyStrands, [WindowNext]_allVars, ~EarlyPost, ~PostMayFail
  PROVE  AimInv' /\ OnlyDestroyStrands'
<1> USE DEF WindowInv
<1>1. CASE EngineStart
  <2>1. ~started /\ Unstarted /\ started' /\ host \in Windows /\ SetTarget(host)
    BY <1>1 DEF EngineStart, AimInv
  <2>2. /\ hwnd' = host /\ UNCHANGED <<queue, kickPending, message, refused, kicks, live, host>>
        /\ \A t \in Threads : pc'[t] \in {"idle", "storeMessage"}
    BY <1>1, <2>1 DEF EngineStart, SetTarget, Unstarted, historyVars, Goto, TypeOK
  <2>3. host \in used'
    BY <1>1, <2>1 DEF EngineStart, Unstarted
  <2>4. AimInv'
    BY <2>1, <2>2, <2>3 DEF AimInv, Aimed, KickPcs, Threads
  <2> QED
    BY <2>1, <2>2, <2>4 DEF OnlyDestroyStrands, Unstarted, NoStrandedEvent, FlagHasOwner
<1>2. CASE OwnerDestroysWindow
  <2>1. started /\ host \in live /\ hwnd \in used /\ (hwnd \in live => host = hwnd)
    BY <1>2 DEF OwnerDestroysWindow, AimInv
  <2>2. /\ started' = started /\ hwnd' = hwnd /\ used' = used /\ hwnd' \notin live'
        /\ pc' = pc /\ message' = message /\ loaded' = loaded
    BY <1>2, <2>1 DEF OwnerDestroysWindow, queueVars
  <2> QED
    BY <2>1, <2>2 DEF AimInv, Aimed, OnlyDestroyStrands
<1>3. ASSUME NEW w \in Windows, RecreateAfterOwner(w) \/ RecreateForMode(w)
      PROVE  AimInv' /\ OnlyDestroyStrands'
  <2>1. started
    BY <1>3 DEF RecreateAfterOwner, RecreateForMode, AimInv, Unstarted
  <2>2. /\ started' = started /\ hwnd' = hwnd /\ w \notin used /\ used' = used \cup {w}
        /\ pc' = pc /\ message' = message /\ loaded' = loaded
    BY <1>3 DEF RecreateAfterOwner, RecreateForMode, NewWindow, queueVars
  <2>3. hwnd \in Windows /\ hwnd \in used /\ (hwnd \in live => host = hwnd)
    BY <2>1 DEF AimInv
  <2>4. hwnd \notin live'
    BY <1>3, <2>2, <2>3, NoWindowAssumption DEF RecreateAfterOwner, RecreateForMode
  <2> QED
    BY <2>1, <2>2, <2>3, <2>4 DEF AimInv, Aimed, OnlyDestroyStrands
<1>4. CASE QueueStep
  BY <1>4, QueueKeepsAim
<1>5. CASE UNCHANGED allVars
  BY <1>5 DEF allVars, vars, windowVars, AimInv, Aimed, Unstarted, OnlyDestroyStrands,
              NoStrandedEvent, FlagHasOwner, KickInFlight, queueVars, historyVars
<1> QED
  BY <1>1, <1>2, <1>3, <1>4, <1>5 DEF WindowNext

(* However posts, kicks and drains interleave around the start, no kick is  *)
(* given up and no event is left behind as long as the window the queue is  *)
(* aimed at has not been destroyed (EventQueue.cpp, WindowHost.cpp), for    *)
(* any number of windows, posters and events.                               *)
THEOREM WindowsStrand == WindowSpec => []OnlyDestroyStrands
<1> DEFINE Guard == ~EarlyPost /\ ~PostMayFail
           Good == WindowInv /\ (Guard => AimInv /\ OnlyDestroyStrands)
<1>1. WindowInit => Good
  <2>1. WindowInit => AimInv
    BY NoWindowAssumption DEF WindowInit, AimInv, Aimed, Unstarted, KickPcs, Threads
  <2>2. WindowInit => OnlyDestroyStrands
    BY DEF WindowInit, OnlyDestroyStrands, NoStrandedEvent, FlagHasOwner
  <2> QED
    BY <2>1, <2>2, WindowInitInv
<1>2. Good /\ [WindowNext]_allVars => Good'
  BY WindowNextInv, WindowKeepsAim
<1>3. Good => OnlyDestroyStrands
  BY DEF OnlyDestroyStrands
<1> QED
  BY <1>1, <1>2, <1>3, PTL DEF WindowSpec
=============================================================================
