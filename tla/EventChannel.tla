---------------------------- MODULE EventChannel ----------------------------
(***************************************************************************)
(* What EngineEventQueue promises its users: a FIFO channel.  Every event  *)
(* posted by a worker is handed to the engine exactly once, in the order   *)
(* the pushes took the lock.                                               *)
(***************************************************************************)
EXTENDS Sequences

CONSTANT Event

VARIABLES channel, received

Init == channel = <<>> /\ received = <<>>

Send(e) == channel' = Append(channel, e) /\ UNCHANGED received

Receive == /\ channel # <<>>
           /\ received' = Append(received, Head(channel))
           /\ channel' = Tail(channel)

Next == Receive \/ \E e \in Event : Send(e)

Spec == Init /\ [][Next]_<<channel, received>>
=============================================================================
