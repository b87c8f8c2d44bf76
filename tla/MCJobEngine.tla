----------------------------- MODULE MCJobEngine -----------------------------
(* JobEngine on small instances for TLC. *)
EXTENDS JobEngine

AllCommands == {"run", "hold", "resume", "remove", "preset", "recycle", "add", "auto", "tool"}
SameGuess   == [k \in Keys |-> k]
FirstGuess  == [k \in Keys |-> "mp4"]
AllHdr      == [k \in Keys |-> "hdr"]
AllSdr      == [k \in Keys |-> "sdr"]
=============================================================================
