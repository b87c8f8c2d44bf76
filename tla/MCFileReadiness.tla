-------------------------- MODULE MCFileReadiness ---------------------------
(* FileReadiness for TLC.  One change of the file of any kind, and a second *)
(* one that writes a file again that was removed.                          *)
EXTENDS FileReadiness

WrittenAgain == \A j \in Jobs : file'[j] = file[j] \/ (file[j].state = "absent" /\ file'[j].state = "final")

MCNext == Next /\ (changes = 1 => WrittenAgain)

MCSpec == /\ Init /\ [][MCNext]_vars
          /\ WF_vars(WorkerStep) /\ WF_vars(StopJoin)
          /\ \A j \in Jobs : WF_vars(ProbeDue(j))
          /\ \A j \in Jobs, field \in TimerFields : WF_vars(TimerOver(j, field))
=============================================================================
