---------------------------- MODULE MCMuxWorker -----------------------------
(* MuxWorker for TLC, in two shapes: two jobs that ask once under the plan  *)
(* of the cfg, and one job that asks twice under every plan.                *)
EXTENDS MuxWorker

CONSTANT Second      \* the job that asks for nothing in the second shape
VARIABLE twice       \* the shape

Twice == INSTANCE MuxWorker WITH MaxRuns <- 2, MaxForeign <- 1, KeepChoices <- BOOLEAN,
                                 Policies <- {"overwrite", "skip", "increment"}

MCInit ==
    /\ twice \in BOOLEAN
    /\ IF twice
       THEN Twice!Init /\ plan[Second] = [onConflict |-> "skip", keepPartial |-> FALSE]
                       /\ partial[Second] = "none"
       ELSE Init

MCNext ==
    /\ IF twice
       THEN Twice!Next /\ enqueued'[Second] = 0 /\ final'[Second] = final[Second]
       ELSE Next
    /\ UNCHANGED twice

MCSpec == /\ MCInit /\ [][MCNext]_<<vars, twice>>
          /\ WF_vars(WorkerStep) /\ WF_vars(UIStep)
=============================================================================
