---------------------------- MODULE MCEventQueue ----------------------------
(* For TLC, one of three: the queue, with two worker threads that may post  *)
(* before the target is set, one window and a PostMessageW that may fail;   *)
(* the life of the instances whose message loop receives the kicks, where   *)
(* the mutex and the receiver can be had; and that life where they may not, *)
(* bounded to one window per process that does not leave with AME.          *)
EXTENDS EventQueue, AppLife

\* Which of them runs; the variables of the others keep their first values.
VARIABLE part

\* Processes differ in nothing, so the first that starts is called "p".
LifeBound ==
    /\ Phase("q") # "none" => Phase("p") # "none"
    /\ part = "life" => \A p \in Procs : ~app[p].bare /\ (Runs(p) => app[p].receives)
    /\ part = "bare" => ~quitWithAme /\ \A p \in Procs : app[p].made <= 1 /\ ~app[p].docked

AllInit ==
    /\ part \in {"queue", "life", "bare"} /\ Init /\ LifeInit /\ LifeBound
    /\ part = "queue" => ~quitWithAme /\ world.shell

AllNext ==
    /\ UNCHANGED part
    /\ \/ part = "queue" /\ Next /\ UNCHANGED lifeVars
       \/ part # "queue" /\ LifeNext /\ LifeBound' /\ UNCHANGED vars

allVars == <<part, vars, lifeVars>>
Lives(A) == part = "life" /\ A /\ UNCHANGED <<part, vars>>

(* The queue's fairness, and of the life: the loop serves its timer and its *)
(* messages, and a process that ends is gone some time later.               *)
AllSpec ==
    /\ AllInit /\ [][AllNext]_allVars
    /\ \A t \in Threads : WF_allVars(part = "queue" /\ Kick(t) /\ UNCHANGED <<part, lifeVars>>)
    /\ WF_allVars(part = "queue" /\ UIStep /\ UNCHANGED <<part, lifeVars>>)
    /\ \A p \in Procs : /\ WF_allVars(Lives(Tick(p))) /\ WF_allVars(Lives(LoopEnds(p)))
                        /\ WF_allVars(Lives(Released(p)))
                        /\ WF_allVars(Lives(\E made \in BOOLEAN : Recreated(p, made)))

=============================================================================
