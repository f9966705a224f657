------------------------------ MODULE JobPool ------------------------------
(***************************************************************************)
(* What a pool of workers promises whoever submits jobs to it: every job   *)
(* is run once, and by the time the pool is over every job submitted has   *)
(* been run to its end and no other is taken.  Which worker runs a job,    *)
(* and in which order, is not promised.                                    *)
(***************************************************************************)
CONSTANT Jobs

VARIABLES waiting, running, finished,  \* the jobs submitted, by what became of them
          over                         \* the pool has been drained

vars == <<waiting, running, finished, over>>

Init == waiting = {} /\ running = {} /\ finished = {} /\ over = FALSE

Submit(j) ==
    /\ ~over /\ j \notin waiting \cup running \cup finished
    /\ waiting' = waiting \cup {j}
    /\ UNCHANGED <<running, finished, over>>

Start(j) ==
    /\ j \in waiting
    /\ waiting' = waiting \ {j}
    /\ running' = running \cup {j}
    /\ UNCHANGED <<finished, over>>

Finish(j) ==
    /\ j \in running
    /\ running' = running \ {j}
    /\ finished' = finished \cup {j}
    /\ UNCHANGED <<waiting, over>>

Drained ==
    /\ ~over /\ waiting = {} /\ running = {}
    /\ over' = TRUE
    /\ UNCHANGED <<waiting, running, finished>>

Next == (\E j \in Jobs : Submit(j) \/ Start(j) \/ Finish(j)) \/ Drained

Spec == Init /\ [][Next]_vars
=============================================================================
