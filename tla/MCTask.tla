------------------------------- MODULE MCTask -------------------------------
(***************************************************************************)
(* The scheduler with a second history variable: how many switches each    *)
(* thread has waited since it last had the CPU, counted until a tick hits  *)
(* inside a voluntary task_yield.                                          *)
(***************************************************************************)
EXTENDS Task

VARIABLE waited

MCInit == Init /\ waited = [t \in Threads |-> 0]

MCNext ==
  /\ Next
  /\ waited' = [t \in Threads |->
       IF t = owner' \/ torn' \/ ~Created(t) \/ (t \in Slots /\ state[t] = "done")
         THEN 0
       ELSE IF At("picked") THEN waited[t] + 1
       ELSE waited[t]]

MCVars == <<vars, waited>>
MCSpec == MCInit /\ [][MCNext]_MCVars
MCFairSpec == MCSpec /\ Fairness

(* Round robin: until a tick hits inside a voluntary task_yield, a thread  *)
(* that can run waits for at most one turn of every other thread, also     *)
(* when tasks are created or finish meanwhile.                             *)
BoundedWaiting == \A t \in Threads : waited[t] <= ntasks
=============================================================================
